---- MODULE RecipesProofs ----
(***************************************************************************)
(* What the operators of RecipeGraph, Job and Recipes return, and the      *)
(* invariant Base that the proofs about recipes are built on, with what    *)
(* follows from it.                                                        *)
(***************************************************************************)
EXTENDS Recipes, FiniteSetTheorems, WellFoundedInduction, TLAPS

\* Restrict keeps the values.
LEMMA RestrictFacts ==
  ASSUME NEW f, NEW S, S \subseteq DOMAIN f
  PROVE  /\ DOMAIN Restrict(f, S) = S
         /\ \A x \in S : Restrict(f, S)[x] = f[x]
BY DEF Restrict

\* AndFollowing is closed under the edges within nodes.
LEMMA ClosedUnderFollowing ==
  ASSUME NEW g, NEW start, NEW nodes, start \subseteq nodes
  PROVE  /\ AndFollowing(g, start, nodes) \subseteq nodes
         /\ start \subseteq AndFollowing(g, start, nodes)
         /\ \A c \in nodes : Parents(g, c) \cap AndFollowing(g, start, nodes) # {}
                             => c \in AndFollowing(g, start, nodes)
BY DEF AndFollowing

\* A node of AndFollowing that was not there at the start follows another of them.
LEMMA FollowsForAReason ==
  ASSUME NEW g, NEW start, NEW nodes, start \subseteq nodes,
         NEW n \in AndFollowing(g, start, nodes), n \notin start
  PROVE  Parents(g, n) \cap AndFollowing(g, start, nodes) # {}
<1> DEFINE F == AndFollowing(g, start, nodes)
<1>1. SUFFICES ASSUME Parents(g, n) \cap F = {}
               PROVE  FALSE
  OBVIOUS
<1>2. F \subseteq nodes /\ start \subseteq F
      /\ \A c \in nodes : Parents(g, c) \cap F # {} => c \in F
  BY ClosedUnderFollowing
<1>3. F \ {n} \in SUBSET nodes /\ start \subseteq F \ {n}
  BY <1>2
<1>4. \A c \in nodes : Parents(g, c) \cap (F \ {n}) # {} => c \in F \ {n}
  BY <1>1, <1>2
<1>5. n \in F \ {n}
  BY Zenon, <1>3, <1>4 DEF AndFollowing
<1> QED BY <1>5

\* An order of a finite set lists each member at one place.
LEMMA OrdersListAll ==
  ASSUME NEW S, IsFiniteSet(S)
  PROVE  /\ Orders(S) # {} /\ Cardinality(S) \in Nat
         /\ \A s \in Orders(S) : /\ s \in [1..Cardinality(S) -> S]
                                 /\ \A n \in S : \E i \in DOMAIN s : s[i] = n
                                 /\ \A i, j \in DOMAIN s : s[i] = s[j] => i = j
BY FS_CardinalityType DEF Orders, ExistsBijection, Bijection, Injection, Surjection, IsInjective

\* _match_identical_nodes: identical nodes have the same job type, their parents are
\* matched with each other, and no node of a is taken twice.
LEMMA MatchFacts ==
  ASSUME NEW a, NEW b, IsFiniteSet(Names(b)), NEW m \in _match_identical_nodes(a, b)
  PROVE  /\ DOMAIN m \subseteq Names(b)
         /\ \A n \in DOMAIN m :
              /\ m[n] \in Names(a)
              /\ a.nodes[m[n]].type = b.nodes[n].type
              /\ Parents(b, n) \subseteq DOMAIN m
              /\ Parents(a, m[n]) = {m[p] : p \in Parents(b, n)}
         /\ \A n, o \in DOMAIN m : m[n] = m[o] => n = o
<1>1. PICK s \in get_topological_order(b) : \A i \in DOMAIN s :
        LET found == Candidates(a, b, MatchedBefore(m, s, i), s[i])
        IN  IF s[i] \in DOMAIN m THEN m[s[i]] \in found ELSE found = {}
  BY DEF _match_identical_nodes
<1>2. DOMAIN m \subseteq Names(b)
  BY DEF _match_identical_nodes
<1>3. s \in Orders(Names(b))
  BY DEF get_topological_order
<1>4. /\ DOMAIN s = 1..Cardinality(Names(b)) /\ Cardinality(Names(b)) \in Nat
      /\ \A n \in Names(b) : \E i \in DOMAIN s : s[i] = n
      /\ \A i, j \in DOMAIN s : s[i] = s[j] => i = j
  BY <1>3, OrdersListAll
<1>5. ASSUME NEW i \in DOMAIN s, s[i] \in DOMAIN m
      PROVE  LET before == MatchedBefore(m, s, i) IN
             /\ m[s[i]] \in Names(a) \ Range(before)
             /\ _is_node_identical(a, b, before, m[s[i]], s[i])
  BY <1>1, <1>5 DEF Candidates
<1>6. ASSUME NEW i \in DOMAIN s
      PROVE  LET before == MatchedBefore(m, s, i) IN
             /\ DOMAIN before \subseteq DOMAIN m
             /\ \A n \in DOMAIN before : before[n] = m[n]
             /\ \A k \in DOMAIN s : k < i /\ s[k] \in DOMAIN m => s[k] \in DOMAIN before
  <2> DEFINE S == DOMAIN m \cap {s[k] : k \in 1..(i-1)}
  <2>1. DOMAIN Restrict(m, S) = S /\ \A x \in S : Restrict(m, S)[x] = m[x]
    BY RestrictFacts
  <2>2. \A k \in DOMAIN s : k < i /\ s[k] \in DOMAIN m => s[k] \in S
    BY <1>4
  <2> QED BY Zenon, <2>1, <2>2 DEF MatchedBefore
<1>7. ASSUME NEW n \in DOMAIN m
      PROVE  /\ m[n] \in Names(a)
             /\ a.nodes[m[n]].type = b.nodes[n].type
             /\ Parents(b, n) \subseteq DOMAIN m
             /\ Parents(a, m[n]) = {m[p] : p \in Parents(b, n)}
  <2>1. PICK i \in DOMAIN s : s[i] = n
    BY <1>2, <1>4
  <2> DEFINE before == MatchedBefore(m, s, i)
  <2>2. m[n] \in Names(a) /\ _is_node_identical(a, b, before, m[n], n)
    BY <1>5, <2>1
  <2>3. DOMAIN before \subseteq DOMAIN m /\ \A p \in DOMAIN before : before[p] = m[p]
    BY <1>6
  <2> HIDE DEF before
  <2> QED BY <2>2, <2>3 DEF _is_node_identical
<1>8. ASSUME NEW i \in DOMAIN s, NEW j \in DOMAIN s, s[i] \in DOMAIN m, s[j] \in DOMAIN m,
             m[s[i]] = m[s[j]], i < j
      PROVE  FALSE
  <2> DEFINE before == MatchedBefore(m, s, j)
  <2>1. s[i] \in DOMAIN before /\ before[s[i]] = m[s[i]]
    BY <1>6, <1>8
  <2>2. m[s[j]] \notin Range(before)
    BY <1>5, <1>8
  <2> HIDE DEF before
  <2> QED BY <1>8, <2>1, <2>2 DEF Range
<1>9. ASSUME NEW n \in DOMAIN m, NEW o \in DOMAIN m, m[n] = m[o]
      PROVE  n = o
  <2>1. PICK i \in DOMAIN s : s[i] = n
    BY <1>2, <1>4
  <2>2. PICK j \in DOMAIN s : s[j] = o
    BY <1>2, <1>4
  <2>3. i \in Nat /\ j \in Nat
    BY <1>4
  <2>4. ~(i < j) /\ ~(j < i)
    BY <1>8, <1>9, <2>1, <2>2
  <2> QED BY <2>1, <2>2, <2>3, <2>4
<1> QED BY <1>2, <1>7, <1>9

\* The function identical, from nodes of b to nodes of a, leads parents to parents.
ParentsMatch(a, b, identical) ==
  \A n \in DOMAIN identical :
    /\ Parents(b, n) \subseteq DOMAIN identical
    /\ \A p : p \in Parents(a, identical[n]) <=> \E o \in Parents(b, n) : p = identical[o]

\* RecipeGraphDelta: this holds of the identical nodes, and the jobs of none of them
\* are among those that are superseded.
LEMMA DeltaFacts ==
  ASSUME NEW a, NEW b, NEW names, IsFiniteSet(Names(b)), NEW d \in RecipeGraphDelta(a, b, names)
  PROVE  /\ DOMAIN d.identical \subseteq Names(b)
         /\ \A n \in DOMAIN d.identical :
              /\ d.identical[n] \in Names(a)
              /\ a.nodes[d.identical[n]].type = b.nodes[n].type
              /\ n \notin DOMAIN d.changed
              /\ d.identical[n] \notin Range(d.changed) \cup d.deleted
         /\ ParentsMatch(a, b, d.identical)
         /\ \A n, o \in DOMAIN d.identical : d.identical[n] = d.identical[o] => n = o
         /\ Range(d.changed) \cup d.deleted \subseteq Names(a)
<1> DEFINE D(m, forced, same) ==
             [identical |-> Restrict(m, DOMAIN m \ forced),
              changed   |-> [n \in same \cup forced |-> IF n \in forced THEN m[n] ELSE n],
              new       |-> Names(b) \ (DOMAIN m \cup same),
              deleted   |-> Names(a) \ (Range(m) \cup same)]
<1>1. PICK m \in _match_identical_nodes(a, b) :
        d = D(m, reprocess_identical_nodes(b, m, names), _match_changed_nodes(a, b, m))
  BY Zenon DEF RecipeGraphDelta
<1> DEFINE forced == reprocess_identical_nodes(b, m, names)
           same == _match_changed_nodes(a, b, m)
<1>2. /\ DOMAIN m \subseteq Names(b)
      /\ \A n \in DOMAIN m :
           /\ m[n] \in Names(a)
           /\ a.nodes[m[n]].type = b.nodes[n].type
           /\ Parents(b, n) \subseteq DOMAIN m
           /\ Parents(a, m[n]) = {m[p] : p \in Parents(b, n)}
      /\ \A n, o \in DOMAIN m : m[n] = m[o] => n = o
  BY MatchFacts
<1>3. forced \subseteq DOMAIN m /\ \A c \in DOMAIN m : Parents(b, c) \cap forced # {} => c \in forced
  BY ClosedUnderFollowing DEF reprocess_identical_nodes
<1>4. same = (Names(b) \ DOMAIN m) \cap (Names(a) \ Range(m))
  BY DEF _match_changed_nodes
<1> HIDE DEF forced, same
<1>5. /\ d.identical = Restrict(m, DOMAIN m \ forced)
      /\ d.changed = [n \in same \cup forced |-> IF n \in forced THEN m[n] ELSE n]
      /\ d.deleted = Names(a) \ (Range(m) \cup same)
  <2>1. d = D(m, forced, same)
    BY Zenon, <1>1 DEF forced, same
  <2> QED BY <2>1
<1>6. /\ DOMAIN d.identical = DOMAIN m \ forced
      /\ \A n \in DOMAIN m \ forced : d.identical[n] = m[n]
  BY <1>5, RestrictFacts
<1>7. \A n \in DOMAIN m : m[n] \in Range(m)
  BY DEF Range
<1>8. Range(d.changed) = same \cup {m[n] : n \in forced}
  <2>1. /\ DOMAIN d.changed = same \cup forced
        /\ \A n \in forced : d.changed[n] = m[n]
        /\ \A n \in same : d.changed[n] = n
    BY <1>3, <1>4, <1>5
  <2> QED BY <2>1 DEF Range
<1>9. Range(m) \subseteq Names(a)
  BY <1>2 DEF Range
<1>10. ASSUME NEW n \in DOMAIN d.identical
       PROVE  /\ d.identical[n] \in Names(a)
              /\ a.nodes[d.identical[n]].type = b.nodes[n].type
              /\ Parents(b, n) \subseteq DOMAIN d.identical
              /\ n \notin DOMAIN d.changed
              /\ d.identical[n] \notin Range(d.changed) \cup d.deleted
  <2>1. n \in DOMAIN m /\ n \notin forced /\ d.identical[n] = m[n]
    BY <1>6
  <2>2. Parents(b, n) \subseteq DOMAIN m \ forced
    BY <1>2, <1>3, <2>1
  <2>3. n \notin DOMAIN d.changed
    BY <1>4, <1>5, <2>1
  <2>4. m[n] \notin same /\ m[n] \notin d.deleted
    BY <1>4, <1>5, <1>7, <2>1
  <2>5. m[n] \notin {m[o] : o \in forced}
    BY <1>2, <1>3, <2>1
  <2> QED BY <1>2, <1>6, <1>8, <2>1, <2>2, <2>3, <2>4, <2>5
<1>11. ASSUME NEW n \in DOMAIN d.identical
       PROVE  \A p : p \in Parents(a, d.identical[n]) <=> \E o \in Parents(b, n) : p = d.identical[o]
  <2>1. n \in DOMAIN m /\ d.identical[n] = m[n]
    BY <1>6
  <2>2. \A p \in Parents(b, n) : d.identical[p] = m[p]
    BY <1>6, <1>10
  <2>3. Parents(a, m[n]) = {m[p] : p \in Parents(b, n)}
    BY <1>2, <2>1
  <2> QED BY <2>1, <2>2, <2>3
<1>12. \A n, o \in DOMAIN d.identical : d.identical[n] = d.identical[o] => n = o
  BY <1>2, <1>6
<1>13. Range(d.changed) \cup d.deleted \subseteq Names(a)
  <2>1. same \subseteq Names(a) /\ d.deleted \subseteq Names(a)
    BY <1>4, <1>5
  <2>2. {m[n] : n \in forced} \subseteq Names(a)
    BY <1>2, <1>3
  <2> QED BY <1>8, <2>1, <2>2
<1>14. ParentsMatch(a, b, d.identical)
  BY <1>10, <1>11 DEF ParentsMatch
<1> QED BY <1>2, <1>6, <1>10, <1>12, <1>13, <1>14

\* A nonempty set of numbers has a smallest one.
LEMMA Smallest ==
  ASSUME NEW T, T \subseteq Nat, T # {}
  PROVE  \E i \in T : \A j \in T : i <= j
<1>1. \E i \in T : \A j \in T : ~(<<j, i>> \in OpToRel(<, Nat))
  BY WFMin, NatLessThanWellFounded, Zenon
<1>2. PICK i \in T : \A j \in T : ~(<<j, i>> \in OpToRel(<, Nat))
  BY <1>1, Zenon
<1>3. \A j \in T : ~(j < i)
  BY Zenon, <1>2 DEF OpToRel
<1> QED BY <1>3

\* What MatchedBefore keeps of a match.
LEMMA BeforeFacts ==
  ASSUME NEW m, NEW s, NEW i
  PROVE  /\ \A n : n \in DOMAIN MatchedBefore(m, s, i)
                    <=> n \in DOMAIN m /\ \E k \in 1..(i-1) : n = s[k]
         /\ \A n \in DOMAIN MatchedBefore(m, s, i) : MatchedBefore(m, s, i)[n] = m[n]
<1> DEFINE S == DOMAIN m \cap {s[k] : k \in 1..(i-1)}
<1>1. DOMAIN Restrict(m, S) = S /\ \A x \in S : Restrict(m, S)[x] = m[x]
  BY RestrictFacts
<1>2. \A n : n \in S <=> n \in DOMAIN m /\ \E k \in 1..(i-1) : n = s[k]
  OBVIOUS
<1> HIDE DEF S
<1>3. MatchedBefore(m, s, i) = Restrict(m, S)
  BY DEF MatchedBefore, S
<1> QED BY <1>1, <1>2, <1>3

\* Where nodes keep their names _match_identical_nodes finds the same nodes in
\* whatever order it visits them: one it finds in one order and not in another
\* would have a first such node in the second, whose parents it had found.
LEMMA NoFewerMatched ==
  ASSUME NEW a, NEW b, IsFiniteSet(Names(b)), InputsFromParents(b), KeepsNames(a, b),
         NEW m \in _match_identical_nodes(a, b), NEW o \in _match_identical_nodes(a, b)
  PROVE  DOMAIN m \subseteq DOMAIN o
<1> SUFFICES ASSUME NEW x \in DOMAIN m, x \notin DOMAIN o PROVE FALSE
  OBVIOUS
<1>1. PICK t \in get_topological_order(b) : \A i \in DOMAIN t :
        LET found == Candidates(a, b, MatchedBefore(m, t, i), t[i])
        IN  IF t[i] \in DOMAIN m THEN m[t[i]] \in found ELSE found = {}
  BY DEF _match_identical_nodes
<1>2. PICK s \in get_topological_order(b) : \A i \in DOMAIN s :
        LET found == Candidates(a, b, MatchedBefore(o, s, i), s[i])
        IN  IF s[i] \in DOMAIN o THEN o[s[i]] \in found ELSE found = {}
  BY DEF _match_identical_nodes
<1>3. DOMAIN m \subseteq Names(b) /\ DOMAIN o \subseteq Names(b)
  BY DEF _match_identical_nodes
<1>4. /\ s \in Orders(Names(b)) /\ t \in Orders(Names(b))
      /\ \A i, j \in DOMAIN s : s[i] \in Parents(b, s[j]) => i < j
  BY DEF get_topological_order
<1>5. /\ DOMAIN s = 1..Cardinality(Names(b)) /\ DOMAIN t = 1..Cardinality(Names(b))
      /\ Cardinality(Names(b)) \in Nat
      /\ \A n \in Names(b) : (\E i \in DOMAIN s : s[i] = n) /\ (\E i \in DOMAIN t : t[i] = n)
  BY <1>4, OrdersListAll
<1> DEFINE T == {i \in DOMAIN s : s[i] \in DOMAIN m /\ s[i] \notin DOMAIN o}
<1>6. PICK i \in T : \A j \in T : i <= j
  <2>1. T # {} /\ T \subseteq Nat
    BY <1>3, <1>5
  <2> HIDE DEF T
  <2> QED BY Zenon, <2>1, Smallest
<1> DEFINE n == s[i]
<1>7. i \in DOMAIN s /\ n \in DOMAIN m /\ n \notin DOMAIN o /\ i \in Nat
  BY <1>5, <1>6
<1>8. PICK j \in DOMAIN t : t[j] = n
  BY <1>3, <1>5, <1>7
<1> DEFINE known == MatchedBefore(m, t, j)
           before == MatchedBefore(o, s, i)
<1>9. m[n] = n /\ (\A p \in DOMAIN m : m[p] = p) /\ (\A p \in DOMAIN o : o[p] = p)
  BY <1>7 DEF KeepsNames
<1>10. n \in Names(a) /\ _is_node_identical(a, b, known, n, n)
  <2>1. m[n] \in Candidates(a, b, known, n)
    BY <1>1, <1>7, <1>8
  <2> QED BY <1>9, <2>1 DEF Candidates
<1>11. DOMAIN known \subseteq DOMAIN m /\ \A p \in DOMAIN known : known[p] = p
  <2>1. /\ \A p : p \in DOMAIN known <=> p \in DOMAIN m /\ \E k \in 1..(j-1) : p = t[k]
        /\ \A p \in DOMAIN known : known[p] = m[p]
    BY BeforeFacts
  <2> HIDE DEF known
  <2> QED BY <1>9, <2>1
<1>12. /\ \A p : p \in DOMAIN before <=> p \in DOMAIN o /\ \E k \in 1..(i-1) : p = s[k]
       /\ \A p \in DOMAIN before : before[p] = p
  <2>1. /\ \A p : p \in DOMAIN before <=> p \in DOMAIN o /\ \E k \in 1..(i-1) : p = s[k]
        /\ \A p \in DOMAIN before : before[p] = o[p]
    BY ZenonT(30), BeforeFacts
  <2> HIDE DEF before
  <2> QED BY <1>9, <2>1
<1> HIDE DEF known, before
<1>13. Parents(b, n) \subseteq DOMAIN known
  BY <1>10 DEF _is_node_identical
<1>14. Parents(b, n) \subseteq DOMAIN before
  <2> SUFFICES ASSUME NEW p \in Parents(b, n) PROVE p \in DOMAIN before
    OBVIOUS
  <2>1. p \in DOMAIN m
    BY <1>11, <1>13
  <2>2. PICK k \in DOMAIN s : s[k] = p
    BY <1>3, <1>5, <2>1
  <2>3. k < i /\ k \in 1..(i-1)
    BY <1>4, <1>5, <1>7, <2>2
  <2>4. p \in DOMAIN o
    BY <1>5, <1>6, <2>1, <2>2, <2>3
  <2> QED BY <1>12, <2>2, <2>3, <2>4
<1>15. n \notin Range(before)
  BY <1>7, <1>12 DEF Range
<1>16. \A p \in Parents(b, n) : before[p] = p /\ known[p] = p
  BY <1>11, <1>12, <1>13, <1>14
<1>17. {before[p] : p \in Parents(b, n)} = Parents(a, n)
  <2>1. {known[p] : p \in Parents(b, n)} = Parents(a, n)
    BY <1>10 DEF _is_node_identical
  <2> QED BY ZenonT(30), <1>16, <2>1
<1>18. ASSUME NEW k \in DOMAIN b.nodes[n].inputs
       PROVE  is_equal_to(a, b, before, a.nodes[n].inputs[k], b.nodes[n].inputs[k])
  <2> DEFINE u == a.nodes[n].inputs[k]
             v == b.nodes[n].inputs[k]
  <2>1. is_equal_to(a, b, known, u, v)
    BY Zenon, <1>10 DEF _is_node_identical
  <2>2. v.kind = "node" => v.from \in Parents(b, n)
    BY <1>3, <1>7 DEF InputsFromParents
  <2> HIDE DEF u, v
  <2>3. is_equal_to(a, b, before, u, v)
    BY Zenon, <1>16, <2>1, <2>2 DEF is_equal_to
  <2> QED BY Zenon, <2>3 DEF u, v
<1>19. _is_node_identical(a, b, before, n, n)
  BY Zenon, <1>10, <1>14, <1>17, <1>18 DEF _is_node_identical
<1>20. n \in Candidates(a, b, before, n)
  BY Zenon, <1>10, <1>15, <1>19 DEF Candidates
<1>21. Candidates(a, b, before, n) = {}
  BY <1>2, <1>7 DEF before
<1> QED BY <1>20, <1>21

\* So there is one match, and one difference.
LEMMA OneDelta ==
  ASSUME NEW a, NEW b, NEW names, IsFiniteSet(Names(b)), InputsFromParents(b), KeepsNames(a, b),
         NEW d \in RecipeGraphDelta(a, b, names), NEW e \in RecipeGraphDelta(a, b, names)
  PROVE  d = e
<1>1. ASSUME NEW m \in _match_identical_nodes(a, b), NEW o \in _match_identical_nodes(a, b)
      PROVE  m = o
  <2>1. DOMAIN m = DOMAIN o
    BY Zenon, NoFewerMatched
  <2>2. \A n \in DOMAIN m : m[n] = n /\ o[n] = n
    BY <2>1 DEF KeepsNames
  <2>3. m = [n \in DOMAIN m |-> m[n]] /\ o = [n \in DOMAIN o |-> o[n]]
    BY DEF _match_identical_nodes
  <2> QED BY <2>1, <2>2, <2>3
<1> QED BY Zenon, <1>1 DEF RecipeGraphDelta

\* Where nodes keep their names a difference leads each identical node to itself.
LEMMA IdenticalKeepNames ==
  ASSUME NEW a, NEW b, NEW names, KeepsNames(a, b), NEW d \in RecipeGraphDelta(a, b, names),
         NEW n \in DOMAIN d.identical
  PROVE  d.identical[n] = n
<1> DEFINE D(m, forced, same) ==
             [identical |-> Restrict(m, DOMAIN m \ forced),
              changed   |-> [x \in same \cup forced |-> IF x \in forced THEN m[x] ELSE x],
              new       |-> Names(b) \ (DOMAIN m \cup same),
              deleted   |-> Names(a) \ (Range(m) \cup same)]
<1>0. PICK m \in _match_identical_nodes(a, b) :
        d = D(m, reprocess_identical_nodes(b, m, names), _match_changed_nodes(a, b, m))
  BY Zenon DEF RecipeGraphDelta
<1>1. d.identical = Restrict(m, DOMAIN m \ reprocess_identical_nodes(b, m, names))
  BY <1>0
<1>2. n \in DOMAIN m /\ d.identical[n] = m[n]
  BY <1>1, RestrictFacts
<1> QED BY <1>2 DEF KeepsNames

\* A batch that reprocesses a recipe again finds the same difference.
LEMMA BatchDelta ==
  ASSUME BatchesKeepNames, scenario \in Scenarios, scenario.events # {}, NEW rev \in 1..2
  PROVE  /\ \A d \in Delta(rev) : \A n \in DOMAIN d.identical : d.identical[n] = n
         /\ \A d, e \in Delta(rev) : d = e
<1> DEFINE a == scenario.revs[rev]
           b == scenario.revs[CurrentRev]
<1>1. IsFiniteSet(Names(b)) /\ InputsFromParents(b)
  BY ScenariosAssumption DEF CurrentRev
<1>2. KeepsNames(a, b)
  BY DEF BatchesKeepNames
<1>3. Delta(rev) = RecipeGraphDelta(a, b, scenario.names)
  BY DEF Delta, DeltaIn
<1> HIDE DEF a, b
<1> QED BY <1>1, <1>2, <1>3, OneDelta, IdenticalKeepNames

-----------------------------------------------------------------------------
(* Rows of the job table.                                                  *)

\* A job with such a status has never been queued.
WaitingStatuses == {"PENDING", "BLOCKED"}

\* A job that waits has no execution; one that was queued, ran or ended has; and
\* a job that was queued has its input.
GoodRows == {x \in JobRows : /\ x.status \in WaitingStatuses => x.num_exes = 0
                             /\ x.status \in {"QUEUED", "RUNNING", "FAILED", "COMPLETED"} => x.num_exes > 0
                             /\ x.num_exes > 0 => x.has_input}

\* What no change of a row undoes.
Kept(x, y) ==
  /\ x.status = "COMPLETED" => y.status = "COMPLETED"
  /\ x.has_input => y.has_input

\* A change of a row by a message for its job.
RowStep(x, y) ==
  /\ y \in GoodRows /\ Kept(x, y)
  /\ y.has_input = x.has_input /\ y.is_superseded = x.is_superseded
  /\ y.status \in WaitingStatuses => x.status \in WaitingStatuses \cup {"CANCELED"}

\* A new job of a recipe is pending and has no input yet.
LEMMA NewRowFacts ==
  LET x == create_job(TRUE, FALSE)
  IN  x \in GoodRows /\ x.status = "PENDING" /\ x.has_input = FALSE /\ x.is_superseded = FALSE
<1> DEFINE x == create_job(TRUE, FALSE)
<1>1. x.status = "PENDING" /\ x.is_superseded = FALSE
  BY DEF create_job
<1>2. x.has_input = FALSE
  BY Zenon DEF create_job
<1>3. x \in GoodRows
  BY MaxTriesAssumption DEF create_job, GoodRows, JobRows, JobStatuses, WaitingStatuses
<1> QED BY Zenon, <1>1, <1>2, <1>3

\* The ways in which the model changes a row are steps of RowStep.
LEMMA SameRow ==
  ASSUME NEW x \in GoodRows
  PROVE  RowStep(x, x)
BY DEF RowStep, Kept

\* A job that is queued or requeued becomes QUEUED.
LEMMA QueuedRow ==
  ASSUME NEW x \in GoodRows, can_be_queued(x) \/ can_be_requeued(x)
  PROVE  RowStep(x, update_jobs_to_queued(x)) /\ update_jobs_to_queued(x).status = "QUEUED"
<1> DEFINE y == update_jobs_to_queued(x)
<1>1. x \in JobRows /\ x.status # "COMPLETED" /\ x.has_input
  BY DEF GoodRows, can_be_queued, can_be_requeued
<1>2. y \in JobRows
  <2> DEFINE n == x.num_exes + 1
             a == [x EXCEPT !.status = "QUEUED", !.node = FALSE, !.error = FALSE]
             b == [a EXCEPT !.num_exes = n]
  <2>1. n \in Nat
    BY <1>1 DEF JobRows
  <2>2. a \in JobRows
    BY Zenon, <1>1 DEF JobRows, JobStatuses
  <2>3. y = [b EXCEPT !.last_status_change = 0]
    BY DEF update_jobs_to_queued
  <2> HIDE DEF a, n, y
  <2>4. b \in JobRows
    BY <2>1, <2>2 DEF JobRows
  <2> HIDE DEF b
  <2> QED BY <2>3, <2>4 DEF JobRows
<1>3. /\ y.status = "QUEUED" /\ y.num_exes = x.num_exes + 1 /\ y.has_input = x.has_input
      /\ y.has_input /\ y.is_superseded = x.is_superseded /\ x.num_exes \in Nat
  BY Zenon, <1>1 DEF update_jobs_to_queued, JobRows
<1> HIDE DEF y
<1>4. y \in GoodRows
  BY <1>2, <1>3 DEF GoodRows, WaitingStatuses
<1> QED BY <1>1, <1>3, <1>4 DEF RowStep, Kept, WaitingStatuses, y

\* A waiting status is written to a job that has never been queued.
LEMMA WaitingRow ==
  ASSUME NEW x \in GoodRows, NEW when \in Nat, NEW w \in WaitingStatuses, ~has_been_queued(x)
  PROVE  RowStep(x, [x EXCEPT !.status = w, !.last_status_change = when])
<1> DEFINE y == [x EXCEPT !.status = w, !.last_status_change = when]
<1>1. x \in JobRows /\ x.num_exes = 0 /\ x.status \in WaitingStatuses \cup {"CANCELED"}
  BY DEF GoodRows, JobRows, JobStatuses, WaitingStatuses, has_been_queued
<1>2. y \in JobRows
  BY Zenon, <1>1 DEF JobRows, JobStatuses, WaitingStatuses
<1>3. /\ y.status = w /\ y.num_exes = 0 /\ y.has_input = x.has_input /\ y.is_superseded = x.is_superseded
  BY <1>1 DEF JobRows
<1> HIDE DEF y
<1>4. y \in GoodRows
  BY <1>2, <1>3 DEF GoodRows, WaitingStatuses
<1> QED BY <1>1, <1>3, <1>4 DEF RowStep, Kept, WaitingStatuses, y

\* A job whose parents do not allow it to run is blocked or made pending.
LEMMA BlockedRow ==
  ASSUME NEW x \in GoodRows, NEW when \in Nat
  PROVE  RowStep(x, update_jobs_to_blocked(x, when)) /\ RowStep(x, update_jobs_to_pending(x, when))
<1>1. "BLOCKED" \in WaitingStatuses /\ "PENDING" \in WaitingStatuses
  BY DEF WaitingStatuses
<1> QED BY Zenon, <1>1, WaitingRow, SameRow DEF can_be_blocked, can_be_pending, update_jobs_to_blocked, update_jobs_to_pending

\* A job that has not ended can be canceled.
LEMMA CanceledRow ==
  ASSUME NEW x \in GoodRows, NEW when \in Nat
  PROVE  RowStep(x, update_jobs_to_canceled(x, when))
BY ZenonT(30) DEF RowStep, Kept, GoodRows, JobRows, JobStatuses, WaitingStatuses, can_be_canceled,
       has_been_queued, update_jobs_to_canceled

\* A job execution ends: the job completes or fails.
LEMMA EndedRow ==
  ASSUME NEW x \in GoodRows, NEW status
  PROVE  RowStep(x, Ended(x, status))
BY ZenonT(30) DEF RowStep, Kept, GoodRows, JobRows, JobStatuses, WaitingStatuses, Ended, update_jobs_to_completed,
       update_jobs_to_failed, can_be_completed, can_be_failed, ActiveStatuses

\* process_job_input only sets the input of the job.
LEMMA InputRow ==
  ASSUME NEW x \in GoodRows
  PROVE  process_job_input(x) = [x EXCEPT !.has_input = TRUE] /\ process_job_input(x) \in GoodRows
BY Zenon DEF process_job_input, GoodRows, JobRows

\* supersede_jobs leaves the status of the job alone.
LEMMA SupersededRow ==
  ASSUME NEW x \in GoodRows
  PROVE  /\ supersede_jobs(x) \in GoodRows /\ Kept(x, supersede_jobs(x))
         /\ supersede_jobs(x).status = x.status /\ supersede_jobs(x).has_input = x.has_input
BY Zenon DEF supersede_jobs, GoodRows, JobRows, Kept

\* The old way to supersede a job also cancels it when it has not been queued.
LEMMA SupersededOldRow ==
  ASSUME NEW x \in GoodRows, now \in Nat
  PROVE  /\ supersede_jobs_old(x) \in GoodRows /\ Kept(x, supersede_jobs_old(x))
         /\ supersede_jobs_old(x).has_input = x.has_input
BY Zenon DEF supersede_jobs_old, GoodRows, JobRows, JobStatuses, Kept, WaitingStatuses

-----------------------------------------------------------------------------
(* Nodes, and the jobs that a new recipe queues.                           *)

\* RecipeNode rows: one job for a name, and one name for a job.
IsNodes(nodes) ==
  /\ \A x \in nodes : x = <<x[1], x[2]>>
  /\ \A x, y \in nodes : (x[1] = y[1] => x = y) /\ (x[2] = y[2] => x = y)

\* JobAt finds the job of a node.
LEMMA JobAtFacts ==
  ASSUME NEW nodes, IsNodes(nodes)
  PROVE  /\ \A x \in nodes : x[1] \in NodeNames(nodes) /\ x[2] \in JobsOf(nodes) /\ JobAt(nodes, x[1]) = x[2]
         /\ \A n \in NodeNames(nodes) : <<n, JobAt(nodes, n)>> \in nodes /\ JobAt(nodes, n) \in JobsOf(nodes)
<1>1. ASSUME NEW x \in nodes
      PROVE  x[1] \in NodeNames(nodes) /\ x[2] \in JobsOf(nodes) /\ JobAt(nodes, x[1]) = x[2]
  <2>1. x[1] \in NodeNames(nodes) /\ x[2] \in JobsOf(nodes)
    BY DEF NodeNames, JobsOf
  <2>2. <<x[1], x[2]>> \in nodes
    BY DEF IsNodes
  <2>3. \A j : <<x[1], j>> \in nodes => j = x[2]
    BY <2>2 DEF IsNodes
  <2> QED BY <2>1, <2>2, <2>3 DEF JobAt
<1>2. ASSUME NEW n \in NodeNames(nodes)
      PROVE  <<n, JobAt(nodes, n)>> \in nodes /\ JobAt(nodes, n) \in JobsOf(nodes)
  <2>1. PICK x \in nodes : x[1] = n
    BY DEF NodeNames
  <2> QED BY <1>1, <2>1 DEF IsNodes
<1> QED BY <1>1, <1>2

\* A function on 1..n is a sequence; the job table is updated as a function.
LEMMA FunctionsAreSequences ==
  ASSUME NEW T, NEW n \in Nat, NEW f \in [1..n -> T]
  PROVE  f \in Seq(T) /\ Len(f) = n /\ DOMAIN f = 1..n
OBVIOUS

\* What queue_new_recipe does to the row of a job: x is the row before it, y the
\* row after it.
QueuedStep(x, y) ==
  /\ y \in GoodRows /\ Kept(x, y) /\ y.is_superseded = x.is_superseded
  /\ \/ y.status = x.status
     \/ x.status = "PENDING" /\ y.status \in {"BLOCKED", "QUEUED"}

\* What creating and queueing the jobs of a recipe does to the rows: a job gets its
\* input only after the jobs of its parents are completed, and is then queued.
LEMMA QueuedFacts ==
  ASSUME NEW g, NEW nodes, NEW rows \in Seq(GoodRows), now \in Nat,
         \A n \in Names(g) : Parents(g, n) \subseteq Names(g),
         IsNodes(nodes), NodeNames(nodes) = Names(g), JobsOf(nodes) \subseteq DOMAIN rows
  PROVE  LET q == Queued(g, nodes, rows) IN
         /\ q \in Seq(GoodRows) /\ Len(q) = Len(rows)
         /\ \A j \in DOMAIN rows :
              /\ QueuedStep(rows[j], q[j])
              /\ q[j].has_input => \/ rows[j].has_input
                                   \/ \E n \in Names(g) : /\ j = JobAt(nodes, n)
                                                          /\ ParentsCompleted(g, nodes, rows, n)
         /\ \A n \in Names(g) :
              LET j == JobAt(nodes, n)
              IN  rows[j].status = "PENDING" /\ ~rows[j].is_superseded /\ ParentsCompleted(g, nodes, rows, n)
                    => q[j].status = "QUEUED"
<1> DEFINE B == get_blocked_jobs(g, nodes, rows)
           blocked == Apply(rows, B, LAMBDA j : [j EXCEPT !.status = "BLOCKED", !.last_status_change = now])
           ready == get_existing_jobs_to_queue(g, nodes, blocked)
           given == Apply(blocked, ready, process_job_input)
           q == Queued(g, nodes, rows)
<1>1. q = [j \in DOMAIN given |-> IF j \in {i \in ready : can_be_queued(given[i])}
                                  THEN update_jobs_to_queued(given[j]) ELSE given[j]]
  BY DEF Queued, Apply
<1>2. given = [j \in DOMAIN blocked |-> IF j \in ready THEN process_job_input(blocked[j]) ELSE blocked[j]]
  BY DEF Apply
<1>3. blocked = [j \in DOMAIN rows |->
                   IF j \in B THEN [rows[j] EXCEPT !.status = "BLOCKED", !.last_status_change = now]
                   ELSE rows[j]]
  BY DEF Apply
<1>4. ready = {JobAt(nodes, n) : n \in {m \in Names(g) : /\ blocked[JobAt(nodes, m)].status = "PENDING"
                                                         /\ ParentsCompleted(g, nodes, blocked, m)}}
  BY DEF get_existing_jobs_to_queue
<1>5. \A n \in Names(g) : JobAt(nodes, n) \in DOMAIN rows
  BY Zenon, JobAtFacts
<1> HIDE DEF blocked, ready, given, q
<1>6. \A j \in B : j \in DOMAIN rows /\ rows[j].status = "PENDING"
  <2>1. Blocked(g, nodes, rows) \subseteq Names(g)
    BY ClosedUnderFollowing DEF Blocked, Waiting
  <2> QED BY <1>5, <2>1 DEF get_blocked_jobs, StatusAt
<1> HIDE DEF B
<1>7. DOMAIN rows = 1..Len(rows) /\ Len(rows) \in Nat /\ \A j \in DOMAIN rows : rows[j] \in GoodRows
  OBVIOUS
<1>8. DOMAIN blocked = DOMAIN rows /\ DOMAIN given = DOMAIN rows /\ DOMAIN q = DOMAIN rows
  BY ZenonT(30), <1>1, <1>2, <1>3
<1>9. ASSUME NEW j \in DOMAIN rows
      PROVE  /\ blocked[j] \in GoodRows /\ blocked[j].has_input = rows[j].has_input
             /\ blocked[j].is_superseded = rows[j].is_superseded /\ Kept(rows[j], blocked[j])
             /\ \/ blocked[j].status = rows[j].status
                \/ j \in B /\ rows[j].status = "PENDING" /\ blocked[j].status = "BLOCKED"
  <2>1. CASE j \notin B
    BY Zenon, <1>3, <1>7, <2>1 DEF Kept
  <2>2. CASE j \in B
    <3>1. rows[j].status = "PENDING" /\ ~has_been_queued(rows[j])
      BY SMTT(60), <1>6, <1>7, <2>2 DEF GoodRows, WaitingStatuses, has_been_queued
    <3>2. blocked[j] = [rows[j] EXCEPT !.status = "BLOCKED", !.last_status_change = now]
      BY Zenon, <1>3, <2>2
    <3>3. RowStep(rows[j], blocked[j])
      <4>1. "BLOCKED" \in WaitingStatuses /\ rows[j] \in GoodRows
        BY SMTT(60), <1>7 DEF WaitingStatuses
      <4>2. \A x \in GoodRows : ~has_been_queued(x) =>
              RowStep(x, [x EXCEPT !.status = "BLOCKED", !.last_status_change = now])
        BY ZenonT(60), <4>1, WaitingRow
      <4>3. RowStep(rows[j], [rows[j] EXCEPT !.status = "BLOCKED", !.last_status_change = now])
        BY Zenon, <3>1, <4>1, <4>2
      <4> QED BY <3>2, <4>3
    <3>4. blocked[j].status = "BLOCKED"
      BY Zenon, <1>7, <3>2 DEF GoodRows, JobRows
    <3> QED BY Zenon, <2>2, <3>1, <3>3, <3>4 DEF RowStep
  <2> QED BY SMTT(60), <2>1, <2>2
<1>10. ASSUME NEW j \in DOMAIN rows
       PROVE  /\ given[j] \in GoodRows /\ Kept(blocked[j], given[j])
              /\ given[j].is_superseded = blocked[j].is_superseded /\ given[j].status = blocked[j].status
              /\ j \in ready => given[j].has_input
              /\ j \notin ready => given[j] = blocked[j]
  <2>1. CASE j \notin ready
    BY Zenon, <1>2, <1>8, <1>9, <2>1 DEF Kept
  <2>2. CASE j \in ready
    <3>1. given[j] = process_job_input(blocked[j])
      BY <1>2, <1>8, <2>2
    <3>2. given[j] \in GoodRows /\ given[j] = [blocked[j] EXCEPT !.has_input = TRUE]
      BY Zenon, <1>9, <3>1, InputRow
    <3> QED BY Zenon, <1>9, <2>2, <3>2 DEF Kept, GoodRows, JobRows
  <2> QED BY Zenon, <2>1, <2>2
<1>11. ASSUME NEW j \in DOMAIN rows
       PROVE  /\ q[j] \in GoodRows /\ Kept(given[j], q[j])
              /\ q[j].is_superseded = given[j].is_superseded /\ q[j].has_input = given[j].has_input
              /\ \/ q[j].status = given[j].status
                 \/ j \in ready /\ q[j].status = "QUEUED"
              /\ j \in ready /\ can_be_queued(given[j]) => q[j].status = "QUEUED"
  <2>1. CASE j \in ready /\ can_be_queued(given[j])
    <3>1. q[j] = update_jobs_to_queued(given[j])
      BY ZenonT(30), <1>1, <1>8, <2>1
    <3> QED BY <1>10, <2>1, <3>1, QueuedRow DEF RowStep
  <2>2. CASE ~(j \in ready /\ can_be_queued(given[j]))
    <3>1. q[j] = given[j]
      BY <1>1, <1>8, <2>2
    <3> QED BY <1>10, <2>2, <3>1 DEF Kept
  <2> QED BY ZenonT(30), <2>1, <2>2
<1>12. \A j \in ready : j \in DOMAIN rows /\ blocked[j].status = "PENDING"
  BY <1>4, <1>5
<1>13. \A n \in Names(g) : ParentsCompleted(g, nodes, blocked, n) <=> ParentsCompleted(g, nodes, rows, n)
  <2>1. \A j \in DOMAIN rows : blocked[j].status = "COMPLETED" <=> rows[j].status = "COMPLETED"
    BY <1>9
  <2> QED BY <1>5, <2>1 DEF ParentsCompleted
<1>14. q \in Seq(GoodRows) /\ Len(q) = Len(rows)
  <2>1. q \in [1..Len(rows) -> GoodRows]
    BY Zenon, <1>1, <1>7, <1>8, <1>11
  <2> QED BY <1>7, <2>1, FunctionsAreSequences
<1>15. ASSUME NEW j \in DOMAIN rows
       PROVE  QueuedStep(rows[j], q[j])
  <2>1. q[j] \in GoodRows /\ Kept(rows[j], q[j]) /\ q[j].is_superseded = rows[j].is_superseded
    BY <1>9, <1>10, <1>11 DEF Kept
  <2>2. \/ q[j].status = rows[j].status
        \/ rows[j].status = "PENDING" /\ q[j].status \in {"BLOCKED", "QUEUED"}
    BY <1>9, <1>10, <1>11, <1>12
  <2> QED BY ZenonT(30), <2>1, <2>2 DEF QueuedStep
<1>16. ASSUME NEW j \in DOMAIN rows, q[j].has_input, ~rows[j].has_input
       PROVE  \E n \in Names(g) : j = JobAt(nodes, n) /\ ParentsCompleted(g, nodes, rows, n)
  <2>1. j \in ready
    BY ZenonT(30), <1>9, <1>10, <1>11, <1>16
  <2> QED BY Zenon, <1>4, <1>13, <2>1
<1>17. ASSUME NEW n \in Names(g), rows[JobAt(nodes, n)].status = "PENDING",
              ~rows[JobAt(nodes, n)].is_superseded, ParentsCompleted(g, nodes, rows, n)
       PROVE  q[JobAt(nodes, n)].status = "QUEUED"
  <2> DEFINE j == JobAt(nodes, n)
  <2>1. j \in DOMAIN rows
    BY <1>5
  <2>2. n \notin Blocked(g, nodes, rows)
    <3>1. \A p \in Parents(g, n) : StatusAt(nodes, rows, p) = "COMPLETED"
      BY <1>17 DEF ParentsCompleted, StatusAt
    <3> DEFINE waiting == Waiting(g, nodes, rows)
               start == {o \in waiting : \E p \in Parents(g, o) \ waiting :
                                          StatusAt(nodes, rows, p) \in BLOCKING_STATUSES}
    <3>2. Blocked(g, nodes, rows) = AndFollowing(g, start, waiting) /\ start \subseteq waiting
      BY DEF Blocked
    <3>3. n \notin start /\ Parents(g, n) \cap waiting = {}
      BY <3>1 DEF Waiting, BLOCKING_STATUSES
    <3> HIDE DEF waiting, start
    <3>4. AndFollowing(g, start, waiting) \subseteq waiting
      BY <3>2, ClosedUnderFollowing
    <3> QED BY <3>2, <3>3, <3>4, FollowsForAReason
  <2>3. j \notin B
    <3>1. Blocked(g, nodes, rows) \subseteq Names(g)
      BY ClosedUnderFollowing DEF Blocked, Waiting
    <3>2. \A m \in Names(g) : JobAt(nodes, m) = j => m = n
      <4>1. \A m \in Names(g) : <<m, JobAt(nodes, m)>> \in nodes
        BY JobAtFacts
      <4> QED BY Zenon, <4>1 DEF IsNodes
    <3> QED BY Zenon, <2>2, <3>1, <3>2 DEF B, get_blocked_jobs
  <2>4. blocked[j].status = "PENDING" /\ j \in ready
    BY Zenon, <1>4, <1>9, <1>13, <1>17, <2>1, <2>3
  <2>5. can_be_queued(given[j])
    <3>1. blocked[j].is_superseded = rows[j].is_superseded
      BY Zenon, <1>9, <2>1
    <3>2. /\ given[j] \in GoodRows /\ given[j].status = "PENDING" /\ given[j].has_input
          /\ given[j].is_superseded = FALSE
      BY ZenonT(30), <1>10, <1>17, <2>1, <2>4, <3>1 DEF GoodRows, JobRows
    <3> QED BY <3>2 DEF can_be_queued, has_been_queued, WaitingStatuses, GoodRows, JobRows
  <2> QED BY <1>11, <2>1, <2>4, <2>5
<1> QED BY <1>14, <1>15, <1>16, <1>17 DEF q

-----------------------------------------------------------------------------
(* New jobs.                                                               *)

\* What NewJobs gives for the nodes names of g, when there are n jobs.
FreshJobs(new, g, names, n, T) ==
  LET k == Len(new.rows)
  IN  /\ new.rows \in Seq(GoodRows) /\ k \in Nat
      /\ \A i \in 1..k : new.rows[i] = create_job(TRUE, FALSE)
      /\ new.types \in Seq(T) /\ Len(new.types) = k
      /\ \A x \in new.nodes : /\ x = <<x[1], x[2]>> /\ x[1] \in names
                              /\ x[2] \in (n+1)..(n+k)
                              /\ new.types[x[2] - n] = g.nodes[x[1]].type
      /\ \A x, y \in new.nodes : (x[1] = y[1] => x = y) /\ (x[2] = y[2] => x = y)
      /\ \A m \in names : \E x \in new.nodes : x[1] = m

\* NewJobs numbers the new jobs from n + 1 on.
LEMMA NewJobsFacts ==
  ASSUME NEW g, NEW names, IsFiniteSet(names), NEW n \in Nat, NEW T, \A m \in names : g.nodes[m].type \in T
  PROVE  FreshJobs(NewJobs(g, names, n), g, names, n, T)
<1> DEFINE s == CHOOSE order \in Orders(names) : TRUE
           k == Cardinality(names)
           new == NewJobs(g, names, n)
<1>1. /\ s \in [1..k -> names] /\ k \in Nat
      /\ \A m \in names : \E i \in 1..k : s[i] = m
      /\ \A i, j \in 1..k : s[i] = s[j] => i = j
  <2>1. s \in Orders(names)
    BY OrdersListAll
  <2> HIDE DEF s
  <2>2. /\ s \in [1..k -> names] /\ k \in Nat
        /\ \A m \in names : \E i \in DOMAIN s : s[i] = m
        /\ \A i, j \in DOMAIN s : s[i] = s[j] => i = j
    BY Zenon, <2>1, OrdersListAll
  <2> HIDE DEF k
  <2>3. DOMAIN s = 1..k
    BY <2>2
  <2> QED BY Zenon, <2>2, <2>3
<1>2. /\ new.rows  = [i \in DOMAIN s |-> create_job(TRUE, FALSE)]
      /\ new.types = [i \in DOMAIN s |-> g.nodes[s[i]].type]
      /\ new.nodes = {<<s[i], n + i>> : i \in DOMAIN s}
  BY DEF NewJobs
<1> HIDE DEF s, k, new
<1>3. new.rows \in [1..k -> GoodRows] /\ \A i \in 1..k : new.rows[i] = create_job(TRUE, FALSE)
  <2>1. create_job(TRUE, FALSE) \in GoodRows
    BY Zenon, NewRowFacts
  <2>2. DOMAIN s = 1..k
    BY <1>1
  <2> QED BY Zenon, <1>2, <2>1, <2>2
<1>4. new.types \in [1..k -> T] /\ \A i \in 1..k : new.types[i] = g.nodes[s[i]].type
  BY <1>1, <1>2
<1>5. new.rows \in Seq(GoodRows) /\ Len(new.rows) = k /\ new.types \in Seq(T) /\ Len(new.types) = k
  BY <1>1, <1>3, <1>4, FunctionsAreSequences
<1>6. \A x \in new.nodes : \E i \in 1..k : x = <<s[i], n + i>>
  BY <1>1, <1>2
<1>7. \A i \in 1..k : <<s[i], n + i>> \in new.nodes
  BY ZenonT(30), <1>1, <1>2
<1>8. \A x \in new.nodes : /\ x = <<x[1], x[2]>> /\ x[1] \in names
                           /\ x[2] \in (n+1)..(n+k)
                           /\ new.types[x[2] - n] = g.nodes[x[1]].type
  <2> SUFFICES ASSUME NEW x \in new.nodes
               PROVE  /\ x = <<x[1], x[2]>> /\ x[1] \in names
                      /\ x[2] \in (n+1)..(n+k)
                      /\ new.types[x[2] - n] = g.nodes[x[1]].type
    OBVIOUS
  <2>1. PICK i \in 1..k : x = <<s[i], n + i>>
    BY <1>6
  <2>2. x[1] = s[i] /\ x[2] = n + i /\ i \in Nat /\ x[2] - n = i
    BY <1>1, <2>1
  <2> QED BY <1>1, <1>4, <2>1, <2>2
<1>9. \A x, y \in new.nodes : (x[1] = y[1] => x = y) /\ (x[2] = y[2] => x = y)
  <2> SUFFICES ASSUME NEW x \in new.nodes, NEW y \in new.nodes
               PROVE  (x[1] = y[1] => x = y) /\ (x[2] = y[2] => x = y)
    OBVIOUS
  <2>1. PICK i \in 1..k : x = <<s[i], n + i>>
    BY <1>6
  <2>2. PICK j \in 1..k : y = <<s[j], n + j>>
    BY <1>6
  <2>3. x[1] = s[i] /\ x[2] = n + i /\ y[1] = s[j] /\ y[2] = n + j /\ i \in Nat /\ j \in Nat
    BY <1>1, <2>1, <2>2
  <2>4. x[1] = y[1] \/ x[2] = y[2] => i = j
    BY <1>1, <2>3
  <2> QED BY <2>1, <2>2, <2>4
<1>10. \A m \in names : \E x \in new.nodes : x[1] = m
  <2> SUFFICES ASSUME NEW m \in names PROVE \E x \in new.nodes : x[1] = m
    OBVIOUS
  <2>1. PICK i \in 1..k : s[i] = m
    BY <1>1
  <2> QED BY Zenon, <1>7, <2>1
<1>11. FreshJobs(new, g, names, n, T)
  BY ZenonT(30), <1>1, <1>3, <1>5, <1>8, <1>9, <1>10 DEF FreshJobs
<1> QED BY <1>11 DEF new

\* New rows are put behind the rows of a table.
LEMMA ConcatFacts ==
  ASSUME NEW T, NEW s \in Seq(T), NEW u \in Seq(T)
  PROVE  /\ s \o u \in Seq(T) /\ Len(s) \in Nat /\ Len(u) \in Nat /\ Len(s \o u) = Len(s) + Len(u)
         /\ \A i \in 1..Len(s) : (s \o u)[i] = s[i]
         /\ \A i \in (Len(s)+1)..(Len(s) + Len(u)) : (s \o u)[i] = u[i - Len(s)] /\ i - Len(s) \in 1..Len(u)
OBVIOUS

\* Nodes of a recipe lead one to one to jobs of the types that its definition
\* gives to them.
NodesFit(nodes, g, types) ==
  /\ nodes \subseteq Names(g) \X (1..Len(types))
  /\ \A x, y \in nodes : (x[1] = y[1] => x = y) /\ (x[2] = y[2] => x = y)
  /\ \A x \in nodes : types[x[2]] = g.nodes[x[1]].type

\* Part of the nodes of a recipe fit its definition as well.
LEMMA FittingNodes ==
  ASSUME NEW nodes, NEW g, NEW types, NodesFit(nodes, g, types)
  PROVE  /\ IsNodes(nodes) /\ JobsOf(nodes) \subseteq 1..Len(types) /\ NodeNames(nodes) \subseteq Names(g)
         /\ \A some \in SUBSET nodes : NodesFit(some, g, types)
BY DEF NodesFit, IsNodes, JobsOf, NodeNames

\* Nodes that fit the definition do so when there are more jobs.
LEMMA NodesFitLater ==
  ASSUME NEW nodes, NEW g, NEW T, NEW types \in Seq(T), NEW more \in Seq(T), NodesFit(nodes, g, types)
  PROVE  NodesFit(nodes, g, types \o more)
<1>1. Len(types) \in Nat /\ Len(more) \in Nat /\ Len(types \o more) = Len(types) + Len(more)
  OBVIOUS
<1>2. \A i \in 1..Len(types) : (types \o more)[i] = types[i] /\ i \in 1..(Len(types) + Len(more))
  OBVIOUS
<1> QED BY <1>1, <1>2 DEF NodesFit

\* Nodes that fit the definition, with new jobs for other names, fit it.
LEMMA NodesGrow ==
  ASSUME NEW nodes, NEW g, NEW T, NEW types \in Seq(T), NodesFit(nodes, g, types),
         NEW names, names \subseteq Names(g), IsFiniteSet(names), names \cap NodeNames(nodes) = {},
         \A m \in names : g.nodes[m].type \in T
  PROVE  LET new == NewJobs(g, names, Len(types))
         IN  /\ NodesFit(nodes \cup new.nodes, g, types \o new.types)
             /\ NodeNames(nodes \cup new.nodes) = NodeNames(nodes) \cup names
             /\ new.rows \in Seq(GoodRows) /\ new.types \in Seq(T) /\ Len(new.rows) = Len(new.types)
             /\ \A i \in 1..Len(new.rows) : new.rows[i] = create_job(TRUE, FALSE)
             /\ \A x \in new.nodes : x[1] \in names /\ x[2] > Len(types) /\ x[2] \in Nat
<1> DEFINE n == Len(types)
           new == NewJobs(g, names, n)
           all == types \o new.types
<1>1. n \in Nat
  OBVIOUS
<1> DEFINE k == Len(new.rows)
<1>2. FreshJobs(new, g, names, n, T)
  BY Zenon, <1>1, NewJobsFacts
<1>0. /\ new.rows \in Seq(GoodRows) /\ k \in Nat
      /\ \A i \in 1..k : new.rows[i] = create_job(TRUE, FALSE)
      /\ new.types \in Seq(T) /\ Len(new.types) = k
      /\ \A x \in new.nodes : /\ x = <<x[1], x[2]>> /\ x[1] \in names
                              /\ x[2] \in (n+1)..(n+k)
                              /\ new.types[x[2] - n] = g.nodes[x[1]].type
      /\ \A x, y \in new.nodes : (x[1] = y[1] => x = y) /\ (x[2] = y[2] => x = y)
      /\ \A m \in names : \E x \in new.nodes : x[1] = m
  BY ZenonT(30), <1>2 DEF FreshJobs
<1> HIDE DEF new, k
<1>3. NodesFit(nodes, g, all)
  BY <1>0, NodesFitLater
<1>4. Len(all) = n + k /\ \A i \in (n+1)..(n+k) : all[i] = new.types[i - n] /\ i \in 1..(n+k)
  <2>1. Len(all) = n + k /\ \A i \in (n+1)..(n+k) : all[i] = new.types[i - n]
    <3> DEFINE u == new.types
    <3>1. u \in Seq(T) /\ Len(u) = k /\ all = types \o u
      BY <1>0
    <3> HIDE DEF u, all
    <3>2. Len(types \o u) = n + k /\ \A i \in (n+1)..(n+k) : (types \o u)[i] = u[i - n]
      BY ZenonT(30), <3>1, ConcatFacts
    <3> QED BY <3>1, <3>2 DEF u
  <2> QED BY <1>0, <1>1, <2>1
<1> HIDE DEF all
<1>5. new.nodes \subseteq Names(g) \X (1..Len(all)) /\ \A x \in new.nodes : all[x[2]] = g.nodes[x[1]].type
  <2> SUFFICES ASSUME NEW x \in new.nodes
               PROVE  x \in Names(g) \X (1..Len(all)) /\ all[x[2]] = g.nodes[x[1]].type
    OBVIOUS
  <2>1. x = <<x[1], x[2]>> /\ x[1] \in Names(g) /\ x[2] \in (n+1)..(n+k)
    BY <1>0
  <2>2. x[2] \in 1..Len(all) /\ all[x[2]] = new.types[x[2] - n]
    BY <1>4, <2>1
  <2> QED BY Zenon, <1>0, <2>1, <2>2
<1>6. \A x \in nodes, y \in new.nodes : x[1] # y[1] /\ x[2] # y[2]
  <2> SUFFICES ASSUME NEW x \in nodes, NEW y \in new.nodes PROVE x[1] # y[1] /\ x[2] # y[2]
    OBVIOUS
  <2>1. x[1] \in NodeNames(nodes) /\ x[2] \in 1..n
    BY DEF NodesFit, NodeNames
  <2>2. y[1] \in names /\ y[2] \in (n+1)..(n+k)
    BY Zenon, <1>0
  <2> QED BY <1>1, <2>1, <2>2
<1>7. \A x, y \in nodes \cup new.nodes : (x[1] = y[1] => x = y) /\ (x[2] = y[2] => x = y)
  BY ZenonT(30), <1>0, <1>3, <1>6 DEF NodesFit
<1>8. NodesFit(nodes \cup new.nodes, g, all)
  BY Zenon, <1>3, <1>5, <1>7 DEF NodesFit
<1>9. NodeNames(nodes \cup new.nodes) = NodeNames(nodes) \cup names
  BY <1>0 DEF NodeNames
<1>10. \A x \in new.nodes : x[1] \in names /\ x[2] > n /\ x[2] \in Nat
  BY <1>1, <1>0
<1> QED BY ZenonT(30), <1>0, <1>8, <1>9, <1>10 DEF new, all, k

-----------------------------------------------------------------------------
(* The inductive invariant: types, references, the chain of recipes, nodes *)
(* and their jobs.                                                         *)

\* All job types and all names of the definitions.
JobTypes == UNION {UNION {{c.revs[rev].nodes[n].type : n \in Names(c.revs[rev])} : rev \in 1..2} : c \in Scenarios}
\* Every name of a node in a definition.
AllNames == UNION {UNION {Names(c.revs[rev]) : rev \in 1..2} : c \in Scenarios}

\* The rows of the recipe table, with those of their nodes.
RecipeRows == [rev : 1..2, event : Nat, superseded_recipe : Nat, is_superseded : BOOLEAN,
               is_completed : BOOLEAN, nodes : SUBSET (AllNames \X Nat)]

\* The nodes of a recipe, and its definition.
NodesOf(r) == recipes[r].nodes
\* The definition of the revision of recipe r.
GraphOf(r) == Graph(recipes[r].rev)

\* Messages about a recipe, and about a job.
RecipeMessages == {"update_recipes", "process_recipe_input"}
\* The messages about one job.
JobMessages == {"process_job_input", "blocked_jobs", "pending_jobs", "cancel_jobs", "from_jobs"}

\* The types of the tables.
TablesOK ==
  /\ scenario \in Scenarios
  /\ jobs \in Seq(GoodRows)
  /\ job_types \in Seq(JobTypes) /\ Len(job_types) = Len(jobs)
  /\ recipes \in Seq(RecipeRows) /\ Len(recipes) > 0

\* Messages and unfinished requests refer to what exists.
MessageOK(m) ==
  /\ m.type \in MessageTypes /\ m.when \in 0..MaxClock
  /\ m.type \in RecipeMessages => m.id \in RecipeIds
  /\ m.type \in JobMessages => m.id \in JobIds
  /\ m.type = "reprocess_recipes" => m.id \in scenario.events
\* Every message on its way is about a row that exists.
MessagesOK == \A m \in msgs : MessageOK(m)

\* What is in progress refers to recipes and jobs that exist.
StartedOK == \A s \in started : s.recipe \in 0..Len(recipes) /\ (s.type = "request" => s.recipe # 0)
\* The same for the ends that wait to be committed.
EndingOK == \A e \in ending : e.job \in JobIds /\ e.recipes \subseteq RecipeIds /\ e.status \in {"COMPLETED", "FAILED"}
\* The scenario bounds the requests, repeats and requeues that are left.
LeftOK == /\ left \in [{"requests", "repeats", "requeues"} -> Nat]
          /\ \A e \in DOMAIN left : left[e] <= scenario.bounds[e]
\* What holds of the variables that are not tables or messages.
OthersOK == StartedOK /\ EndingOK /\ overtaken \subseteq JobIds /\ LeftOK /\ clock \in 0..MaxClock

\* Each recipe supersedes the one before it, and the last is the latest.
ChainOK ==
  \A r \in RecipeIds : /\ recipes[r].superseded_recipe = r - 1
                       /\ recipes[r].is_superseded <=> r # Len(recipes)
                       /\ recipes[r].event # 0 => r > 1

\* The nodes of every recipe fit its definition and have jobs of the right type.
NodesOK == \A r \in RecipeIds : NodesFit(NodesOf(r), GraphOf(r), job_types)

\* The invariant.
Base == TablesOK /\ MessagesOK /\ OthersOK /\ ChainOK /\ NodesOK

\* The ids of the rows are the positions in the tables.
LEMMA Ids ==
  ASSUME TablesOK
  PROVE  /\ RecipeIds = 1..Len(recipes) /\ Len(recipes) \in Nat \ {0}
         /\ JobIds = 1..Len(jobs) /\ Len(jobs) \in Nat
         /\ \A r \in RecipeIds : recipes[r] \in RecipeRows
         /\ \A j \in JobIds : jobs[j] \in GoodRows
BY DEF TablesOK, RecipeIds, JobIds

\* The last recipe is the only one that is not superseded.
LEMMA LastIsLatest ==
  ASSUME TablesOK, ChainOK
  PROVE  Latest = {Len(recipes)}
BY Ids DEF ChainOK, Latest

\* Base implies three of the properties.
LEMMA BaseImplies ==
  Base => TypeOK /\ LatestIsUnique /\ NodesHaveTheirJobs
<1> SUFFICES ASSUME Base PROVE TypeOK /\ LatestIsUnique /\ NodesHaveTheirJobs
  OBVIOUS
<1>1. NodesHaveTheirJobs
  BY ZenonT(30) DEF Base, NodesOK, NodesFit, NodesHaveTheirJobs, NodesOf, GraphOf
<1>2. TypeOK
  <2>1. \A j \in JobIds : jobs[j] \in JobRows
    BY DEF Base, TablesOK, JobIds, GoodRows
  <2>2. ASSUME NEW r \in RecipeIds
        PROVE  /\ recipes[r].rev \in 1..2 /\ recipes[r].superseded_recipe \in 0..(r-1)
               /\ JobsOf(recipes[r].nodes) \subseteq JobIds
               /\ NodeNames(recipes[r].nodes) \subseteq Names(Graph(recipes[r].rev))
    <3>1. recipes[r].rev \in 1..2
      BY Ids DEF Base, RecipeRows
    <3>2. recipes[r].superseded_recipe \in 0..(r-1)
      BY Ids DEF Base, ChainOK
    <3>3. \A x \in recipes[r].nodes : x[1] \in Names(Graph(recipes[r].rev)) /\ x[2] \in JobIds
      <4>1. JobIds = 1..Len(job_types)
        BY Ids DEF Base, TablesOK
      <4> QED BY <4>1 DEF Base, NodesOK, NodesFit, NodesOf, GraphOf
    <3> QED BY <3>1, <3>2, <3>3 DEF JobsOf, NodeNames
  <2>3. \A s \in started : s.recipe \in RecipeIds \cup {0}
    BY DEF Base, TablesOK, OthersOK, StartedOK, RecipeIds
  <2>4. \A e \in DOMAIN left : left[e] \in 0..scenario.bounds[e]
    <3>1. scenario.bounds \in [{"requests", "repeats", "requeues"} -> Nat]
      BY ScenariosAssumption DEF Base, TablesOK
    <3>2. LeftOK
      BY DEF Base, OthersOK
    <3>3. /\ left \in [{"requests", "repeats", "requeues"} -> Nat]
          /\ \A e \in DOMAIN left : left[e] <= scenario.bounds[e]
      BY <3>2 DEF LeftOK
    <3> QED BY <3>1, <3>3
  <2>5. \A m \in msgs : m.type \in MessageTypes /\ m.when \in 0..MaxClock
    BY DEF Base, MessagesOK, MessageOK
  <2>6. \A e \in ending : e.job \in JobIds /\ e.recipes \subseteq RecipeIds
    BY DEF Base, OthersOK, EndingOK
  <2>7. overtaken \subseteq JobIds /\ clock \in 0..MaxClock
    BY DEF Base, OthersOK
  <2> QED BY ZenonT(30), <2>1, <2>2, <2>3, <2>4, <2>5, <2>6, <2>7 DEF Base, TablesOK, TypeOK
<1>3. LatestIsUnique
  <2>1. RecipeIds = 1..Len(recipes) /\ Len(recipes) \in Nat \ {0} /\ ChainOK
    BY Ids DEF Base
  <2>2. Cardinality(Latest) = 1
    BY ZenonT(30), LastIsLatest, FS_Singleton DEF Base
  <2>3. ASSUME NEW r \in RecipeIds
        PROVE  recipes[r].is_superseded <=> \E s \in RecipeIds : recipes[s].superseded_recipe = r
    <3>1. recipes[r].is_superseded <=> r # Len(recipes)
      BY <2>1 DEF ChainOK
    <3>2. CASE r = Len(recipes)
      BY <2>1, <3>1, <3>2 DEF ChainOK
    <3>3. CASE r # Len(recipes)
      <4>1. r + 1 \in RecipeIds /\ (r + 1) - 1 = r
        BY <2>1, <3>3
      <4>2. recipes[r + 1].superseded_recipe = r
        BY <2>1, <4>1 DEF ChainOK
      <4> QED BY <3>1, <3>3, <4>1, <4>2
    <3> QED BY <3>2, <3>3
  <2>4. \A r, s \in RecipeIds : recipes[r].superseded_recipe = recipes[s].superseded_recipe => r = s
    BY <2>1 DEF ChainOK
  <2> QED BY <2>2, <2>3, <2>4 DEF LatestIsUnique
<1> QED BY <1>1, <1>2, <1>3

-----------------------------------------------------------------------------
(* Base is an invariant of Recipes. Most actions are quiet: they change    *)
(* rows of the job table and messages, and leave the recipes alone. Three  *)
(* change recipes: UpdateRecipes creates the jobs a recipe lacks and finds *)
(* it completed, ReprocessRecipes and queue_new_recipe create the recipe   *)
(* that supersedes the last one.                                           *)

USE SMTT(30)

\* The definitions of the scenario are as the assumption says.
LEMMA GraphFacts ==
  ASSUME scenario \in Scenarios, NEW rev \in 1..2
  PROVE  /\ IsFiniteSet(Names(Graph(rev)))
         /\ \A n \in Names(Graph(rev)) : /\ Parents(Graph(rev), n) \subseteq Names(Graph(rev))
                                         /\ Graph(rev).nodes[n].type \in JobTypes /\ n \in AllNames
<1>1. /\ IsFiniteSet(Names(Graph(rev)))
      /\ \A n \in Names(Graph(rev)) : Parents(Graph(rev), n) \subseteq Names(Graph(rev))
  BY Zenon, ScenariosAssumption DEF Graph
<1>2. ASSUME NEW n \in Names(Graph(rev)) PROVE Graph(rev).nodes[n].type \in JobTypes /\ n \in AllNames
  <2> DEFINE Types(c, v) == {c.revs[v].nodes[o].type : o \in Names(c.revs[v])}
  <2>1. Graph(rev).nodes[n].type \in Types(scenario, rev)
    BY Zenon DEF Graph
  <2>2. Types(scenario, rev) \in {Types(scenario, v) : v \in 1..2}
    OBVIOUS
  <2>3. UNION {Types(scenario, v) : v \in 1..2} \in {UNION {Types(c, v) : v \in 1..2} : c \in Scenarios}
    OBVIOUS
  <2>4. JobTypes = UNION {UNION {Types(c, v) : v \in 1..2} : c \in Scenarios}
    BY DEF JobTypes
  <2> HIDE DEF Types
  <2>5. Graph(rev).nodes[n].type \in JobTypes
    BY Zenon, <2>1, <2>2, <2>3, <2>4
  <2>6. UNION {Names(scenario.revs[v]) : v \in 1..2} \in {UNION {Names(c.revs[v]) : v \in 1..2} : c \in Scenarios}
    OBVIOUS
  <2>7. n \in AllNames
    BY Zenon, <2>6 DEF AllNames, Graph
  <2> QED BY <2>5, <2>7
<1> QED BY Zenon, <1>1, <1>2

\* The row of a job that an update of its recipe leaves alone or gives its input.
InputStep(x, y) ==
  /\ y \in GoodRows /\ Kept(x, y)
  /\ y.status = x.status /\ y.is_superseded = x.is_superseded /\ y.num_exes = x.num_exes

\* UpdateRecipes: the recipe gets a new job for each node that has none, jobs that are
\* ready are queued, and it is completed if all its jobs are.
LEMMA UpdateFacts ==
  ASSUME Base, now \in 0..MaxClock, NEW m \in msgs, NEW ack \in BOOLEAN, m.type = "update_recipes",
         UpdateRecipes(m, ack)
  PROVE  LET r == m.id
             g == GraphOf(r)
             nodes == recipes'[r].nodes
         IN  /\ r \in RecipeIds
             /\ recipes' \in Seq(RecipeRows) /\ Len(recipes') = Len(recipes)
             /\ \A s \in RecipeIds : s # r => recipes'[s] = recipes[s]
             /\ recipes'[r].rev = recipes[r].rev /\ recipes'[r].event = recipes[r].event
             /\ recipes'[r].superseded_recipe = recipes[r].superseded_recipe
             /\ recipes'[r].is_superseded = recipes[r].is_superseded
             /\ recipes'[r].is_completed <=> recipes[r].is_completed \/ is_completed(nodes, jobs')
             /\ NodesOf(r) \subseteq nodes /\ NodeNames(nodes) = Names(g)
             /\ \A x \in nodes \ NodesOf(r) : x[1] \notin NodeNames(NodesOf(r)) /\ x[2] \notin JobIds
             /\ jobs' \in Seq(GoodRows) /\ Len(jobs') >= Len(jobs)
             /\ job_types' \in Seq(JobTypes) /\ Len(job_types') = Len(jobs')
             /\ \A s \in RecipeIds : NodesFit(NodesOf(s), GraphOf(s), job_types')
             /\ NodesFit(nodes, g, job_types')
             /\ \A j \in JobIds : InputStep(jobs[j], jobs'[j])
             /\ \A j \in JobIds \ JobsOf(nodes) : jobs'[j] = jobs[j]
             /\ \A j \in JobIds' \ JobIds : jobs'[j].status = "PENDING" /\ ~jobs'[j].is_superseded
             /\ \A x \in nodes : jobs'[x[2]].has_input <=> \/ x[2] \in JobIds /\ jobs[x[2]].has_input
                                                           \/ ParentsCompleted(g, nodes, jobs', x[1])
             /\ \E new : /\ Executed(m, new, ack)
                         /\ \A o \in new : /\ o.type \in {"blocked_jobs", "pending_jobs", "process_job_input"}
                                           /\ o.id \in JobsOf(nodes) /\ o.when \in 0..MaxClock
                         /\ \A j \in JobsOf(nodes) :
                              can_be_queued(jobs'[j]) => Msg("process_job_input", j, 0) \in new
             /\ clock' \in {clock, now}
<1> DEFINE r == m.id
           g == GraphOf(r)
           names == get_jobs_to_create(g, NodesOf(r))
           new == NewJobs(g, names, Len(job_types))
           nodes == NodesOf(r) \cup new.nodes
           rows == jobs \o new.rows
           ready == get_jobs_ready_for_input(g, nodes, rows)
           given == Apply(rows, ready, process_job_input)
           blocked == get_blocked_jobs(g, nodes, rows)
           pending == get_pending_jobs(g, nodes, rows)
           sent == Msgs("blocked_jobs", blocked, now) \cup Msgs("pending_jobs", pending, now)
                     \cup Msgs("process_job_input", get_jobs_ready_for_first_queue(g, nodes, given), 0)
<1>1. /\ r \in RecipeIds /\ recipes[r] \in RecipeRows /\ recipes[r].rev \in 1..2 /\ scenario \in Scenarios
      /\ recipes \in Seq(RecipeRows) /\ jobs \in Seq(GoodRows) /\ job_types \in Seq(JobTypes)
      /\ Len(job_types) = Len(jobs) /\ JobIds = 1..Len(jobs) /\ Len(jobs) \in Nat
      /\ NodesFit(NodesOf(r), g, job_types)
      /\ RecipeIds = 1..Len(recipes)
  <2>1. r \in RecipeIds
    BY DEF Base, MessagesOK, MessageOK, RecipeMessages
  <2> QED BY Zenon, <2>1, Ids DEF Base, TablesOK, NodesOK, RecipeRows
<1>2. /\ jobs' = given
      /\ job_types' = job_types \o new.types
      /\ recipes' = [recipes EXCEPT ![r].nodes = nodes,
                                    ![r].is_completed = @ \/ is_completed(nodes, rows)]
      /\ Executed(m, sent, ack)
      /\ clock' \in {clock, now}
  BY Zenon, <1>1 DEF UpdateRecipes, NodesOf, GraphOf
<1>3. names \subseteq Names(g) /\ IsFiniteSet(names) /\ names \cap NodeNames(NodesOf(r)) = {}
      /\ \A n \in names : g.nodes[n].type \in JobTypes
  <2>1. IsFiniteSet(Names(g)) /\ \A n \in Names(g) : g.nodes[n].type \in JobTypes
    BY Zenon, <1>1, GraphFacts DEF GraphOf
  <2>2. names = Names(g) \ NodeNames(NodesOf(r))
    BY DEF get_jobs_to_create
  <2> QED BY Zenon, <2>1, <2>2, FS_Subset
<1>4. /\ NodesFit(nodes, g, job_types')
      /\ NodeNames(nodes) = NodeNames(NodesOf(r)) \cup names
      /\ new.rows \in Seq(GoodRows) /\ new.types \in Seq(JobTypes) /\ Len(new.rows) = Len(new.types)
      /\ \A i \in 1..Len(new.rows) : new.rows[i] = create_job(TRUE, FALSE)
      /\ \A x \in new.nodes : x[1] \in names /\ x[2] > Len(job_types) /\ x[2] \in Nat
  <2>1. job_types \in Seq(JobTypes) /\ NodesFit(NodesOf(r), g, job_types) /\ job_types' = job_types \o new.types
    BY Zenon, <1>1, <1>2
  <2> HIDE DEF names, g
  <2>2. LET fresh == NewJobs(g, names, Len(job_types))
        IN  /\ NodesFit(NodesOf(r) \cup fresh.nodes, g, job_types \o fresh.types)
            /\ NodeNames(NodesOf(r) \cup fresh.nodes) = NodeNames(NodesOf(r)) \cup names
            /\ fresh.rows \in Seq(GoodRows) /\ fresh.types \in Seq(JobTypes) /\ Len(fresh.rows) = Len(fresh.types)
            /\ \A i \in 1..Len(fresh.rows) : fresh.rows[i] = create_job(TRUE, FALSE)
            /\ \A x \in fresh.nodes : x[1] \in names /\ x[2] > Len(job_types) /\ x[2] \in Nat
    BY Zenon, <1>3, <2>1, NodesGrow
  <2> QED BY Zenon, <2>1, <2>2
<1>5. /\ rows \in Seq(GoodRows) /\ Len(rows) = Len(jobs) + Len(new.rows) /\ Len(new.rows) \in Nat
      /\ \A j \in 1..Len(jobs) : rows[j] = jobs[j]
      /\ \A j \in (Len(jobs)+1)..Len(rows) : rows[j] = create_job(TRUE, FALSE)
  <2> DEFINE u == new.rows
  <2>1. u \in Seq(GoodRows) /\ \A i \in 1..Len(u) : u[i] = create_job(TRUE, FALSE)
    BY Zenon, <1>4
  <2> HIDE DEF u
  <2>2. /\ jobs \o u \in Seq(GoodRows) /\ Len(jobs \o u) = Len(jobs) + Len(u) /\ Len(u) \in Nat
        /\ \A j \in 1..Len(jobs) : (jobs \o u)[j] = jobs[j]
        /\ \A j \in (Len(jobs)+1)..(Len(jobs) + Len(u)) : (jobs \o u)[j] = u[j - Len(jobs)] /\ j - Len(jobs) \in 1..Len(u)
    BY Zenon, <1>1, <2>1, ConcatFacts
  <2> QED BY Zenon, <2>1, <2>2 DEF u
<1>6. /\ job_types' \in Seq(JobTypes) /\ Len(job_types') = Len(rows)
      /\ \A s \in RecipeIds : NodesFit(NodesOf(s), GraphOf(s), job_types')
  <2> DEFINE u == new.types
  <2>1. u \in Seq(JobTypes) /\ Len(u) = Len(new.rows) /\ job_types' = job_types \o u
    BY Zenon, <1>2, <1>4
  <2> HIDE DEF u
  <2>2. job_types \o u \in Seq(JobTypes) /\ Len(job_types \o u) = Len(job_types) + Len(u)
    BY Zenon, <1>1, <2>1, ConcatFacts
  <2>3. \A s \in RecipeIds : NodesFit(NodesOf(s), GraphOf(s), job_types \o u)
    BY Zenon, <1>1, <2>1, NodesFitLater DEF Base, NodesOK
  <2> QED BY Zenon, <1>1, <1>5, <2>1, <2>2, <2>3
<1> HIDE DEF new, rows, names, g
<1>7. jobs' = [j \in DOMAIN rows |-> IF j \in ready THEN process_job_input(rows[j]) ELSE rows[j]]
  BY Zenon, <1>2 DEF Apply
<1>8. IsNodes(nodes) /\ JobsOf(nodes) \subseteq DOMAIN rows /\ NodeNames(nodes) = Names(g)
  <2>1. IsNodes(nodes) /\ JobsOf(nodes) \subseteq 1..Len(job_types') /\ NodeNames(nodes) \subseteq Names(g)
    BY Zenon, <1>4, FittingNodes
  <2>2. Names(g) \subseteq NodeNames(NodesOf(r)) \cup names
    BY DEF names, get_jobs_to_create
  <2> QED BY Zenon, <1>4, <1>5, <1>6, <2>1, <2>2
<1>9. ready = {JobAt(nodes, n) : n \in {o \in Names(g) : /\ ~rows[JobAt(nodes, o)].has_input
                                                         /\ ParentsCompleted(g, nodes, rows, o)}}
  BY DEF get_jobs_ready_for_input
<1> HIDE DEF nodes, ready, given, blocked, pending
<1>10. ready \subseteq JobsOf(nodes)
  BY Zenon, <1>8, <1>9, JobAtFacts
<1>11. ASSUME NEW j \in DOMAIN rows
       PROVE  InputStep(rows[j], jobs'[j]) /\ (j \in ready => jobs'[j].has_input)
              /\ (j \notin ready => jobs'[j] = rows[j])
  <2>1. rows[j] \in GoodRows
    BY <1>5
  <2>2. CASE j \in ready
    <3>1. jobs'[j] = process_job_input(rows[j])
      BY Zenon, <1>7, <2>2
    <3>2. jobs'[j] \in GoodRows /\ jobs'[j] = [rows[j] EXCEPT !.has_input = TRUE]
      BY Zenon, <2>1, <3>1, InputRow
    <3> QED BY Zenon, <2>1, <2>2, <3>2 DEF InputStep, Kept, GoodRows, JobRows
  <2>3. CASE j \notin ready
    BY Zenon, <1>7, <2>1, <2>3 DEF InputStep, Kept
  <2> QED BY Zenon, <2>2, <2>3
<1>12. /\ DOMAIN rows = 1..Len(rows) /\ DOMAIN jobs' = DOMAIN rows /\ Len(rows) \in Nat /\ Len(rows) >= Len(jobs)
       /\ \A j \in JobIds : j \in DOMAIN rows /\ rows[j] = jobs[j]
       /\ \A j \in DOMAIN rows \ JobIds : rows[j] = create_job(TRUE, FALSE)
  <2>1. DOMAIN rows = 1..Len(rows) /\ DOMAIN jobs' = DOMAIN rows
    BY <1>5, <1>7
  <2>2. JobIds = 1..Len(jobs) /\ Len(jobs) \in Nat
    BY <1>1
  <2>3. /\ Len(rows) = Len(jobs) + Len(new.rows) /\ Len(new.rows) \in Nat
        /\ \A j \in 1..Len(jobs) : rows[j] = jobs[j]
        /\ \A j \in (Len(jobs)+1)..Len(rows) : rows[j] = create_job(TRUE, FALSE)
    BY Zenon, <1>5
  <2>4. Len(rows) \in Nat /\ Len(rows) >= Len(jobs)
    BY <2>2, <2>3
  <2>5. \A j \in DOMAIN rows \ JobIds : j \in (Len(jobs)+1)..Len(rows)
    BY <2>1, <2>2, <2>4
  <2>6. \A j \in JobIds : j \in DOMAIN rows
    BY <2>1, <2>2, <2>4
  <2> QED BY Zenon, <2>1, <2>2, <2>3, <2>4, <2>5, <2>6
<1>13. jobs' \in Seq(GoodRows) /\ Len(jobs') = Len(rows)
  <2>1. jobs' \in [1..Len(rows) -> GoodRows]
    BY Zenon, <1>7, <1>11, <1>12 DEF InputStep
  <2> QED BY Zenon, <1>12, <2>1, FunctionsAreSequences
<1>14. \A j \in JobIds : InputStep(jobs[j], jobs'[j]) /\ (j \notin JobsOf(nodes) => jobs'[j] = jobs[j])
  BY Zenon, <1>10, <1>11, <1>12
<1>15. JobIds' = DOMAIN rows
  BY <1>12 DEF JobIds
<1>16. ASSUME NEW j \in DOMAIN rows \ JobIds
       PROVE  /\ jobs'[j].status = "PENDING" /\ ~jobs'[j].is_superseded /\ ~rows[j].has_input
  <2>1. rows[j] = create_job(TRUE, FALSE)
    BY Zenon, <1>12
  <2>2. rows[j].status = "PENDING" /\ ~rows[j].is_superseded /\ ~rows[j].has_input
    BY Zenon, <2>1, NewRowFacts
  <2> QED BY Zenon, <1>11, <2>2 DEF InputStep
<1>17. /\ recipes' \in Seq(RecipeRows) /\ Len(recipes') = Len(recipes)
       /\ \A s \in RecipeIds : s # r => recipes'[s] = recipes[s]
       /\ recipes'[r].rev = recipes[r].rev /\ recipes'[r].event = recipes[r].event
       /\ recipes'[r].superseded_recipe = recipes[r].superseded_recipe
       /\ recipes'[r].is_superseded = recipes[r].is_superseded
       /\ recipes'[r].is_completed = (recipes[r].is_completed \/ is_completed(nodes, rows))
       /\ recipes'[r].nodes = nodes
  <2> DEFINE c == is_completed(nodes, rows)
             y == [recipes[r] EXCEPT !.nodes = nodes, !.is_completed = @ \/ c]
  <2>1. c \in BOOLEAN
    BY DEF is_completed
  <2>2. nodes \in SUBSET (AllNames \X Nat)
    <3>1. Names(g) \subseteq AllNames
      BY Zenon, <1>1, GraphFacts DEF g, GraphOf
    <3> QED BY <1>4, <3>1 DEF NodesFit
  <2> HIDE DEF c
  <2>3. recipes' = [recipes EXCEPT ![r] = y]
    BY Zenon, <1>1, <1>2 DEF c
  <2>4. /\ y \in RecipeRows
        /\ y.rev = recipes[r].rev /\ y.event = recipes[r].event
        /\ y.superseded_recipe = recipes[r].superseded_recipe
        /\ y.is_superseded = recipes[r].is_superseded
        /\ y.is_completed = (recipes[r].is_completed \/ c)
        /\ y.nodes = nodes
    BY Zenon, <1>1, <2>1, <2>2 DEF RecipeRows
  <2> HIDE DEF y
  <2>5. recipes' \in Seq(RecipeRows) /\ Len(recipes') = Len(recipes)
    BY <1>1, <2>3, <2>4
  <2>6. recipes'[r] = y /\ \A s \in RecipeIds : s # r => recipes'[s] = recipes[s]
    BY <1>1, <2>3
  <2> QED BY Zenon, <2>4, <2>5, <2>6 DEF c
<1>18. is_completed(nodes, rows) <=> is_completed(nodes, jobs')
  BY Zenon, <1>8, <1>11 DEF is_completed, InputStep
<1>19. \A n : n \in Names(g) => (ParentsCompleted(g, nodes, rows, n) <=> ParentsCompleted(g, nodes, jobs', n))
  <2>1. \A n \in Names(g) : Parents(g, n) \subseteq Names(g)
    BY Zenon, <1>1, GraphFacts DEF g, GraphOf
  <2>2. \A n \in Names(g) : JobAt(nodes, n) \in DOMAIN rows
    BY Zenon, <1>8, JobAtFacts
  <2> QED BY Zenon, <1>11, <2>1, <2>2 DEF ParentsCompleted, InputStep
<1>20. ASSUME NEW x \in nodes
       PROVE  jobs'[x[2]].has_input <=> \/ x[2] \in JobIds /\ jobs[x[2]].has_input
                                        \/ ParentsCompleted(g, nodes, jobs', x[1])
  <2>1. x[1] \in Names(g) /\ x[2] \in DOMAIN rows /\ JobAt(nodes, x[1]) = x[2]
    BY Zenon, <1>8, JobAtFacts
  <2>2. \A n \in Names(g) : JobAt(nodes, n) = x[2] => n = x[1]
    <3>1. \A n \in Names(g) : <<n, JobAt(nodes, n)>> \in nodes
      BY Zenon, <1>8, JobAtFacts
    <3> QED BY Zenon, <1>8, <3>1 DEF IsNodes
  <2>3. x[2] \in ready <=> ~rows[x[2]].has_input /\ ParentsCompleted(g, nodes, jobs', x[1])
    BY Zenon, <1>9, <1>19, <2>1, <2>2
  <2>4. rows[x[2]].has_input <=> x[2] \in JobIds /\ jobs[x[2]].has_input
    BY Zenon, <1>12, <1>16, <2>1
  <2>5. rows[x[2]].has_input => jobs'[x[2]].has_input
    BY Zenon, <1>11, <2>1 DEF InputStep, Kept
  <2> QED BY Zenon, <1>11, <2>1, <2>3, <2>4, <2>5
<1>21. ASSUME NEW x \in nodes \ NodesOf(r) PROVE x[1] \notin NodeNames(NodesOf(r)) /\ x[2] \notin JobIds
  <2>1. x[1] \in names /\ x[2] > Len(job_types)
    BY Zenon, <1>4 DEF nodes
  <2> QED BY <1>1, <1>3, <2>1
<1>22. \A o \in sent : /\ o.type \in {"blocked_jobs", "pending_jobs", "process_job_input"}
                       /\ o.id \in JobsOf(nodes) /\ o.when \in 0..MaxClock
  <2>1. \A n \in Names(g) : JobAt(nodes, n) \in JobsOf(nodes)
    BY Zenon, <1>8, JobAtFacts
  <2>2. Blocked(g, nodes, rows) \subseteq Names(g)
    BY ClosedUnderFollowing DEF Blocked, Waiting
  <2>3. blocked \subseteq JobsOf(nodes) /\ pending \subseteq JobsOf(nodes)
    BY Zenon, <2>1, <2>2 DEF blocked, pending, get_blocked_jobs, get_pending_jobs
  <2>4. get_jobs_ready_for_first_queue(g, nodes, given) \subseteq JobsOf(nodes)
    BY Zenon, <2>1 DEF get_jobs_ready_for_first_queue
  <2>5. 0 \in 0..MaxClock
    BY RecipeBoundsAssumption
  <2> QED BY <2>3, <2>4, <2>5 DEF Msgs, Msg
<1>23. ASSUME NEW j \in JobsOf(nodes), can_be_queued(jobs'[j]) PROVE Msg("process_job_input", j, 0) \in sent
  <2>1. PICK x \in nodes : x[2] = j
    BY DEF JobsOf
  <2>2. x[1] \in Names(g) /\ JobAt(nodes, x[1]) = j
    BY Zenon, <1>8, <2>1, JobAtFacts
  <2>3. j \in get_jobs_ready_for_first_queue(g, nodes, given)
    BY Zenon, <1>2, <1>23, <2>2 DEF get_jobs_ready_for_first_queue
  <2> QED BY Zenon, <2>3 DEF Msgs
<1>24. \E sending : /\ Executed(m, sending, ack)
                    /\ \A o \in sending : /\ o.type \in {"blocked_jobs", "pending_jobs", "process_job_input"}
                                          /\ o.id \in JobsOf(nodes) /\ o.when \in 0..MaxClock
                    /\ \A j \in JobsOf(nodes) :
                         can_be_queued(jobs'[j]) => Msg("process_job_input", j, 0) \in sending
  <2> HIDE DEF sent
  <2> QED BY Zenon, <1>2, <1>22, <1>23
<1> HIDE DEF sent
<1>25. NodesOf(r) \subseteq nodes
  BY Zenon DEF nodes
<1>26. recipes'[r].nodes = nodes
  BY Zenon, <1>17
<1>27. recipes'[r].is_completed <=> recipes[r].is_completed \/ is_completed(nodes, jobs')
  BY Zenon, <1>17, <1>18
<1>28. jobs' \in Seq(GoodRows) /\ Len(jobs') >= Len(jobs) /\ Len(job_types') = Len(jobs')
  BY Zenon, <1>6, <1>12, <1>13
<1>29. \A j \in JobIds' \ JobIds : jobs'[j].status = "PENDING" /\ ~jobs'[j].is_superseded
  BY Zenon, <1>15, <1>16
<1>30. \A j \in JobIds \ JobsOf(nodes) : jobs'[j] = jobs[j]
  BY <1>14
<1>31. NodeNames(nodes) = Names(g)
  BY Zenon, <1>8
<1>32. \A j \in JobIds : InputStep(jobs[j], jobs'[j])
  BY Zenon, <1>14
<1>33. job_types' \in Seq(JobTypes) /\ \A s \in RecipeIds : NodesFit(NodesOf(s), GraphOf(s), job_types')
  BY Zenon, <1>6
<1>34. NodesFit(nodes, g, job_types') /\ clock' \in {clock, now}
  BY Zenon, <1>2, <1>4
<1> QED
  BY ZenonT(30), <1>1, <1>17, <1>20, <1>21, <1>24, <1>25, <1>26, <1>27, <1>28, <1>29, <1>30, <1>31, <1>32, <1>33, <1>34
     DEF g, r

-----------------------------------------------------------------------------
(* Steps that leave the recipes alone.                                     *)

\* The clock stays below its bound.
LEMMA ClockFacts ==
  ASSUME clock \in 0..MaxClock
  PROVE  now \in 0..MaxClock /\ now \in Nat /\ 0 \in 0..MaxClock /\ now >= clock
BY RecipeBoundsAssumption DEF now

\* Events only become fewer.
LEMMA UsesFacts ==
  ASSUME scenario \in Scenarios, LeftOK, NEW event \in {"requests", "repeats", "requeues"}, Uses(event), scenario' = scenario
  PROVE  LeftOK'
<1>1. /\ left' \in [{"requests", "repeats", "requeues"} -> Nat]
      /\ \A e \in DOMAIN left : left'[e] = IF e = event THEN left[e] - 1 ELSE left[e]
  BY DEF LeftOK, Uses
<1>2. \A e \in DOMAIN left' : left'[e] <= left[e] /\ left[e] <= scenario.bounds[e] /\ left[e] \in Nat
  BY <1>1 DEF LeftOK
<1>3. \A e \in DOMAIN left' : left'[e] <= scenario'.bounds[e]
  <2> SUFFICES ASSUME NEW e \in {"requests", "repeats", "requeues"} PROVE left'[e] <= scenario.bounds[e]
    BY Zenon, <1>1
  <2>1. scenario.bounds[e] \in Nat
    BY Zenon, ScenariosAssumption
  <2>2. left'[e] <= left[e] /\ left[e] <= scenario.bounds[e] /\ left[e] \in Nat /\ left'[e] \in Nat
    BY Zenon, <1>1, <1>2
  <2> QED BY <2>1, <2>2
<1> QED BY Zenon, <1>1, <1>3 DEF LeftOK

\* Executing a message adds messages that are well formed.
LEMMA ExecutedFacts ==
  ASSUME scenario \in Scenarios, MessagesOK, LeftOK, NEW m \in msgs, NEW new, NEW ack \in BOOLEAN, Executed(m, new, ack),
         scenario' = scenario, RecipeIds \subseteq RecipeIds', JobIds \subseteq JobIds',
         \A o \in new : MessageOK(o)'
  PROVE  MessagesOK' /\ LeftOK'
<1>1. msgs' \subseteq msgs \cup new
  BY Zenon DEF Executed
<1>2. \A o \in msgs : MessageOK(o)'
  BY DEF MessagesOK, MessageOK
<1>3. LeftOK'
  <2>1. CASE ack
    BY Zenon, <2>1 DEF Executed, LeftOK
  <2>2. CASE ~ack
    BY Zenon, <2>2, UsesFacts DEF Executed
  <2> QED BY Zenon, <2>1, <2>2
<1> QED BY Zenon, <1>1, <1>2, <1>3 DEF MessagesOK

\* A step that changes rows of jobs in place.
RowsStep ==
  /\ jobs' \in Seq(GoodRows) /\ Len(jobs') = Len(jobs)
  /\ \A j \in JobIds : RowStep(jobs[j], jobs'[j])
\* A step that leaves the recipes alone.
Quiet == RowsStep /\ UNCHANGED <<scenario, recipes, job_types>>

\* One row changes, or none.
LEMMA RowChanges ==
  ASSUME TablesOK, NEW j \in JobIds, NEW row, RowStep(jobs[j], row), jobs' = [jobs EXCEPT ![j] = row]
  PROVE  RowsStep
<1>1. row \in GoodRows /\ \A i \in JobIds : RowStep(jobs[i], jobs[i])
  BY Zenon, Ids, SameRow DEF RowStep
<1> QED BY <1>1, Ids DEF RowsStep, TablesOK, JobIds

\* A step that leaves the job table alone is a step of its rows.
LEMMA RowsStay ==
  ASSUME TablesOK, jobs' = jobs
  PROVE  RowsStep
BY Zenon, Ids, SameRow DEF RowsStep, TablesOK

\* A quiet step keeps the tables.
LEMMA QuietKeepsTables ==
  ASSUME TablesOK, ChainOK, NodesOK, Quiet
  PROVE  TablesOK' /\ ChainOK' /\ NodesOK' /\ RecipeIds' = RecipeIds /\ JobIds' = JobIds
<1>1. JobIds' = JobIds /\ RecipeIds' = RecipeIds
  BY DEF Quiet, RowsStep, JobIds, RecipeIds, TablesOK
<1>2. TablesOK'
  BY DEF Quiet, RowsStep, TablesOK
<1>3. ChainOK'
  BY Zenon, <1>1 DEF Quiet, ChainOK
<1>4. NodesOK'
  BY Zenon, <1>1 DEF Quiet, NodesOK, NodesOf, GraphOf, Graph
<1> QED BY Zenon, <1>1, <1>2, <1>3, <1>4

\* A message is executed quietly, and so are the other actions below.
LEMMA QuietMessage ==
  ASSUME Base, NEW m \in msgs, NEW new, NEW ack \in BOOLEAN, Executed(m, new, ack), Quiet,
         \A o \in new : MessageOK(o), started' \subseteq started,
         UNCHANGED <<ending, overtaken>>, clock' \in 0..MaxClock
  PROVE  Base'
<1>1. TablesOK' /\ ChainOK' /\ NodesOK' /\ RecipeIds' = RecipeIds /\ JobIds' = JobIds
  BY Zenon, QuietKeepsTables DEF Base
<1>2. scenario' = scenario /\ recipes' = recipes
  BY Zenon DEF Quiet
<1>3. \A o \in new : MessageOK(o)'
  BY Zenon, <1>1, <1>2 DEF MessageOK
<1>4. MessagesOK' /\ LeftOK'
  BY Zenon, <1>1, <1>2, <1>3, ExecutedFacts DEF Base, OthersOK, TablesOK
<1>5. OthersOK'
  BY Zenon, <1>1, <1>2, <1>4 DEF Base, OthersOK, StartedOK, EndingOK
<1> QED BY Zenon, <1>1, <1>4, <1>5 DEF Base

\* Messages about recipes and jobs that exist are well formed.
LEMMA MsgFacts ==
  ASSUME NEW when \in 0..MaxClock, NEW t, NEW id
  PROVE  /\ t \in RecipeMessages /\ id \in RecipeIds => MessageOK(Msg(t, id, when))
         /\ t \in JobMessages /\ id \in JobIds => MessageOK(Msg(t, id, when))
BY DEF MessageOK, Msg, RecipeMessages, JobMessages, MessageTypes

\* The jobs of a recipe exist.
LEMMA RecipeJobs ==
  ASSUME TablesOK, NodesOK, NEW r \in RecipeIds
  PROVE  IsNodes(NodesOf(r)) /\ JobsOf(NodesOf(r)) \subseteq JobIds /\ NodeNames(NodesOf(r)) \subseteq Names(GraphOf(r))
<1>1. NodesFit(NodesOf(r), GraphOf(r), job_types) /\ JobIds = 1..Len(job_types)
  BY Zenon, Ids DEF NodesOK, TablesOK
<1> QED BY Zenon, <1>1, FittingNodes

\* Messages about one job.
LEMMA JobMessageSteps ==
  ASSUME Base, NEW m \in msgs, NEW ack \in BOOLEAN,
         \/ m.type = "process_job_input" /\ ProcessJobInput(m, ack)
         \/ m.type = "blocked_jobs" /\ BlockedJobs(m, ack)
         \/ m.type = "pending_jobs" /\ PendingJobs(m, ack)
         \/ m.type = "cancel_jobs" /\ CancelJobs(m, ack)
  PROVE  Quiet /\ Base'
<1> DEFINE j == m.id
<1>1. m.type \in JobMessages /\ j \in JobIds /\ m.when \in 0..MaxClock /\ m.when \in Nat
  BY RecipeBoundsAssumption DEF Base, MessagesOK, MessageOK, JobMessages
<1>2. TablesOK /\ jobs[j] \in GoodRows /\ clock \in 0..MaxClock
  BY Zenon, <1>1, Ids DEF Base, OthersOK
<1>3. 0 \in 0..MaxClock
  BY RecipeBoundsAssumption
<1>4. ASSUME NEW row, NEW new, RowStep(jobs[j], row), Changes(m, row, new, ack), \A o \in new : MessageOK(o)
      PROVE  Quiet /\ Base'
  <2>1. /\ jobs' = [jobs EXCEPT ![j] = row] /\ Executed(m, new, ack)
        /\ UNCHANGED <<scenario, recipes, job_types, started, ending, overtaken, clock>>
    BY Zenon, <1>4 DEF Changes
  <2>2. RowsStep
    BY Zenon, <1>1, <1>2, <1>4, <2>1, RowChanges
  <2>3. Quiet
    BY Zenon, <2>1, <2>2 DEF Quiet
  <2> QED BY Zenon, <1>2, <1>4, <2>1, <2>3, QuietMessage
<1>5. CASE m.type = "process_job_input" /\ ProcessJobInput(m, ack)
  <2> DEFINE row == IF can_be_queued(jobs[j]) THEN update_jobs_to_queued(jobs[j]) ELSE jobs[j]
  <2>1. RowStep(jobs[j], row)
    BY Zenon, <1>2, QueuedRow, SameRow
  <2>2. Changes(m, row, {}, ack)
    BY Zenon, <1>5 DEF ProcessJobInput
  <2> QED BY <1>4, <2>1, <2>2
<1>6. CASE m.type = "blocked_jobs" /\ BlockedJobs(m, ack)
  <2> DEFINE row == IF IsNewer(m) THEN update_jobs_to_blocked(jobs[j], m.when) ELSE jobs[j]
  <2>1. RowStep(jobs[j], row)
    BY Zenon, <1>1, <1>2, BlockedRow, SameRow
  <2>2. Changes(m, row, {}, ack)
    BY ZenonT(30), <1>6 DEF BlockedJobs
  <2> QED BY <1>4, <2>1, <2>2
<1>7. CASE m.type = "pending_jobs" /\ PendingJobs(m, ack)
  <2> DEFINE row == IF IsNewer(m) THEN update_jobs_to_pending(jobs[j], m.when) ELSE jobs[j]
  <2>1. RowStep(jobs[j], row)
    BY ZenonT(30), <1>1, <1>2, BlockedRow, SameRow
  <2>2. Changes(m, row, {}, ack)
    BY Zenon, <1>7 DEF PendingJobs
  <2> QED BY <1>4, <2>1, <2>2
<1>8. CASE m.type = "cancel_jobs" /\ CancelJobs(m, ack)
  <2>1. RowStep(jobs[j], update_jobs_to_canceled(jobs[j], m.when))
    BY Zenon, <1>1, <1>2, CanceledRow
  <2>2. Changes(m, update_jobs_to_canceled(jobs[j], m.when), {Msg("from_jobs", j, 0)}, ack)
    BY Zenon, <1>8 DEF CancelJobs
  <2>3. MessageOK(Msg("from_jobs", j, 0))
    BY Zenon, <1>1, <1>3, MsgFacts DEF JobMessages
  <2> QED BY <1>4, <2>1, <2>2, <2>3
<1> QED BY Zenon, <1>5, <1>6, <1>7, <1>8

\* Messages about one recipe that create nothing.
LEMMA RecipeMessageSteps ==
  ASSUME Base, NEW m \in msgs, NEW ack \in BOOLEAN,
         \/ m.type = "process_recipe_input" /\ ProcessRecipeInput(m, ack)
         \/ m.type = "from_jobs" /\ create_update_recipes_messages_from_jobs(m)
         \/ m.type = "reprocess_recipes" /\ get_locked_recipes_from_root_old(m)
  PROVE  Quiet /\ Base'
<1>1. TablesOK /\ 0 \in 0..MaxClock /\ clock \in 0..MaxClock /\ MessageOK(m)
  BY RecipeBoundsAssumption DEF Base, OthersOK, MessagesOK
<1>2. CASE m.type = "process_recipe_input" /\ ProcessRecipeInput(m, ack)
  <2>1. Quiet
    BY Zenon, <1>1, <1>2, RowsStay DEF ProcessRecipeInput, Quiet
  <2>2. MessageOK(Msg("update_recipes", m.id, 0))
    BY Zenon, <1>1, <1>2, MsgFacts DEF MessageOK, RecipeMessages
  <2> QED BY <1>1, <1>2, <2>1, <2>2, QuietMessage DEF ProcessRecipeInput
<1>3. CASE m.type = "from_jobs" /\ create_update_recipes_messages_from_jobs(m)
  <2> DEFINE new == Msgs("update_recipes", get_latest_recipe_ids_for_jobs(m.id), 0)
  <2>1. Quiet
    BY Zenon, <1>1, <1>3, RowsStay DEF create_update_recipes_messages_from_jobs, Quiet
  <2>2. \A o \in new : MessageOK(o)
    BY Zenon, <1>1, MsgFacts DEF Msgs, RecipeMessages, get_latest_recipe_ids_for_jobs, Latest
  <2>3. Executed(m, new, TRUE) /\ UNCHANGED <<started, ending, overtaken, clock>>
    BY Zenon, <1>3 DEF create_update_recipes_messages_from_jobs
  <2> QED BY ZenonT(30), <1>1, <2>1, <2>2, <2>3, QuietMessage
<1>4. CASE m.type = "reprocess_recipes" /\ get_locked_recipes_from_root_old(m)
  <2>1. Quiet
    BY Zenon, <1>1, <1>4, RowsStay DEF get_locked_recipes_from_root_old, Quiet
  <2>2. TablesOK' /\ ChainOK' /\ NodesOK' /\ RecipeIds' = RecipeIds /\ JobIds' = JobIds
    BY Zenon, <2>1, QuietKeepsTables DEF Base
  <2>3. PICK r \in Latest \cup {0} : started' = started \cup {[type |-> m.type, id |-> m.id, recipe |-> r]}
    BY Zenon, <1>4 DEF get_locked_recipes_from_root_old
  <2>4. r \in 0..Len(recipes)
    BY <1>1, Ids DEF Latest
  <2>5. StartedOK'
    BY <1>4, <2>1, <2>3, <2>4 DEF Base, OthersOK, StartedOK, Quiet
  <2> QED BY ZenonT(30), <1>4, <2>1, <2>2, <2>5
       DEF get_locked_recipes_from_root_old, Base, OthersOK, EndingOK, LeftOK, MessagesOK, MessageOK, Quiet
<1> QED BY Zenon, <1>2, <1>3, <1>4

\* ReprocessRecipes finds the recipe of this batch: the message was executed before.
LEMMA ReprocessAgainSteps ==
  ASSUME Base, NEW m \in msgs, NEW ack \in BOOLEAN, m.type = "reprocess_recipes", ReprocessAgain(m, ack),
         started' \subseteq started
  PROVE  Quiet /\ Base'
<1> DEFINE again == {r \in RecipeIds : recipes[r].event = m.id}
           Old(r) == recipes[recipes[r].superseded_recipe].nodes
<1>1. TablesOK /\ NodesOK /\ ChainOK /\ clock \in 0..MaxClock /\ MessageOK(m)
  BY DEF Base, OthersOK, MessagesOK
<1>2. now \in 0..MaxClock /\ 0 \in 0..MaxClock
  BY Zenon, <1>1, ClockFacts
<1>3. PICK f : /\ Executed(m, Msgs("process_recipe_input", again, 0)
                              \cup Msgs("cancel_jobs", UNION {SupersededJobs(f[r], Old(r)) : r \in again}, now), ack)
               /\ clock' = now
               /\ UNCHANGED <<scenario, recipes, jobs, job_types, ending, overtaken>>
  BY Zenon DEF ReprocessAgain
<1> DEFINE new == Msgs("process_recipe_input", again, 0)
                    \cup Msgs("cancel_jobs", UNION {SupersededJobs(f[r], Old(r)) : r \in again}, now)
<1>4. Quiet
  BY Zenon, <1>1, <1>3, RowsStay DEF Quiet
<1>5. ASSUME NEW r \in again PROVE SupersededJobs(f[r], Old(r)) \subseteq JobIds
  <2>1. m.id # 0
    BY Zenon, <1>1, ScenariosAssumption DEF MessageOK, TablesOK
  <2>2. recipes[r].superseded_recipe \in RecipeIds
    BY <1>1, <2>1, Ids DEF ChainOK
  <2>3. JobsOf(Old(r)) \subseteq JobIds
    BY Zenon, <1>1, <2>2, RecipeJobs DEF NodesOf
  <2> QED BY Zenon, <2>3 DEF SupersededJobs, JobsOf
<1>6. \A o \in new : MessageOK(o)
  <2>1. \A r \in again : MessageOK(Msg("process_recipe_input", r, 0))
    BY Zenon, <1>2, MsgFacts DEF RecipeMessages
  <2>2. \A j \in JobIds : MessageOK(Msg("cancel_jobs", j, now))
    BY Zenon, <1>2, MsgFacts DEF JobMessages
  <2>3. UNION {SupersededJobs(f[r], Old(r)) : r \in again} \subseteq JobIds
    BY Zenon, <1>5
  <2> QED BY Zenon, <2>1, <2>2, <2>3 DEF Msgs
<1>7. Executed(m, new, ack)
  BY Zenon, <1>3
<1> HIDE DEF new
<1> QED BY ZenonT(30), <1>2, <1>3, <1>4, <1>6, <1>7, QuietMessage

\* A quiet step that is not the execution of a message.
LEMMA QuietOthers ==
  ASSUME Base, Quiet, scenario' = scenario, \A m \in msgs' : m \in msgs \/ MessageOK(m),
         StartedOK', EndingOK', overtaken' \subseteq JobIds, LeftOK', clock' = clock
  PROVE  Base'
<1>1. TablesOK' /\ ChainOK' /\ NodesOK' /\ RecipeIds' = RecipeIds /\ JobIds' = JobIds
  BY Zenon, QuietKeepsTables DEF Base
<1>2. MessagesOK'
  BY Zenon, <1>1 DEF Base, MessagesOK, MessageOK
<1> QED BY Zenon, <1>1, <1>2 DEF Base, OthersOK

\* A user asks for a recipe to be reprocessed, and the request is given up.
LEMMA RequestSteps ==
  ASSUME Base,
         \/ \E r \in RecipeIds : reprocess_recipe(r)
         \/ /\ \E s \in started : started' = started \ {s}
            /\ UNCHANGED <<recipes, jobs, job_types, clock>>
            /\ UNCHANGED <<scenario, msgs, ending, overtaken, left>>
  PROVE  Quiet /\ Base'
<1>1. TablesOK /\ StartedOK /\ EndingOK /\ overtaken \subseteq JobIds /\ LeftOK /\ scenario \in Scenarios
  BY Zenon DEF Base, OthersOK, TablesOK
<1>2. ASSUME NEW r \in RecipeIds, reprocess_recipe(r) PROVE Quiet /\ Base'
  <2>1. Quiet
    BY Zenon, <1>1, <1>2, RowsStay DEF Quiet, reprocess_recipe
  <2>2. LeftOK'
    BY Zenon, <1>1, <1>2, UsesFacts DEF reprocess_recipe
  <2>3. StartedOK'
    <3>1. r \in 0..Len(recipes) /\ r # 0
      BY <1>1, Ids
    <3> QED BY <1>1, <1>2, <3>1 DEF reprocess_recipe, StartedOK
  <2>4. EndingOK' /\ overtaken' \subseteq JobIds
    BY Zenon, <1>1, <1>2 DEF reprocess_recipe, EndingOK, JobIds, RecipeIds
  <2> QED BY ZenonT(30), <1>2, <2>1, <2>2, <2>3, <2>4, QuietOthers DEF reprocess_recipe
<1>3. CASE /\ \E s \in started : started' = started \ {s}
           /\ UNCHANGED <<recipes, jobs, job_types, clock>>
           /\ UNCHANGED <<scenario, msgs, ending, overtaken, left>>
  <2>1. Quiet
    BY Zenon, <1>1, <1>3, RowsStay DEF Quiet
  <2>2. StartedOK' /\ EndingOK' /\ LeftOK' /\ overtaken' \subseteq JobIds
    BY Zenon, <1>1, <1>3 DEF StartedOK, EndingOK, LeftOK, JobIds, RecipeIds
  <2> QED BY Zenon, <1>3, <2>1, <2>2, QuietOthers
<1> QED BY Zenon, <1>2, <1>3

\* A job ends, its end is committed, and it is queued again.
LEMMA EndSteps ==
  ASSUME Base,
         \/ \E j \in JobIds, status \in EndStatuses : JobEnds(j, status)
         \/ \E e \in ending : JobEndCommits(e)
         \/ \E j \in JobIds : RequeueJobs(j)
  PROVE  Quiet /\ Base'
<1>1. TablesOK /\ StartedOK /\ EndingOK /\ overtaken \subseteq JobIds /\ LeftOK /\ scenario \in Scenarios
  BY Zenon DEF Base, OthersOK, TablesOK
<1>2. ASSUME NEW j \in JobIds, NEW status \in EndStatuses, JobEnds(j, status) PROVE Quiet /\ Base'
  <2>1. Quiet
    BY Zenon, <1>1, <1>2, RowsStay DEF Quiet, JobEnds
  <2>2. EndingOK'
    <3>1. status \in {"COMPLETED", "FAILED"} /\ get_latest_recipe_ids_for_jobs(j) \subseteq RecipeIds
      BY DEF EndStatuses, get_latest_recipe_ids_for_jobs, Latest
    <3> QED BY <1>1, <1>2, <3>1 DEF JobEnds, EndingOK, JobIds, RecipeIds
  <2>3. StartedOK' /\ LeftOK' /\ overtaken' \subseteq JobIds
    BY Zenon, <1>1, <1>2 DEF JobEnds, StartedOK, LeftOK
  <2> QED BY ZenonT(30), <1>2, <2>1, <2>2, <2>3, QuietOthers DEF JobEnds
<1>3. ASSUME NEW e \in ending, JobEndCommits(e) PROVE Quiet /\ Base'
  <2>1. e.job \in JobIds /\ e.recipes \subseteq RecipeIds /\ jobs[e.job] \in GoodRows
    BY Zenon, <1>1, Ids DEF EndingOK
  <2>2. Quiet
    BY ZenonT(30), <1>1, <1>3, <2>1, EndedRow, RowChanges DEF Quiet, JobEndCommits
  <2>3. JobIds' = JobIds /\ RecipeIds' = RecipeIds
    BY Zenon, <2>2, QuietKeepsTables DEF Base
  <2>4. \A m \in msgs' : m \in msgs \/ MessageOK(m)
    <3>1. 0 \in 0..MaxClock
      BY RecipeBoundsAssumption
    <3>2. msgs' \subseteq msgs \cup Msgs("update_recipes", e.recipes, 0) \cup {Msg("from_jobs", e.job, 0)}
      BY ZenonT(30), <1>3 DEF JobEndCommits
    <3>3. MessageOK(Msg("from_jobs", e.job, 0)) /\ \A r \in e.recipes : MessageOK(Msg("update_recipes", r, 0))
      BY ZenonT(30), <2>1, <3>1, MsgFacts DEF RecipeMessages, JobMessages
    <3> QED BY ZenonT(30), <3>2, <3>3 DEF Msgs
  <2>5. LeftOK'
    <3>1. scenario' = scenario /\ (UNCHANGED left \/ Uses("repeats"))
      BY Zenon, <1>3 DEF JobEndCommits
    <3>2. CASE UNCHANGED left
      BY Zenon, <1>1, <3>1, <3>2 DEF LeftOK
    <3>3. CASE Uses("repeats")
      BY Zenon, <1>1, <3>1, <3>3, UsesFacts
    <3> QED BY Zenon, <3>1, <3>2, <3>3
  <2>6. StartedOK' /\ EndingOK' /\ overtaken' \subseteq JobIds
    BY Zenon, <1>1, <1>3, <2>1, <2>3 DEF JobEndCommits, StartedOK, EndingOK
  <2> QED BY ZenonT(30), <1>3, <2>2, <2>4, <2>5, <2>6, QuietOthers DEF JobEndCommits
<1>4. ASSUME NEW j \in JobIds, RequeueJobs(j) PROVE Quiet /\ Base'
  <2>1. Quiet
    BY ZenonT(30), <1>1, <1>4, Ids, QueuedRow, RowChanges DEF Quiet, RequeueJobs
  <2>2. JobIds' = JobIds /\ RecipeIds' = RecipeIds
    BY Zenon, <2>1, QuietKeepsTables DEF Base
  <2>3. LeftOK'
    BY Zenon, <1>1, <1>4, UsesFacts DEF RequeueJobs
  <2>4. StartedOK' /\ EndingOK' /\ overtaken' \subseteq JobIds
    BY Zenon, <1>1, <1>4, <2>2 DEF RequeueJobs, StartedOK, EndingOK
  <2> QED BY ZenonT(30), <1>4, <2>1, <2>3, <2>4, QuietOthers DEF RequeueJobs
<1> QED BY Zenon, <1>2, <1>3, <1>4

-----------------------------------------------------------------------------
(* Steps that change the recipes.                                          *)

\* UpdateRecipes keeps the invariant.
LEMMA UpdateKeepsBase ==
  ASSUME Base, NEW m \in msgs, NEW ack \in BOOLEAN, m.type = "update_recipes", UpdateRecipes(m, ack)
  PROVE  Base'
<1> DEFINE r == m.id
           g == GraphOf(r)
           nodes == recipes'[r].nodes
<1>1. clock \in 0..MaxClock /\ now \in 0..MaxClock /\ 0 \in 0..MaxClock
  BY ClockFacts DEF Base, OthersOK
<1>2. /\ r \in RecipeIds
      /\ recipes' \in Seq(RecipeRows) /\ Len(recipes') = Len(recipes)
      /\ \A s \in RecipeIds : s # r => recipes'[s] = recipes[s]
      /\ recipes'[r].rev = recipes[r].rev /\ recipes'[r].event = recipes[r].event
      /\ recipes'[r].superseded_recipe = recipes[r].superseded_recipe
      /\ recipes'[r].is_superseded = recipes[r].is_superseded
      /\ jobs' \in Seq(GoodRows) /\ Len(jobs') >= Len(jobs)
      /\ job_types' \in Seq(JobTypes) /\ Len(job_types') = Len(jobs')
      /\ \A s \in RecipeIds : NodesFit(NodesOf(s), GraphOf(s), job_types')
      /\ NodesFit(nodes, g, job_types')
      /\ \E new : /\ Executed(m, new, ack)
                  /\ \A o \in new : /\ o.type \in {"blocked_jobs", "pending_jobs", "process_job_input"}
                                    /\ o.id \in JobsOf(nodes) /\ o.when \in 0..MaxClock
      /\ clock' \in {clock, now}
  BY ZenonT(30), <1>1, UpdateFacts
<1>3. UNCHANGED <<scenario, started, ending, overtaken>>
  BY Zenon DEF UpdateRecipes
<1>4. TablesOK /\ ChainOK /\ OthersOK /\ RecipeIds = 1..Len(recipes) /\ JobIds = 1..Len(jobs) /\ Len(jobs) \in Nat
  BY Ids DEF Base
<1>5. TablesOK'
  BY Zenon, <1>2, <1>3, <1>4 DEF TablesOK
<1>6. RecipeIds' = RecipeIds /\ JobIds' = 1..Len(jobs') /\ JobIds \subseteq JobIds'
  <2>1. RecipeIds' = RecipeIds /\ JobIds' = 1..Len(jobs') /\ Len(jobs') \in Nat
    BY <1>2, <1>4 DEF RecipeIds, JobIds
  <2> QED BY <1>2, <1>4, <2>1
<1>7. ChainOK'
  <2>1. \A s \in RecipeIds : /\ recipes'[s].superseded_recipe = recipes[s].superseded_recipe
                             /\ recipes'[s].is_superseded = recipes[s].is_superseded
                             /\ recipes'[s].event = recipes[s].event
    BY Zenon, <1>2
  <2> QED BY ZenonT(30), <1>2, <1>4, <1>6, <2>1 DEF ChainOK
<1>8. NodesOK'
  <2>1. \A rev : Graph(rev)' = Graph(rev)
    BY Zenon, <1>3 DEF Graph
  <2>2. ASSUME NEW s \in RecipeIds
        PROVE  NodesFit(recipes'[s].nodes, Graph(recipes'[s].rev), job_types')
    <3>1. CASE s = r
      BY Zenon, <1>2, <3>1 DEF GraphOf
    <3>2. CASE s # r
      BY Zenon, <1>2, <3>2 DEF GraphOf, NodesOf
    <3> QED BY Zenon, <3>1, <3>2
  <2> QED BY Zenon, <1>6, <2>1, <2>2 DEF NodesOK, NodesOf, GraphOf
<1>9. MessagesOK' /\ LeftOK'
  <2>1. JobsOf(nodes) \subseteq JobIds'
    BY ZenonT(30), <1>2, <1>6, FittingNodes
  <2>2. PICK new : /\ Executed(m, new, ack)
                   /\ \A o \in new : /\ o.type \in {"blocked_jobs", "pending_jobs", "process_job_input"}
                                     /\ o.id \in JobsOf(nodes) /\ o.when \in 0..MaxClock
    BY Zenon, <1>2
  <2>3. \A o \in new : MessageOK(o)'
    BY Zenon, <2>1, <2>2 DEF MessageOK, MessageTypes, RecipeMessages, JobMessages
  <2> QED BY ZenonT(30), <1>3, <1>4, <1>6, <2>2, <2>3, ExecutedFacts DEF Base, OthersOK, TablesOK
<1>10. OthersOK'
  BY ZenonT(30), <1>1, <1>2, <1>3, <1>4, <1>6, <1>9 DEF OthersOK, StartedOK, EndingOK
<1> QED BY ZenonT(30), <1>5, <1>7, <1>8, <1>9, <1>10 DEF Base

\* A new recipe supersedes the latest one. Its nodes lead to jobs that exist or
\* that are created with it.
NewRecipe(rev, event, nodes) ==
  /\ recipes' \in Seq(RecipeRows) /\ Len(recipes') = Len(recipes) + 1
  /\ \A s \in RecipeIds : /\ recipes'[s].rev = recipes[s].rev /\ recipes'[s].event = recipes[s].event
                          /\ recipes'[s].superseded_recipe = recipes[s].superseded_recipe
                          /\ recipes'[s].is_completed = recipes[s].is_completed
                          /\ recipes'[s].nodes = recipes[s].nodes
                          /\ recipes'[s].is_superseded
  /\ recipes'[Len(recipes) + 1] = create_recipe(rev, event, Len(recipes), nodes)
  /\ rev \in 1..2 /\ event \in Nat
  /\ jobs' \in Seq(GoodRows) /\ Len(jobs') >= Len(jobs)
  /\ \A j \in JobIds : Kept(jobs[j], jobs'[j])
  /\ job_types' \in Seq(JobTypes) /\ Len(job_types') = Len(jobs')
  /\ \A s \in RecipeIds : NodesFit(NodesOf(s), GraphOf(s), job_types')
  /\ NodesFit(nodes, Graph(rev), job_types')
  /\ scenario' = scenario

\* A recipe that supersedes the last one keeps the tables.
LEMMA NewRecipeKeepsTables ==
  ASSUME Base, NEW rev, NEW event, NEW nodes, NewRecipe(rev, event, nodes)
  PROVE  /\ TablesOK' /\ ChainOK' /\ NodesOK' /\ RecipeIds' = RecipeIds \cup {Len(recipes) + 1}
         /\ JobIds \subseteq JobIds'
<1> DEFINE L == Len(recipes)
<1>1. /\ TablesOK /\ ChainOK /\ RecipeIds = 1..L /\ JobIds = 1..Len(jobs) /\ Len(jobs) \in Nat
      /\ L \in Nat \ {0}
  BY Zenon, Ids DEF Base
<1>2. /\ RecipeIds' = RecipeIds \cup {L + 1} /\ Len(recipes') = L + 1
      /\ recipes' \in Seq(RecipeRows)
  <2>1. RecipeIds' = 1..(L + 1)
    BY DEF NewRecipe, RecipeIds
  <2> QED BY <1>1, <2>1 DEF NewRecipe
<1>3. JobIds \subseteq JobIds'
  <2>1. JobIds' = 1..Len(jobs') /\ Len(jobs') \in Nat /\ Len(jobs') >= Len(jobs)
    BY DEF NewRecipe, JobIds
  <2> QED BY <1>1, <2>1
<1>4. TablesOK'
  BY <1>1, <1>2 DEF NewRecipe, TablesOK
<1>5. ChainOK'
  <2>1. ASSUME NEW s \in RecipeIds
        PROVE  /\ recipes'[s].superseded_recipe = s - 1
               /\ recipes'[s].is_superseded /\ s # L + 1
               /\ recipes'[s].event # 0 => s > 1
    BY <1>1 DEF NewRecipe, ChainOK
  <2>2. /\ recipes'[L + 1].superseded_recipe = L /\ (L + 1) - 1 = L /\ L + 1 > 1
        /\ ~recipes'[L + 1].is_superseded
    BY <1>1 DEF NewRecipe, create_recipe
  <2> QED BY ZenonT(30), <1>2, <2>1, <2>2 DEF ChainOK
<1>6. NodesOK'
  <2>1. \A v : Graph(v)' = Graph(v)
    BY DEF NewRecipe, Graph
  <2> SUFFICES ASSUME NEW s \in RecipeIds'
               PROVE  NodesFit(recipes'[s].nodes, Graph(recipes'[s].rev), job_types')
    BY Zenon, <2>1 DEF NodesOK, NodesOf, GraphOf
  <2>2. CASE s \in RecipeIds
    BY Zenon, <2>2 DEF NewRecipe, NodesOf, GraphOf
  <2>3. CASE s = L + 1
    BY <2>3 DEF NewRecipe, create_recipe
  <2> QED BY Zenon, <1>2, <2>2, <2>3
<1> QED BY ZenonT(30), <1>2, <1>3, <1>4, <1>5, <1>6

\* A recipe that nobody has superseded is the last one.
LEMMA LastHasNoSuccessor ==
  ASSUME TablesOK, ChainOK, NEW r \in RecipeIds, ~HasSuccessor(r)
  PROVE  r = Len(recipes)
<1>1. RecipeIds = 1..Len(recipes) /\ Len(recipes) \in Nat
  BY Zenon, Ids
<1>2. SUFFICES ASSUME r # Len(recipes) PROVE FALSE
  OBVIOUS
<1>3. r + 1 \in RecipeIds /\ (r + 1) - 1 = r
  BY <1>1, <1>2
<1>4. recipes[r + 1].superseded_recipe = r
  BY Zenon, <1>3 DEF ChainOK
<1> QED BY Zenon, <1>3, <1>4 DEF HasSuccessor

\* A new recipe is put behind the recipes of the table.
LEMMA AppendFacts ==
  ASSUME NEW T, NEW s \in Seq(T), NEW e \in T
  PROVE  /\ Append(s, e) \in Seq(T) /\ Len(Append(s, e)) = Len(s) + 1 /\ Append(s, e)[Len(s) + 1] = e
         /\ \A i \in 1..Len(s) : Append(s, e)[i] = s[i]
OBVIOUS

\* What the new recipe is, and what becomes of the others.
LEMMA AddedRecipe ==
  ASSUME TablesOK, ChainOK, NEW rev \in 1..2, NEW event \in Nat, NEW nodes \in SUBSET (AllNames \X Nat),
         NEW r, r = Len(recipes),
         recipes' = Append([recipes EXCEPT ![r].is_superseded = TRUE], create_recipe(rev, event, r, nodes))
  PROVE  /\ recipes' \in Seq(RecipeRows) /\ Len(recipes') = Len(recipes) + 1
         /\ \A s \in RecipeIds : /\ recipes'[s].rev = recipes[s].rev /\ recipes'[s].event = recipes[s].event
                                 /\ recipes'[s].superseded_recipe = recipes[s].superseded_recipe
                                 /\ recipes'[s].is_completed = recipes[s].is_completed
                                 /\ recipes'[s].nodes = recipes[s].nodes
                                 /\ recipes'[s].is_superseded
         /\ recipes'[Len(recipes) + 1] = create_recipe(rev, event, Len(recipes), nodes)
<1> DEFINE y == [recipes[r] EXCEPT !.is_superseded = TRUE]
           old == [recipes EXCEPT ![r] = y]
           row == create_recipe(rev, event, r, nodes)
<1>1. /\ RecipeIds = 1..Len(recipes) /\ Len(recipes) \in Nat \ {0} /\ r \in RecipeIds
      /\ recipes \in Seq(RecipeRows) /\ \A s \in RecipeIds : recipes[s] \in RecipeRows
  BY Ids DEF TablesOK
<1>2. /\ y \in RecipeRows /\ y.rev = recipes[r].rev /\ y.event = recipes[r].event
      /\ y.superseded_recipe = recipes[r].superseded_recipe /\ y.is_completed = recipes[r].is_completed
      /\ y.nodes = recipes[r].nodes /\ y.is_superseded
  BY Zenon, <1>1 DEF RecipeRows
<1>3. row \in RecipeRows
  BY Zenon, <1>1 DEF RecipeRows, create_recipe
<1>4. recipes' = Append(old, row)
  BY Zenon, <1>1
<1> HIDE DEF y, row
<1>5. /\ old \in Seq(RecipeRows) /\ Len(old) = Len(recipes)
      /\ \A s \in RecipeIds : old[s] = IF s = r THEN y ELSE recipes[s]
  BY <1>1, <1>2
<1> HIDE DEF old
<1>6. /\ recipes' \in Seq(RecipeRows) /\ Len(recipes') = Len(recipes) + 1
      /\ recipes'[Len(recipes) + 1] = row
      /\ \A s \in RecipeIds : recipes'[s] = old[s]
  <2>1. /\ Append(old, row) \in Seq(RecipeRows) /\ Len(Append(old, row)) = Len(old) + 1
        /\ Append(old, row)[Len(old) + 1] = row
        /\ \A s \in 1..Len(old) : Append(old, row)[s] = old[s]
    BY <1>3, <1>5, AppendFacts
  <2> QED BY ZenonT(30), <1>1, <1>4, <1>5, <2>1
<1>7. \A s \in RecipeIds : s # r => recipes[s].is_superseded
  BY DEF ChainOK
<1>8. \A s \in RecipeIds : recipes'[s] = IF s = r THEN y ELSE recipes[s]
  BY Zenon, <1>5, <1>6
<1> QED BY ZenonT(30), <1>2, <1>6, <1>7, <1>8 DEF row

\* ReprocessRecipes supersedes the last recipe: the jobs of identical nodes are taken
\* over, those of changed and deleted ones are superseded and are to be canceled.
LEMMA ReprocessNewFacts ==
  ASSUME Base, NEW m \in msgs, NEW ack \in BOOLEAN, m.type = "reprocess_recipes",
         NEW r \in RecipeIds, ReprocessNew(m, r, ack)
  PROVE  /\ r = Len(recipes)
         /\ \E d \in Delta(recipes[r].rev) :
              LET superseded == SupersededJobs(d, NodesOf(r))
              IN  /\ NewRecipe(recipes[r].rev, m.id, {x \in NodesOf(r) : x[1] \in DOMAIN d.identical})
                  /\ Len(jobs') = Len(jobs)
                  /\ \A j \in JobIds : /\ jobs'[j].status = jobs[j].status
                                       /\ jobs'[j].has_input = jobs[j].has_input
                                       /\ jobs'[j].is_superseded <=> jobs[j].is_superseded \/ j \in superseded
                  /\ superseded \subseteq JobIds
                  /\ Executed(m, {Msg("process_recipe_input", Len(recipes) + 1, 0)}
                                 \cup Msgs("cancel_jobs", superseded, now), ack)
<1>1. TablesOK /\ ChainOK /\ NodesOK /\ MessageOK(m) /\ r \in RecipeIds
  BY DEF Base, MessagesOK
<1>2. r = Len(recipes)
  BY Zenon, <1>1, LastHasNoSuccessor DEF ReprocessNew
<1>3. PICK d \in Delta(recipes[r].rev) :
        LET copied == {x \in NodesOf(r) : x[1] \in DOMAIN d.identical}
            superseded == SupersededJobs(d, NodesOf(r))
        IN  /\ recipes' = Append([recipes EXCEPT ![r].is_superseded = TRUE],
                                 create_recipe(recipes[r].rev, m.id, r, copied))
            /\ jobs' = Apply(jobs, superseded, supersede_jobs)
            /\ Executed(m, {Msg("process_recipe_input", Len(recipes) + 1, 0)}
                           \cup Msgs("cancel_jobs", superseded, now), ack)
  BY Zenon DEF ReprocessNew, NodesOf
<1> DEFINE copied == {x \in NodesOf(r) : x[1] \in DOMAIN d.identical}
           superseded == SupersededJobs(d, NodesOf(r))
<1>4. /\ scenario' = scenario /\ job_types' = job_types
  BY DEF ReprocessNew
<1>5. /\ recipes[r].rev \in 1..2 /\ m.id \in Nat /\ NodesFit(NodesOf(r), GraphOf(r), job_types)
      /\ NodesOf(r) \in SUBSET (AllNames \X Nat)
  <2>1. recipes[r] \in RecipeRows
    BY Zenon, <1>1, Ids
  <2>2. m.id \in Nat
    BY Zenon, <1>1, ScenariosAssumption DEF MessageOK, TablesOK
  <2> QED BY Zenon, <1>1, <2>1, <2>2 DEF NodesOK, RecipeRows, NodesOf
<1>6. NodesFit(copied, GraphOf(r), job_types)
  BY Zenon, <1>5, FittingNodes
<1>7. superseded \subseteq JobIds
  <2>1. JobsOf(NodesOf(r)) \subseteq JobIds
    BY Zenon, <1>1, RecipeJobs
  <2> QED BY Zenon, <2>1 DEF SupersededJobs, JobsOf
<1>8. jobs' = [j \in JobIds |-> IF j \in superseded THEN supersede_jobs(jobs[j]) ELSE jobs[j]]
  BY Zenon, <1>3 DEF Apply, JobIds
<1> HIDE DEF superseded, copied
<1>9. ASSUME NEW j \in JobIds
      PROVE  /\ jobs'[j] \in GoodRows /\ Kept(jobs[j], jobs'[j])
             /\ jobs'[j].status = jobs[j].status
             /\ jobs'[j].has_input = jobs[j].has_input
             /\ jobs'[j].is_superseded <=> jobs[j].is_superseded \/ j \in superseded
  <2>1. jobs[j] \in GoodRows
    BY ZenonT(30), <1>1, Ids
  <2>2. CASE j \in superseded
    <3>1. jobs'[j] = supersede_jobs(jobs[j])
      BY Zenon, <1>8, <2>2
    <3>2. supersede_jobs(jobs[j]).is_superseded
      BY Zenon, <2>1 DEF supersede_jobs, GoodRows, JobRows
    <3> QED BY ZenonT(30), <2>1, <2>2, <3>1, <3>2, SupersededRow
  <2>3. CASE j \notin superseded
    BY ZenonT(30), <1>8, <2>1, <2>3 DEF Kept
  <2> QED BY Zenon, <2>2, <2>3
<1>10. jobs' \in Seq(GoodRows) /\ Len(jobs') = Len(jobs) /\ Len(jobs) \in Nat
  <2>1. JobIds = 1..Len(jobs) /\ Len(jobs) \in Nat
    BY ZenonT(30), <1>1, Ids
  <2>2. jobs' \in [1..Len(jobs) -> GoodRows]
    BY ZenonT(30), <1>8, <1>9, <2>1
  <2> QED BY ZenonT(30), <2>1, <2>2, FunctionsAreSequences
<1>11. copied \in SUBSET (AllNames \X Nat)
  BY Zenon, <1>5 DEF copied
<1>12. recipes' = Append([recipes EXCEPT ![r].is_superseded = TRUE], create_recipe(recipes[r].rev, m.id, r, copied))
  BY Zenon, <1>3 DEF copied
<1>13. NewRecipe(recipes[r].rev, m.id, copied)
  <2>1. /\ recipes' \in Seq(RecipeRows) /\ Len(recipes') = Len(recipes) + 1
        /\ \A s \in RecipeIds : /\ recipes'[s].rev = recipes[s].rev /\ recipes'[s].event = recipes[s].event
                                /\ recipes'[s].superseded_recipe = recipes[s].superseded_recipe
                                /\ recipes'[s].is_completed = recipes[s].is_completed
                                /\ recipes'[s].nodes = recipes[s].nodes
                                /\ recipes'[s].is_superseded
        /\ recipes'[Len(recipes) + 1] = create_recipe(recipes[r].rev, m.id, Len(recipes), copied)
    BY ZenonT(30), <1>1, <1>2, <1>5, <1>11, <1>12, AddedRecipe
  <2>2. \A j \in JobIds : Kept(jobs[j], jobs'[j])
    BY Zenon, <1>9
  <2>3. /\ job_types' \in Seq(JobTypes) /\ Len(job_types') = Len(jobs')
        /\ \A s \in RecipeIds : NodesFit(NodesOf(s), GraphOf(s), job_types')
    BY ZenonT(30), <1>1, <1>4, <1>10 DEF TablesOK, NodesOK
  <2>4. NodesFit(copied, Graph(recipes[r].rev), job_types')
    BY ZenonT(30), <1>4, <1>6 DEF GraphOf
  <2>5. recipes[r].rev \in 1..2 /\ m.id \in Nat /\ jobs' \in Seq(GoodRows) /\ Len(jobs') >= Len(jobs)
    BY <1>4, <1>5, <1>10
  <2>6. scenario' = scenario
    BY Zenon, <1>4, <1>5
  <2> QED BY ZenonT(30), <2>1, <2>2, <2>3, <2>4, <2>5, <2>6 DEF NewRecipe
<1> QED BY ZenonT(30), <1>2, <1>3, <1>7, <1>9, <1>10, <1>13 DEF superseded, copied

\* Nodes that are taken over fit the new definition.
LEMMA CopiedFacts ==
  ASSUME NEW a, NEW b, NEW names, IsFiniteSet(Names(b)), NEW d \in RecipeGraphDelta(a, b, names),
         NEW nodes, NEW types, NodesFit(nodes, a, types), Names(a) \subseteq NodeNames(nodes)
  PROVE  /\ NodesFit(Copied(d, nodes), b, types) /\ NodeNames(Copied(d, nodes)) = DOMAIN d.identical
         /\ \A x \in Copied(d, nodes) : <<d.identical[x[1]], x[2]>> \in nodes
<1>1. /\ IsNodes(nodes) /\ JobsOf(nodes) \subseteq 1..Len(types)
      /\ \A n \in NodeNames(nodes) : <<n, JobAt(nodes, n)>> \in nodes /\ JobAt(nodes, n) \in JobsOf(nodes)
  BY ZenonT(30), FittingNodes, JobAtFacts
<1>2. /\ DOMAIN d.identical \subseteq Names(b)
      /\ \A n \in DOMAIN d.identical : /\ d.identical[n] \in Names(a)
                                       /\ a.nodes[d.identical[n]].type = b.nodes[n].type
      /\ \A n, o \in DOMAIN d.identical : d.identical[n] = d.identical[o] => n = o
  BY DeltaFacts
<1>3. Copied(d, nodes) = {<<n, JobAt(nodes, d.identical[n])>> : n \in DOMAIN d.identical}
  BY Zenon DEF Copied
<1>4. \A n \in DOMAIN d.identical : <<d.identical[n], JobAt(nodes, d.identical[n])>> \in nodes
                                    /\ JobAt(nodes, d.identical[n]) \in 1..Len(types)
  BY ZenonT(30), <1>1, <1>2
<1>5. \A x \in Copied(d, nodes) : /\ x[1] \in DOMAIN d.identical /\ x[2] = JobAt(nodes, d.identical[x[1]])
                                  /\ x = <<x[1], x[2]>>
  BY <1>3
<1>6. NodeNames(Copied(d, nodes)) = DOMAIN d.identical
  <2>1. \A n \in DOMAIN d.identical : <<n, JobAt(nodes, d.identical[n])>> \in Copied(d, nodes)
    BY Zenon, <1>3
  <2> QED BY Zenon, <1>5, <2>1 DEF NodeNames
<1>7. Copied(d, nodes) \subseteq Names(b) \X (1..Len(types))
  <2> SUFFICES ASSUME NEW x \in Copied(d, nodes) PROVE x \in Names(b) \X (1..Len(types))
    BY Zenon
  <2>1. x = <<x[1], x[2]>> /\ x[1] \in DOMAIN d.identical /\ x[2] = JobAt(nodes, d.identical[x[1]])
    BY Zenon, <1>5
  <2>2. x[1] \in Names(b) /\ x[2] \in 1..Len(types)
    BY ZenonT(30), <1>2, <1>4, <2>1
  <2> QED BY Zenon, <2>1, <2>2
<1>8. \A x \in Copied(d, nodes) : types[x[2]] = b.nodes[x[1]].type
  <2> SUFFICES ASSUME NEW x \in Copied(d, nodes) PROVE types[x[2]] = b.nodes[x[1]].type
    OBVIOUS
  <2>1. <<d.identical[x[1]], x[2]>> \in nodes
    BY Zenon, <1>4, <1>5
  <2>2. types[x[2]] = a.nodes[d.identical[x[1]]].type
    BY Zenon, <2>1 DEF NodesFit
  <2> QED BY ZenonT(30), <1>2, <1>5, <2>2
<1>9. \A x, y \in Copied(d, nodes) : (x[1] = y[1] => x = y) /\ (x[2] = y[2] => x = y)
  <2> SUFFICES ASSUME NEW x \in Copied(d, nodes), NEW y \in Copied(d, nodes)
               PROVE  (x[1] = y[1] => x = y) /\ (x[2] = y[2] => x = y)
    OBVIOUS
  <2>1. <<d.identical[x[1]], x[2]>> \in nodes /\ <<d.identical[y[1]], y[2]>> \in nodes
    BY Zenon, <1>4, <1>5
  <2>2. x[2] = y[2] => d.identical[x[1]] = d.identical[y[1]]
    BY Zenon, <1>1, <2>1 DEF IsNodes
  <2> QED BY <1>2, <1>5, <2>2
<1> QED BY ZenonT(30), <1>4, <1>5, <1>6, <1>7, <1>8, <1>9 DEF NodesFit

\* supersede_jobs_old: superseded, and canceled if never queued.
LEMMA ReplacedRows ==
  ASSUME NEW gone, now \in Nat, jobs \in Seq(GoodRows)
  PROVE  LET rows == Apply(jobs, gone, supersede_jobs_old)
         IN  /\ rows \in Seq(GoodRows) /\ Len(rows) = Len(jobs)
             /\ \A j \in JobIds : /\ Kept(jobs[j], rows[j]) /\ rows[j].has_input = jobs[j].has_input
                                  /\ rows[j].is_superseded <=> jobs[j].is_superseded \/ j \in gone
                                  /\ j \notin gone => rows[j] = jobs[j]
                                  /\ \/ rows[j].status = jobs[j].status
                                     \/ rows[j].status = "CANCELED" /\ jobs[j].status \in WaitingStatuses
<1> DEFINE rows == Apply(jobs, gone, supersede_jobs_old)
<1>1. rows = [j \in JobIds |-> IF j \in gone THEN supersede_jobs_old(jobs[j]) ELSE jobs[j]]
  BY DEF Apply, JobIds
<1>2. JobIds = 1..Len(jobs) /\ Len(jobs) \in Nat /\ \A j \in JobIds : jobs[j] \in GoodRows
  BY DEF JobIds
<1> HIDE DEF rows
<1>3. ASSUME NEW j \in JobIds
      PROVE  /\ rows[j] \in GoodRows /\ Kept(jobs[j], rows[j]) /\ rows[j].has_input = jobs[j].has_input
             /\ rows[j].is_superseded <=> jobs[j].is_superseded \/ j \in gone
             /\ j \notin gone => rows[j] = jobs[j]
             /\ \/ rows[j].status = jobs[j].status
                \/ rows[j].status = "CANCELED" /\ jobs[j].status \in WaitingStatuses
  <2>1. CASE j \in gone
    <3>1. rows[j] = supersede_jobs_old(jobs[j])
      BY Zenon, <1>1, <2>1
    <3>2. supersede_jobs_old(jobs[j]).is_superseded
      BY Zenon, <1>2 DEF supersede_jobs_old, GoodRows, JobRows
    <3>3. \/ supersede_jobs_old(jobs[j]).status = jobs[j].status
          \/ supersede_jobs_old(jobs[j]).status = "CANCELED" /\ jobs[j].status \in WaitingStatuses
      BY Zenon, <1>2 DEF supersede_jobs_old, GoodRows, JobRows, WaitingStatuses
    <3> QED BY ZenonT(30), <1>2, <2>1, <3>1, <3>2, <3>3, SupersededOldRow
  <2>2. CASE j \notin gone
    BY Zenon, <1>1, <1>2, <2>2 DEF Kept
  <2> QED BY Zenon, <2>1, <2>2
<1>4. rows \in Seq(GoodRows) /\ Len(rows) = Len(jobs)
  <2>1. rows \in [1..Len(jobs) -> GoodRows]
    BY ZenonT(30), <1>1, <1>2, <1>3
  <2> QED BY Zenon, <1>2, <2>1, FunctionsAreSequences
<1> QED BY Zenon, <1>3, <1>4 DEF rows

\* queue_new_recipe supersedes the last recipe and creates all jobs of the new one.
LEMMA RequestFacts ==
  ASSUME Base, NEW s \in started, s.type = "request", NEW d \in Delta(recipes[s.recipe].rev),
         queue_new_recipe(s, d), scenario' = scenario
  PROVE  LET r == s.recipe
             b == Graph(CurrentRev)
             nodes == recipes'[Len(recipes) + 1].nodes
             copied == Copied(d, NodesOf(r))
             gone == {JobAt(NodesOf(r), n) : n \in Range(d.changed) \cup d.deleted}
         IN  /\ r = Len(recipes) /\ r \in RecipeIds /\ Names(GraphOf(r)) = NodeNames(NodesOf(r))
             /\ NewRecipe(CurrentRev, 0, nodes)
             /\ copied \subseteq nodes /\ NodeNames(nodes) = Names(b) /\ NodeNames(copied) = DOMAIN d.identical
             /\ \A x \in copied : <<d.identical[x[1]], x[2]>> \in NodesOf(r)
             /\ \A x \in nodes \ copied : x[1] \notin DOMAIN d.identical /\ x[2] \notin JobIds
             /\ \A j \in JobIds : /\ jobs'[j].is_superseded <=> jobs[j].is_superseded \/ j \in gone
                                  /\ \/ jobs'[j].status = jobs[j].status
                                     \/ jobs[j].status \in WaitingStatuses /\ j \in gone /\ jobs'[j].status = "CANCELED"
                                     \/ jobs[j].status \in WaitingStatuses /\ jobs'[j].status \in {"BLOCKED", "QUEUED"}
             /\ \A j \in JobIds' \ JobIds : ~jobs'[j].is_superseded /\ jobs'[j].status \in {"PENDING", "BLOCKED", "QUEUED"}
             /\ \A j \in JobIds' : jobs'[j].has_input =>
                  \/ j \in JobIds /\ jobs[j].has_input
                  \/ \E x \in nodes : x[2] = j /\ ParentsCompleted(b, nodes, jobs', x[1])
             /\ \A x \in nodes : /\ jobs'[x[2]].status \in WaitingStatuses /\ ~jobs'[x[2]].is_superseded
                                 /\ ParentsCompleted(b, nodes, jobs', x[1])
                                 => x[2] \in JobIds /\ jobs[x[2]].status \in WaitingStatuses
<1> DEFINE r == s.recipe
           old == NodesOf(r)
           a == GraphOf(r)
           b == Graph(CurrentRev)
           names == Names(b) \ DOMAIN d.identical
           copied == Copied(d, old)
           new == NewJobs(b, names, Len(job_types))
           nodes == copied \cup new.nodes
           gone == {JobAt(old, n) : n \in Range(d.changed) \cup d.deleted}
           replaced == Apply(jobs, gone, supersede_jobs_old)
           rows == replaced \o new.rows
<1>1. /\ TablesOK /\ ChainOK /\ NodesOK /\ r \in RecipeIds /\ now \in Nat
      /\ JobIds = 1..Len(jobs) /\ Len(jobs) \in Nat /\ Len(job_types) = Len(jobs)
      /\ jobs \in Seq(GoodRows) /\ job_types \in Seq(JobTypes)
  <2>1. TablesOK /\ ChainOK /\ NodesOK /\ StartedOK /\ now \in Nat
    BY Zenon, ClockFacts DEF Base, OthersOK
  <2>2. r \in RecipeIds
    BY <2>1, Ids DEF StartedOK
  <2> QED BY ZenonT(30), <2>1, <2>2, Ids DEF TablesOK
<1>2. /\ Names(a) \subseteq NodeNames(old) /\ ~HasSuccessor(r)
      /\ recipes' = Append([recipes EXCEPT ![r].is_superseded = TRUE], create_recipe(CurrentRev, 0, r, nodes))
      /\ jobs' = Queued(b, nodes, rows)
      /\ job_types' = job_types \o new.types
  BY Zenon, <1>1 DEF queue_new_recipe, NodesOf, GraphOf
<1>3. r = Len(recipes)
  BY ZenonT(30), <1>1, <1>2, LastHasNoSuccessor
<1>4. /\ IsFiniteSet(Names(b)) /\ \A n \in Names(b) : /\ Parents(b, n) \subseteq Names(b)
                                                      /\ b.nodes[n].type \in JobTypes /\ n \in AllNames
      /\ NodesFit(old, a, job_types) /\ d \in RecipeGraphDelta(a, b, scenario.names)
  <2>1. CurrentRev \in 1..2 /\ scenario \in Scenarios
    BY <1>1 DEF CurrentRev, TablesOK
  <2>2. d \in RecipeGraphDelta(a, b, scenario.names)
    BY DEF Delta, DeltaIn, Graph, GraphOf
  <2> QED BY ZenonT(30), <1>1, <2>1, <2>2, GraphFacts DEF NodesOK
<1>5. Names(a) = NodeNames(old) /\ IsNodes(old) /\ JobsOf(old) \subseteq JobIds
  BY ZenonT(30), <1>1, <1>2, RecipeJobs
<1>6. /\ NodesFit(copied, b, job_types) /\ NodeNames(copied) = DOMAIN d.identical
      /\ \A x \in copied : <<d.identical[x[1]], x[2]>> \in old
  <2> HIDE DEF a, b, old
  <2> QED BY ZenonT(30), <1>2, <1>4, CopiedFacts
<1>7. /\ DOMAIN d.identical \subseteq Names(b) /\ Range(d.changed) \cup d.deleted \subseteq Names(a)
      /\ \A n \in DOMAIN d.identical : /\ d.identical[n] \in Names(a)
                                       /\ d.identical[n] \notin Range(d.changed) \cup d.deleted
  <2> HIDE DEF a, b, old
  <2> QED BY Zenon, <1>4, DeltaFacts
<1>8. gone \subseteq JobIds
  BY ZenonT(30), <1>5, <1>7, JobAtFacts
<1> HIDE DEF a, b, old, copied, gone
<1>9. /\ NodesFit(nodes, b, job_types')
      /\ NodeNames(nodes) = Names(b)
      /\ new.rows \in Seq(GoodRows) /\ new.types \in Seq(JobTypes) /\ Len(new.rows) = Len(new.types)
      /\ \A i \in 1..Len(new.rows) : new.rows[i] = create_job(TRUE, FALSE)
      /\ \A x \in new.nodes : x[1] \in names /\ x[2] > Len(job_types) /\ x[2] \in Nat
  <2>1. /\ names \subseteq Names(b) /\ names \cap NodeNames(copied) = {} /\ IsFiniteSet(names)
        /\ \A n \in names : b.nodes[n].type \in JobTypes
    BY ZenonT(30), <1>4, <1>6, FS_Subset
  <2>2. job_types \in Seq(JobTypes) /\ NodesFit(copied, b, job_types) /\ job_types' = job_types \o new.types
    BY ZenonT(30), <1>1, <1>2, <1>6
  <2>3. NodeNames(copied) \cup names = Names(b)
    BY Zenon, <1>6, <1>7
  <2> HIDE DEF names
  <2>4. LET fresh == NewJobs(b, names, Len(job_types))
        IN  /\ NodesFit(copied \cup fresh.nodes, b, job_types \o fresh.types)
            /\ NodeNames(copied \cup fresh.nodes) = NodeNames(copied) \cup names
            /\ fresh.rows \in Seq(GoodRows) /\ fresh.types \in Seq(JobTypes) /\ Len(fresh.rows) = Len(fresh.types)
            /\ \A i \in 1..Len(fresh.rows) : fresh.rows[i] = create_job(TRUE, FALSE)
            /\ \A x \in fresh.nodes : x[1] \in names /\ x[2] > Len(job_types) /\ x[2] \in Nat
    BY ZenonT(30), <2>1, <2>2, NodesGrow
  <2> QED BY ZenonT(30), <2>2, <2>3, <2>4
<1>10. /\ replaced \in Seq(GoodRows) /\ Len(replaced) = Len(jobs)
       /\ \A j \in JobIds : /\ Kept(jobs[j], replaced[j]) /\ replaced[j].has_input = jobs[j].has_input
                            /\ replaced[j].is_superseded <=> jobs[j].is_superseded \/ j \in gone
                            /\ j \notin gone => replaced[j] = jobs[j]
                            /\ \/ replaced[j].status = jobs[j].status
                               \/ replaced[j].status = "CANCELED" /\ jobs[j].status \in WaitingStatuses
  BY ZenonT(30), <1>1, ReplacedRows
<1> HIDE DEF replaced
<1>11. /\ rows \in Seq(GoodRows) /\ DOMAIN rows = 1..Len(rows) /\ Len(rows) >= Len(jobs) /\ Len(rows) \in Nat
       /\ Len(rows) = Len(job_types')
       /\ \A j \in JobIds : j \in DOMAIN rows /\ rows[j] = replaced[j]
       /\ \A j \in DOMAIN rows \ JobIds : rows[j] = create_job(TRUE, FALSE)
  <2> DEFINE u == new.rows
             v == new.types
  <2>1. u \in Seq(GoodRows) /\ (\A i \in 1..Len(u) : u[i] = create_job(TRUE, FALSE)) /\ rows = replaced \o u
    BY Zenon, <1>9
  <2>2. v \in Seq(JobTypes) /\ Len(v) = Len(u) /\ job_types' = job_types \o v
    BY ZenonT(30), <1>2, <1>9
  <2> HIDE DEF u, v, rows
  <2>3. /\ replaced \o u \in Seq(GoodRows) /\ Len(replaced \o u) = Len(jobs) + Len(u) /\ Len(u) \in Nat
        /\ \A j \in 1..Len(jobs) : (replaced \o u)[j] = replaced[j]
        /\ \A j \in (Len(jobs)+1)..(Len(jobs) + Len(u)) :
             (replaced \o u)[j] = u[j - Len(jobs)] /\ j - Len(jobs) \in 1..Len(u)
    <3>1. replaced \in Seq(GoodRows) /\ Len(replaced) = Len(jobs) /\ u \in Seq(GoodRows)
      BY ZenonT(30), <1>10, <2>1
    <3>2. /\ replaced \o u \in Seq(GoodRows) /\ Len(u) \in Nat /\ Len(replaced \o u) = Len(replaced) + Len(u)
          /\ \A i \in 1..Len(replaced) : (replaced \o u)[i] = replaced[i]
          /\ \A i \in (Len(replaced)+1)..(Len(replaced) + Len(u)) :
               (replaced \o u)[i] = u[i - Len(replaced)] /\ i - Len(replaced) \in 1..Len(u)
      BY ZenonT(30), <3>1, ConcatFacts
    <3> QED BY ZenonT(30), <3>1, <3>2
  <2>4. Len(job_types \o v) = Len(jobs) + Len(u)
    <3>1. job_types \in Seq(JobTypes) /\ Len(job_types) = Len(jobs) /\ v \in Seq(JobTypes) /\ Len(v) = Len(u)
      BY ZenonT(30), <1>1, <2>2
    <3>2. Len(job_types \o v) = Len(job_types) + Len(v)
      BY <3>1
    <3> QED BY ZenonT(30), <3>1, <3>2
  <2>5. /\ rows \in Seq(GoodRows) /\ Len(rows) = Len(jobs) + Len(u) /\ DOMAIN rows = 1..Len(rows)
        /\ Len(rows) = Len(job_types')
    BY <2>1, <2>2, <2>3, <2>4
  <2>6. \A j \in JobIds : j \in DOMAIN rows /\ rows[j] = replaced[j]
    BY <1>1, <2>1, <2>3, <2>5
  <2>7. \A j \in DOMAIN rows \ JobIds : j \in (Len(jobs)+1)..(Len(jobs) + Len(u))
    BY <1>1, <2>3, <2>5
  <2>8. \A j \in DOMAIN rows \ JobIds : rows[j] = create_job(TRUE, FALSE)
    BY ZenonT(30), <2>1, <2>3, <2>7
  <2>9. Len(rows) >= Len(jobs) /\ Len(rows) \in Nat
    BY <1>1, <2>3, <2>5
  <2> QED BY ZenonT(30), <2>5, <2>6, <2>8, <2>9
<1> HIDE DEF rows, new, names
<1>12. IsNodes(nodes) /\ JobsOf(nodes) \subseteq DOMAIN rows
  BY ZenonT(30), <1>9, <1>11, FittingNodes
<1>13. copied \subseteq nodes /\ \A x \in nodes \ copied : x[1] \notin DOMAIN d.identical /\ x[2] \notin JobIds
  BY <1>1, <1>9 DEF names
<1> HIDE DEF nodes
<1>14. /\ jobs' \in Seq(GoodRows) /\ Len(jobs') = Len(rows)
       /\ \A j \in DOMAIN rows :
            /\ QueuedStep(rows[j], jobs'[j])
            /\ jobs'[j].has_input => \/ rows[j].has_input
                                     \/ \E n \in Names(b) : /\ j = JobAt(nodes, n)
                                                            /\ ParentsCompleted(b, nodes, rows, n)
       /\ \A n \in Names(b) :
            LET j == JobAt(nodes, n)
            IN  rows[j].status = "PENDING" /\ ~rows[j].is_superseded /\ ParentsCompleted(b, nodes, rows, n)
                  => jobs'[j].status = "QUEUED"
  <2>1. \A n \in Names(b) : Parents(b, n) \subseteq Names(b)
    BY ZenonT(30), <1>4
  <2>2. NodeNames(nodes) = Names(b) /\ rows \in Seq(GoodRows) /\ now \in Nat
    BY ZenonT(30), <1>1, <1>9, <1>11
  <2> QED BY ZenonT(30), <1>2, <1>12, <2>1, <2>2, QueuedFacts
<1>15. \A x \in nodes : x[1] \in Names(b) /\ x[2] \in DOMAIN rows /\ JobAt(nodes, x[1]) = x[2]
  BY ZenonT(30), <1>9, <1>12, JobAtFacts
<1>16. \A n \in Names(b) : <<n, JobAt(nodes, n)>> \in nodes /\ JobAt(nodes, n) \in DOMAIN rows
  BY ZenonT(30), <1>9, <1>12, JobAtFacts
<1>17. \A n \in Names(b) : ParentsCompleted(b, nodes, rows, n) <=> ParentsCompleted(b, nodes, jobs', n)
  <2>1. \A j \in DOMAIN rows : rows[j].status = "COMPLETED" <=> jobs'[j].status = "COMPLETED"
    BY ZenonT(30), <1>14 DEF QueuedStep
  <2> QED BY ZenonT(30), <1>4, <1>16, <2>1 DEF ParentsCompleted
<1>18. JobIds' = DOMAIN rows
  <2>1. rows \in Seq(GoodRows) /\ jobs' \in Seq(GoodRows) /\ Len(jobs') = Len(rows)
    BY <1>11, <1>14, Zenon
  <2>2. DOMAIN jobs' = DOMAIN rows
    BY <2>1
  <2> QED BY <2>2, Zenon DEF JobIds
<1>19. ASSUME NEW j \in JobIds
       PROVE  /\ Kept(jobs[j], jobs'[j])
              /\ jobs'[j].is_superseded <=> jobs[j].is_superseded \/ j \in gone
              /\ \/ jobs'[j].status = jobs[j].status
                 \/ jobs[j].status \in WaitingStatuses /\ j \in gone /\ jobs'[j].status = "CANCELED"
                 \/ jobs[j].status \in WaitingStatuses /\ jobs'[j].status \in {"BLOCKED", "QUEUED"}
  <2>1. QueuedStep(rows[j], jobs'[j]) /\ rows[j] = replaced[j]
    BY ZenonT(30), <1>11, <1>14
  <2> QED BY ZenonT(30), <1>10, <2>1 DEF QueuedStep, Kept, WaitingStatuses
<1>20. \A j \in DOMAIN rows \ JobIds : /\ ~jobs'[j].is_superseded
                                       /\ jobs'[j].status \in {"PENDING", "BLOCKED", "QUEUED"}
                                       /\ rows[j].has_input = FALSE
  BY ZenonT(30), <1>11, <1>14, NewRowFacts DEF QueuedStep
<1>21. ASSUME NEW j \in JobIds', jobs'[j].has_input
       PROVE  \/ j \in JobIds /\ jobs[j].has_input
              \/ \E x \in nodes : x[2] = j /\ ParentsCompleted(b, nodes, jobs', x[1])
  <2>1. j \in DOMAIN rows
    BY ZenonT(30), <1>18
  <2>2. CASE rows[j].has_input
    BY ZenonT(30), <1>10, <1>11, <1>20, <2>1, <2>2
  <2>3. CASE ~rows[j].has_input
    <3>1. PICK n \in Names(b) : j = JobAt(nodes, n) /\ ParentsCompleted(b, nodes, rows, n)
      BY ZenonT(30), <1>14, <1>21, <2>1, <2>3
    <3>2. <<n, j>> \in nodes /\ ParentsCompleted(b, nodes, jobs', n)
      BY ZenonT(30), <1>16, <1>17, <3>1
    <3> QED BY Zenon, <3>2
  <2> QED BY ZenonT(30), <2>2, <2>3
<1>22. ASSUME NEW x \in nodes, jobs'[x[2]].status \in WaitingStatuses, ~jobs'[x[2]].is_superseded,
              ParentsCompleted(b, nodes, jobs', x[1])
       PROVE  x[2] \in JobIds /\ jobs[x[2]].status \in WaitingStatuses
  <2> DEFINE j == x[2]
  <2>1. j \in DOMAIN rows /\ QueuedStep(rows[j], jobs'[j]) /\ JobAt(nodes, x[1]) = j /\ x[1] \in Names(b)
    BY ZenonT(30), <1>14, <1>15
  <2>2. ~rows[j].is_superseded
    BY ZenonT(30), <1>22, <2>1 DEF QueuedStep
  <2>3. rows[j].status # "PENDING"
    BY ZenonT(30), <1>14, <1>17, <1>22, <2>1, <2>2 DEF WaitingStatuses
  <2>4. rows[j].status \in WaitingStatuses
    BY ZenonT(30), <1>22, <2>1, <2>3 DEF QueuedStep
  <2>5. j \in JobIds
    BY ZenonT(30), <1>11, <2>1, <2>3, NewRowFacts
  <2>6. jobs[j].status \in WaitingStatuses
    BY ZenonT(30), <1>10, <1>11, <2>4, <2>5 DEF WaitingStatuses
  <2> QED BY ZenonT(30), <2>5, <2>6
<1>23. nodes \in SUBSET (AllNames \X Nat) /\ CurrentRev \in 1..2
  BY <1>4, <1>9 DEF NodesFit, CurrentRev
<1>24. NewRecipe(CurrentRev, 0, nodes) /\ recipes'[Len(recipes) + 1].nodes = nodes
  <2>1. /\ recipes' \in Seq(RecipeRows) /\ Len(recipes') = Len(recipes) + 1
        /\ \A q \in RecipeIds : /\ recipes'[q].rev = recipes[q].rev /\ recipes'[q].event = recipes[q].event
                                /\ recipes'[q].superseded_recipe = recipes[q].superseded_recipe
                                /\ recipes'[q].is_completed = recipes[q].is_completed
                                /\ recipes'[q].nodes = recipes[q].nodes
                                /\ recipes'[q].is_superseded
        /\ recipes'[Len(recipes) + 1] = create_recipe(CurrentRev, 0, Len(recipes), nodes)
    <3>1. /\ TablesOK /\ ChainOK /\ CurrentRev \in 1..2 /\ 0 \in Nat /\ nodes \in SUBSET (AllNames \X Nat)
          /\ r = Len(recipes)
          /\ recipes' = Append([recipes EXCEPT ![r].is_superseded = TRUE], create_recipe(CurrentRev, 0, r, nodes))
      BY ZenonT(30), <1>1, <1>2, <1>3, <1>23
    <3> HIDE DEF r
    <3> QED BY ZenonT(30), <3>1, AddedRecipe
  <2>2. \A j \in JobIds : Kept(jobs[j], jobs'[j])
    BY ZenonT(30), <1>19
  <2>3. job_types' \in Seq(JobTypes) /\ \A q \in RecipeIds : NodesFit(NodesOf(q), GraphOf(q), job_types')
    <3> DEFINE v == new.types
    <3>1. v \in Seq(JobTypes) /\ job_types' = job_types \o v
      BY ZenonT(30), <1>2, <1>9
    <3> HIDE DEF v
    <3> QED BY ZenonT(30), <1>1, <3>1, ConcatFacts, NodesFitLater DEF NodesOK
  <2>4. recipes'[Len(recipes) + 1].nodes = nodes
    BY <2>1 DEF create_recipe
  <2> QED BY ZenonT(30), <1>9, <1>11, <1>14, <1>23, <2>1, <2>2, <2>3, <2>4 DEF NewRecipe, b
<1>25. Names(GraphOf(r)) = NodeNames(NodesOf(r)) /\ copied = Copied(d, NodesOf(r)) /\ b = Graph(CurrentRev)
       /\ gone = {JobAt(NodesOf(r), n) : n \in Range(d.changed) \cup d.deleted} /\ old = NodesOf(r)
  BY ZenonT(30), <1>5 DEF a, old, copied, gone, b
<1>26. NodeNames(nodes) = Names(b)
  BY Zenon, <1>9
<1> HIDE DEF r
<1> QED
  BY ZenonT(30), <1>1, <1>3, <1>6, <1>13, <1>18, <1>19, <1>20, <1>21, <1>22, <1>24, <1>25, <1>26 DEF r

\* The three actions that change recipes.
Updates == \E m \in msgs, ack \in BOOLEAN : m.type = "update_recipes" /\ UpdateRecipes(m, ack)

\* A step of ReprocessRecipes that creates a recipe.
Reprocesses ==
  \E m \in msgs, ack \in BOOLEAN, r \in RecipeIds :
    m.type = "reprocess_recipes" /\ ReprocessNew(m, r, ack) /\ started' \subseteq started

\* A step of queue_new_recipe.
Requests ==
  \E s \in started :
    /\ s.type = "request" /\ started' = started \ {s}
    /\ recipes[s.recipe].rev # CurrentRev \/ scenario.names # {}
    /\ \E d \in Delta(recipes[s.recipe].rev) : queue_new_recipe(s, d)
    /\ UNCHANGED <<scenario, msgs, ending, overtaken, left>>

\* Every other step is quiet.
LEMMA NextCases ==
  ASSUME Base, [Next]_vars
  PROVE  (Quiet /\ Base') \/ Updates \/ Reprocesses \/ Requests
<1>1. TablesOK /\ StartedOK
  BY DEF Base, OthersOK
<1>2. ASSUME NEW m \in msgs, Step(m) PROVE Quiet /\ Base'
  BY ZenonT(30), <1>2, RecipeMessageSteps DEF Step
<1>3. ASSUME NEW m \in msgs, NEW ack \in BOOLEAN, Execute(m, ack)
      PROVE  (Quiet /\ Base') \/ Updates \/ Reprocesses
  <2>1. CASE m.type = "update_recipes" /\ UpdateRecipes(m, ack)
    BY Zenon, <2>1 DEF Updates
  <2>2. CASE m.type = "process_recipe_input" /\ ProcessRecipeInput(m, ack)
    BY ZenonT(30), <2>2, RecipeMessageSteps
  <2>3. CASE m.type = "reprocess_recipes" /\ ReprocessRecipes(m, ack)
    <3>1. PICK s \in started :
            /\ started' = started \ {s}
            /\ IF IsLatest(s.recipe) THEN ReprocessNew(m, s.recipe, ack) ELSE ReprocessAgain(m, ack)
      BY ZenonT(30), <2>3 DEF ReprocessRecipes
    <3>2. CASE IsLatest(s.recipe)
      BY ZenonT(30), <2>3, <3>1, <3>2 DEF IsLatest, Latest, Reprocesses
    <3>3. CASE ~IsLatest(s.recipe)
      BY ZenonT(30), <2>3, <3>1, <3>3, ReprocessAgainSteps
    <3> QED BY ZenonT(30), <3>2, <3>3
  <2>4. CASE \/ m.type = "process_job_input" /\ ProcessJobInput(m, ack)
             \/ m.type = "blocked_jobs" /\ BlockedJobs(m, ack)
             \/ m.type = "pending_jobs" /\ PendingJobs(m, ack)
             \/ m.type = "cancel_jobs" /\ CancelJobs(m, ack)
    BY ZenonT(30), <2>4, JobMessageSteps
  <2> QED BY ZenonT(30), <1>3, <2>1, <2>2, <2>3, <2>4 DEF Execute
<1>4. ASSUME FinishRequest PROVE (Quiet /\ Base') \/ Requests
  BY ZenonT(30), <1>4, RequestSteps DEF FinishRequest, Requests
<1>5. ASSUME UNCHANGED vars PROVE Quiet /\ Base'
  <2>1. Quiet
    BY ZenonT(30), <1>1, <1>5, RowsStay DEF vars, Quiet
  <2>2. StartedOK' /\ EndingOK' /\ LeftOK' /\ overtaken' \subseteq JobIds
    BY Zenon, <1>5 DEF vars, Base, OthersOK, StartedOK, EndingOK, LeftOK, JobIds, RecipeIds
  <2> QED BY ZenonT(30), <1>5, <2>1, <2>2, QuietOthers DEF vars
<1> QED BY ZenonT(30), <1>2, <1>3, <1>4, <1>5, RequestSteps, EndSteps DEF Next

\* ReprocessRecipes keeps the invariant.
LEMMA ReprocessKeepsBase ==
  ASSUME Base, Reprocesses
  PROVE  Base'
<1>1. PICK m \in msgs, ack \in BOOLEAN, r \in RecipeIds :
             m.type = "reprocess_recipes" /\ ReprocessNew(m, r, ack) /\ started' \subseteq started
  BY DEF Reprocesses
<1>2. PICK d \in Delta(recipes[r].rev) :
        LET superseded == SupersededJobs(d, NodesOf(r))
        IN  /\ NewRecipe(recipes[r].rev, m.id, {x \in NodesOf(r) : x[1] \in DOMAIN d.identical})
            /\ superseded \subseteq JobIds
            /\ Executed(m, {Msg("process_recipe_input", Len(recipes) + 1, 0)}
                           \cup Msgs("cancel_jobs", superseded, now), ack)
  BY Zenon, <1>1, ReprocessNewFacts
<1> DEFINE superseded == SupersededJobs(d, NodesOf(r))
           new == {Msg("process_recipe_input", Len(recipes) + 1, 0)} \cup Msgs("cancel_jobs", superseded, now)
<1>3. /\ TablesOK' /\ ChainOK' /\ NodesOK' /\ RecipeIds' = RecipeIds \cup {Len(recipes) + 1}
      /\ JobIds \subseteq JobIds'
  BY ZenonT(30), <1>2, NewRecipeKeepsTables
<1>4. /\ UNCHANGED <<scenario, ending, overtaken>> /\ clock' = now
      /\ Len(recipes') = Len(recipes) + 1 /\ Len(recipes) \in Nat
  BY ZenonT(30), <1>1, <1>2, Ids DEF ReprocessNew, NewRecipe, Base
<1>5. now \in 0..MaxClock /\ 0 \in 0..MaxClock
  BY ZenonT(30), ClockFacts DEF Base, OthersOK
<1>6. \A o \in new : MessageOK(o)'
  <2> HIDE DEF superseded
  <2>1. superseded \subseteq JobIds'
    BY ZenonT(30), <1>2, <1>3 DEF superseded
  <2>2. Len(recipes) + 1 \in RecipeIds'
    BY Zenon, <1>3
  <2> QED BY <1>5, <2>1, <2>2 DEF MessageOK, Msg, Msgs, MessageTypes, RecipeMessages, JobMessages
<1>7. Executed(m, new, ack)
  BY Zenon, <1>2
<1> HIDE DEF new
<1>8. MessagesOK' /\ LeftOK'
  BY ZenonT(30), <1>3, <1>4, <1>6, <1>7, ExecutedFacts DEF Base, OthersOK, TablesOK
<1>9. OthersOK'
  <2>1. StartedOK'
    BY <1>1, <1>4 DEF Base, OthersOK, StartedOK
  <2>2. EndingOK'
    BY ZenonT(30), <1>3, <1>4 DEF Base, OthersOK, EndingOK
  <2> QED BY ZenonT(30), <1>3, <1>4, <1>5, <1>8, <2>1, <2>2 DEF Base, OthersOK
<1> QED BY ZenonT(30), <1>3, <1>8, <1>9 DEF Base

\* queue_new_recipe keeps the invariant.
LEMMA RequestKeepsBase ==
  ASSUME Base, Requests
  PROVE  Base'
<1>1. PICK s \in started : /\ s.type = "request" /\ started' = started \ {s}
                           /\ \E d \in Delta(recipes[s.recipe].rev) : queue_new_recipe(s, d)
                           /\ UNCHANGED <<scenario, msgs, ending, overtaken, left>>
  BY Zenon DEF Requests
<1>2. PICK d \in Delta(recipes[s.recipe].rev) : queue_new_recipe(s, d)
  BY Zenon, <1>1
<1>3. PICK nodes : NewRecipe(CurrentRev, 0, nodes)
  BY ZenonT(30), <1>1, <1>2, RequestFacts
<1>4. /\ TablesOK' /\ ChainOK' /\ NodesOK' /\ RecipeIds' = RecipeIds \cup {Len(recipes) + 1}
      /\ JobIds \subseteq JobIds'
  BY ZenonT(30), <1>3, NewRecipeKeepsTables
<1>5. clock' = now /\ Len(recipes') = Len(recipes) + 1 /\ Len(recipes) \in Nat /\ now \in 0..MaxClock
  BY ZenonT(30), <1>2, <1>3, Ids, ClockFacts DEF queue_new_recipe, NewRecipe, Base, OthersOK
<1>6. MessagesOK'
  BY ZenonT(30), <1>1, <1>4 DEF Base, MessagesOK, MessageOK
<1>7. StartedOK' /\ EndingOK' /\ LeftOK' /\ overtaken' \subseteq JobIds'
  <2>1. StartedOK'
    BY <1>1, <1>5 DEF Base, OthersOK, StartedOK
  <2>2. EndingOK' /\ overtaken' \subseteq JobIds'
    BY ZenonT(30), <1>1, <1>4 DEF Base, OthersOK, EndingOK
  <2>3. LeftOK'
    BY ZenonT(30), <1>1 DEF Base, OthersOK, LeftOK
  <2> QED BY <2>1, <2>2, <2>3
<1> QED BY ZenonT(30), <1>4, <1>5, <1>6, <1>7 DEF Base, OthersOK

-----------------------------------------------------------------------------
(* Initial states.                                                         *)

\* The first recipe has all its jobs, and those without parents are queued.
LEMMA InitFacts ==
  ASSUME Init
  PROVE  LET g == Graph(1)
             nodes == recipes[1].nodes
         IN  /\ Len(recipes) = 1 /\ recipes[1] = create_recipe(1, 0, 0, nodes)
             /\ scenario \in Scenarios
             /\ NodeNames(nodes) = Names(g) /\ NodesFit(nodes, g, job_types)
             /\ recipes \in Seq(RecipeRows)
             /\ jobs \in Seq(GoodRows) /\ job_types \in Seq(JobTypes) /\ Len(job_types) = Len(jobs)
             /\ \A j \in JobIds : ~jobs[j].is_superseded /\ jobs[j].status \in {"PENDING", "BLOCKED", "QUEUED"}
             /\ \A j \in JobIds : jobs[j].has_input =>
                  \E n \in Names(g) : j = JobAt(nodes, n) /\ ParentsCompleted(g, nodes, jobs, n)
             /\ \A n \in Names(g) : ParentsCompleted(g, nodes, jobs, n) => jobs[JobAt(nodes, n)].status = "QUEUED"
<1> DEFINE g == Graph(1)
           new == NewJobs(g, Names(g), 0)
           nodes == new.nodes
           rows == new.rows
<1>1. /\ scenario \in Scenarios /\ clock = 0 /\ recipes = <<create_recipe(1, 0, 0, nodes)>>
      /\ jobs = Queued(g, nodes, rows) /\ job_types = new.types
  BY Zenon DEF Init
<1>2. /\ IsFiniteSet(Names(g)) /\ \A n \in Names(g) : /\ Parents(g, n) \subseteq Names(g)
                                                      /\ g.nodes[n].type \in JobTypes /\ n \in AllNames
  BY <1>1, GraphFacts
<1>3. /\ rows \in Seq(GoodRows) /\ Len(rows) \in Nat
      /\ \A i \in 1..Len(rows) : rows[i] = create_job(TRUE, FALSE)
      /\ new.types \in Seq(JobTypes) /\ Len(new.types) = Len(rows)
      /\ \A x \in nodes : /\ x = <<x[1], x[2]>> /\ x[1] \in Names(g)
                          /\ x[2] \in (0+1)..(0+Len(rows))
                          /\ new.types[x[2] - 0] = g.nodes[x[1]].type
      /\ \A x, y \in nodes : (x[1] = y[1] => x = y) /\ (x[2] = y[2] => x = y)
      /\ \A m \in Names(g) : \E x \in nodes : x[1] = m
  <2> HIDE DEF g
  <2>1. FreshJobs(new, g, Names(g), 0, JobTypes)
    BY Zenon, <1>2, NewJobsFacts
  <2> HIDE DEF new
  <2> QED BY Zenon, <2>1 DEF FreshJobs
<1> HIDE DEF g, new
<1>4. NodesFit(nodes, g, job_types)
  <2>1. \A x \in nodes : x \in Names(g) \X (1..Len(rows)) /\ new.types[x[2]] = g.nodes[x[1]].type
    <3> SUFFICES ASSUME NEW x \in nodes
                 PROVE  x \in Names(g) \X (1..Len(rows)) /\ new.types[x[2]] = g.nodes[x[1]].type
      BY Zenon
    <3>1. x = <<x[1], x[2]>> /\ x[1] \in Names(g) /\ x[2] \in 1..Len(rows) /\ new.types[x[2] - 0] = g.nodes[x[1]].type
      BY <1>3
    <3>2. x[2] - 0 = x[2]
      BY <3>1
    <3> QED BY Zenon, <3>1, <3>2
  <2> QED BY ZenonT(30), <1>1, <1>3, <2>1 DEF NodesFit
<1>5. IsNodes(nodes) /\ NodeNames(nodes) = Names(g) /\ JobsOf(nodes) \subseteq DOMAIN rows
  <2>1. IsNodes(nodes) /\ JobsOf(nodes) \subseteq 1..Len(job_types) /\ NodeNames(nodes) \subseteq Names(g)
    BY Zenon, <1>4, FittingNodes
  <2>2. Names(g) \subseteq NodeNames(nodes)
    BY ZenonT(30), <1>3 DEF NodeNames
  <2>3. DOMAIN rows = 1..Len(job_types)
    BY <1>1, <1>3
  <2> QED BY ZenonT(30), <2>1, <2>2, <2>3
<1> HIDE DEF nodes, rows
<1>6. now \in Nat
  BY <1>1, RecipeBoundsAssumption DEF now
<1>7. /\ jobs \in Seq(GoodRows) /\ Len(jobs) = Len(rows)
      /\ \A j \in DOMAIN rows :
           /\ QueuedStep(rows[j], jobs[j])
           /\ jobs[j].has_input => \/ rows[j].has_input
                                   \/ \E n \in Names(g) : /\ j = JobAt(nodes, n)
                                                          /\ ParentsCompleted(g, nodes, rows, n)
      /\ \A n \in Names(g) :
           LET j == JobAt(nodes, n)
           IN  rows[j].status = "PENDING" /\ ~rows[j].is_superseded /\ ParentsCompleted(g, nodes, rows, n)
                 => jobs[j].status = "QUEUED"
  <2>1. rows \in Seq(GoodRows) /\ (\A n \in Names(g) : Parents(g, n) \subseteq Names(g))
    BY ZenonT(30), <1>2, <1>3
  <2> QED BY ZenonT(30), <1>1, <1>5, <1>6, <2>1, QueuedFacts
<1>8. JobIds = DOMAIN rows /\ DOMAIN rows = 1..Len(rows)
  BY <1>3, <1>7 DEF JobIds
<1>9. \A j \in DOMAIN rows : rows[j].status = "PENDING" /\ rows[j].is_superseded = FALSE /\ rows[j].has_input = FALSE
  <2>1. \A j \in DOMAIN rows : rows[j] = create_job(TRUE, FALSE)
    BY ZenonT(30), <1>3, <1>8
  <2> QED BY ZenonT(30), <2>1, NewRowFacts
<1>10. \A j \in JobIds : ~jobs[j].is_superseded /\ jobs[j].status \in {"PENDING", "BLOCKED", "QUEUED"}
  BY ZenonT(30), <1>7, <1>8, <1>9 DEF QueuedStep
<1>11. \A n \in Names(g) : JobAt(nodes, n) \in DOMAIN rows
  BY ZenonT(30), <1>5, JobAtFacts
<1>12. \A n \in Names(g) : ParentsCompleted(g, nodes, rows, n) <=> ParentsCompleted(g, nodes, jobs, n)
  <2>1. \A j \in DOMAIN rows : rows[j].status # "COMPLETED" /\ jobs[j].status # "COMPLETED"
    BY ZenonT(30), <1>8, <1>9, <1>10
  <2> QED BY ZenonT(30), <1>2, <1>11, <2>1 DEF ParentsCompleted
<1>13. \A n \in Names(g) : ParentsCompleted(g, nodes, jobs, n) => jobs[JobAt(nodes, n)].status = "QUEUED"
  BY ZenonT(30), <1>7, <1>9, <1>11, <1>12
<1>14. \A j \in JobIds : jobs[j].has_input =>
         \E n \in Names(g) : j = JobAt(nodes, n) /\ ParentsCompleted(g, nodes, jobs, n)
  BY ZenonT(30), <1>7, <1>8, <1>9, <1>12
<1>15. /\ Len(recipes) = 1 /\ recipes[1] = create_recipe(1, 0, 0, nodes) /\ recipes[1].nodes = nodes
       /\ recipes \in Seq(RecipeRows)
  <2>1. nodes \in SUBSET (AllNames \X Nat)
    BY <1>2, <1>4 DEF NodesFit
  <2>2. create_recipe(1, 0, 0, nodes) \in RecipeRows
    BY <2>1 DEF create_recipe, RecipeRows
  <2>3. create_recipe(1, 0, 0, nodes).nodes = nodes
    BY DEF create_recipe
  <2> QED BY <1>1, <2>2, <2>3
<1> QED BY <1>1, <1>3, <1>4, <1>5, <1>7, <1>10, <1>13, <1>14, <1>15 DEF g

\* The invariant holds initially.
LEMMA InitBase ==
  Init => Base
<1> SUFFICES ASSUME Init PROVE Base
  OBVIOUS
<1>1. /\ Len(recipes) = 1 /\ recipes[1] = create_recipe(1, 0, 0, recipes[1].nodes)
      /\ scenario \in Scenarios
      /\ NodesFit(recipes[1].nodes, Graph(1), job_types)
      /\ recipes \in Seq(RecipeRows)
      /\ jobs \in Seq(GoodRows) /\ job_types \in Seq(JobTypes) /\ Len(job_types) = Len(jobs)
  BY Zenon, InitFacts
<1>2. TablesOK
  BY <1>1 DEF TablesOK
<1>3. RecipeIds = {1}
  <2>1. RecipeIds = 1..Len(recipes) /\ Len(recipes) = 1
    BY ZenonT(30), <1>1, <1>2, Ids
  <2> QED BY <2>1
<1>4. recipes[1].rev = 1 /\ recipes[1].superseded_recipe = 0 /\ recipes[1].is_superseded = FALSE /\ recipes[1].event = 0
  BY <1>1 DEF create_recipe
<1>5. ChainOK
  BY <1>1, <1>3, <1>4 DEF ChainOK
<1>6. NodesOK
  BY ZenonT(30), <1>1, <1>3, <1>4 DEF NodesOK, NodesOf, GraphOf
<1>7. MessagesOK
  <2>1. 0 \in 0..MaxClock
    BY RecipeBoundsAssumption
  <2> QED BY <2>1 DEF Init, Msgs, Msg, MessagesOK, MessageOK, MessageTypes, RecipeMessages, JobMessages
<1>8. OthersOK
  <2>1. scenario.bounds \in [{"requests", "repeats", "requeues"} -> Nat] /\ left = scenario.bounds
    BY ZenonT(30), <1>1, ScenariosAssumption DEF Init
  <2>2. LeftOK
    BY <2>1 DEF LeftOK
  <2>3. clock \in 0..MaxClock
    BY RecipeBoundsAssumption DEF Init
  <2> QED BY ZenonT(30), <2>2, <2>3 DEF Init, OthersOK, StartedOK, EndingOK
<1> QED BY ZenonT(30), <1>2, <1>5, <1>6, <1>7, <1>8 DEF Base

-----------------------------------------------------------------------------
(* Theorems.                                                               *)

\* Every step keeps the invariant.
LEMMA BaseStep ==
  Base /\ [Next]_vars => Base'
BY ZenonT(30), NextCases, UpdateKeepsBase, ReprocessKeepsBase, RequestKeepsBase DEF Updates

\* Types, references, the chain of recipes and the nodes with their jobs are right for
\* any recipe definitions and any number of batches, users, recipes and jobs.
THEOREM BaseInvariant ==
  Spec => []Base
BY InitBase, BaseStep, PTL DEF Spec

\* Every variable has its type.
THEOREM RecipeTypes ==
  Spec => []TypeOK
BY BaseInvariant, BaseImplies, PTL

\* However many batches and users reprocess a recipe at the same time, one recipe is
\* the latest and supersedes the others one after the other: ReprocessRecipes and
\* queue_new_recipe look for a successor once they have the lock.
THEOREM OneLatestRecipe ==
  Spec => []LatestIsUnique
BY BaseInvariant, BaseImplies, PTL

\* A node of a recipe has one job, of its job type, though UpdateRecipes may be executed
\* twice and a recipe may take over nodes under other names.
THEOREM EveryNodeHasItsJob ==
  Spec => []NodesHaveTheirJobs
BY BaseInvariant, BaseImplies, PTL

\* Every node of the definition has a completed job.
AllCompleted(r) ==
  \A n \in Names(GraphOf(r)) : \E x \in NodesOf(r) : x[1] = n /\ jobs[x[2]].status = "COMPLETED"

\* Old nodes and what has completed stay as they are.
LEMMA CompletedStays ==
  ASSUME Base, CompletedRecipeIsComplete, scenario' = scenario, NEW r \in RecipeIds,
         recipes'[r].rev = recipes[r].rev, NodesOf(r) \subseteq recipes'[r].nodes, recipes[r].is_completed,
         \A j \in JobIds : Kept(jobs[j], jobs'[j])
  PROVE  AllCompleted(r)'
<1>1. \A n \in Names(GraphOf(r)) : \E x \in NodesOf(r) : x[1] = n /\ jobs[x[2]].status = "COMPLETED"
  BY Zenon DEF CompletedRecipeIsComplete, GraphOf, NodesOf
<1>2. \A x \in NodesOf(r) : x[2] \in JobIds
  BY Zenon, RecipeJobs DEF Base, JobsOf
<1>3. \A x \in NodesOf(r) : jobs[x[2]].status = "COMPLETED" => jobs'[x[2]].status = "COMPLETED"
  BY Zenon, <1>2 DEF Kept
<1>4. GraphOf(r)' = GraphOf(r) /\ NodesOf(r) \subseteq NodesOf(r)'
  BY DEF GraphOf, Graph, NodesOf
<1> QED BY ZenonT(30), <1>1, <1>3, <1>4 DEF AllCompleted

\* A recipe is marked completed only when every node of its definition has a completed
\* job (UpdateRecipes tests this after it has created the missing ones), and its jobs
\* stay completed.
THEOREM CompletedRecipesAreComplete ==
  Spec => []CompletedRecipeIsComplete
<1>1. Init => CompletedRecipeIsComplete
  <2> SUFFICES ASSUME Init PROVE CompletedRecipeIsComplete
    OBVIOUS
  <2>1. Len(recipes) = 1 /\ recipes[1] = create_recipe(1, 0, 0, recipes[1].nodes) /\ TablesOK
    BY ZenonT(30), InitFacts, InitBase DEF Base
  <2>2. RecipeIds = {1} /\ recipes[1].is_completed = FALSE
    BY <2>1, Ids DEF create_recipe
  <2> QED BY Zenon, <2>2 DEF CompletedRecipeIsComplete
<1>2. ASSUME Base, CompletedRecipeIsComplete, [Next]_vars PROVE CompletedRecipeIsComplete'
  <2> USE <1>2
  <2>0. CompletedRecipeIsComplete' <=> \A r \in RecipeIds' : recipes'[r].is_completed => AllCompleted(r)'
    BY Zenon DEF CompletedRecipeIsComplete, AllCompleted, GraphOf, NodesOf
  <2>1. CASE Quiet
    <3>1. RecipeIds' = RecipeIds /\ recipes' = recipes /\ scenario' = scenario
      BY ZenonT(30), <2>1, QuietKeepsTables DEF Base, Quiet
    <3>2. \A j \in JobIds : Kept(jobs[j], jobs'[j])
      BY ZenonT(30), <2>1 DEF Quiet, RowsStep, RowStep
    <3> QED BY ZenonT(30), <2>0, <3>1, <3>2, CompletedStays DEF NodesOf
  <2>2. CASE Updates
    <3>1. PICK m \in msgs, ack \in BOOLEAN : m.type = "update_recipes" /\ UpdateRecipes(m, ack)
      BY ZenonT(30), <2>2 DEF Updates
    <3> DEFINE r == m.id
               nodes == recipes'[r].nodes
    <3>2. now \in 0..MaxClock /\ scenario' = scenario /\ TablesOK
      BY ZenonT(30), <3>1, ClockFacts DEF Base, OthersOK, UpdateRecipes
    <3>3. /\ r \in RecipeIds
          /\ recipes' \in Seq(RecipeRows) /\ Len(recipes') = Len(recipes)
          /\ \A s \in RecipeIds : s # r => recipes'[s] = recipes[s]
          /\ recipes'[r].rev = recipes[r].rev
          /\ recipes'[r].is_completed <=> recipes[r].is_completed \/ is_completed(nodes, jobs')
          /\ NodesOf(r) \subseteq nodes /\ NodeNames(nodes) = Names(GraphOf(r))
          /\ \A j \in JobIds : InputStep(jobs[j], jobs'[j])
      BY ZenonT(30), <3>1, <3>2, UpdateFacts
    <3>4. RecipeIds' = RecipeIds
      <4>1. RecipeIds = 1..Len(recipes)
        BY Zenon, <3>2, Ids
      <4>2. recipes' \in Seq(RecipeRows) /\ Len(recipes') = Len(recipes)
        BY Zenon, <3>3
      <4>3. DOMAIN recipes' = 1..Len(recipes')
        BY <4>2
      <4> QED BY Zenon, <4>1, <4>2, <4>3 DEF RecipeIds
    <3>5. \A j \in JobIds : Kept(jobs[j], jobs'[j])
      BY Zenon, <3>3 DEF InputStep
    <3>6. ASSUME NEW s \in RecipeIds, recipes'[s].is_completed
          PROVE  AllCompleted(s)'
      <4>1. CASE recipes[s].is_completed
        BY ZenonT(30), <3>2, <3>3, <3>5, <4>1, CompletedStays DEF NodesOf
      <4>2. CASE ~recipes[s].is_completed
        <5>1. s = r /\ is_completed(nodes, jobs')
          BY Zenon, <3>3, <3>6, <4>2
        <5>2. \A x \in nodes : jobs'[x[2]].status = "COMPLETED"
          BY Zenon, <5>1 DEF is_completed, JobsOf
        <5>3. \A n \in Names(GraphOf(r)) : \E x \in nodes : x[1] = n
          BY ZenonT(30), <3>3 DEF NodeNames
        <5>4. GraphOf(s)' = GraphOf(r) /\ NodesOf(s)' = nodes
          BY ZenonT(30), <3>2, <3>3, <5>1 DEF Graph, GraphOf, NodesOf
        <5> QED BY ZenonT(30), <5>2, <5>3, <5>4 DEF AllCompleted
      <4> QED BY ZenonT(30), <4>1, <4>2
    <3> QED BY ZenonT(30), <2>0, <3>4, <3>6
  <2>3. ASSUME NEW rev, NEW event, NEW nodes, NewRecipe(rev, event, nodes)
        PROVE  CompletedRecipeIsComplete'
    <3>1. RecipeIds' = RecipeIds \cup {Len(recipes) + 1}
      BY ZenonT(30), <2>3, NewRecipeKeepsTables
    <3>2. recipes'[Len(recipes) + 1].is_completed = FALSE
      BY <2>3 DEF NewRecipe, create_recipe
    <3>3. /\ scenario' = scenario /\ \A j \in JobIds : Kept(jobs[j], jobs'[j])
          /\ \A s \in RecipeIds : /\ recipes'[s].rev = recipes[s].rev /\ recipes'[s].nodes = recipes[s].nodes
                                  /\ recipes'[s].is_completed = recipes[s].is_completed
      BY Zenon, <2>3 DEF NewRecipe
    <3> QED BY ZenonT(30), <2>0, <3>1, <3>2, <3>3, CompletedStays DEF NodesOf
  <2>4. CASE Reprocesses
    BY ZenonT(30), <2>3, <2>4, ReprocessNewFacts DEF Reprocesses
  <2>5. CASE Requests
    BY ZenonT(30), <2>3, <2>5, RequestFacts DEF Requests
  <2> QED BY ZenonT(30), <2>1, <2>2, <2>4, <2>5, NextCases
<1> QED BY <1>1, <1>2, BaseInvariant, PTL DEF Spec
====
