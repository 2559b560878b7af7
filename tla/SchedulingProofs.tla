---- MODULE SchedulingProofs ----
(***************************************************************************)
(* For any scenario with a finite amount of work: no job type ever has     *)
(* more executions than its limit, though a pass counts them from a list   *)
(* that it read before it had the offers. There are also lemmas here about *)
(* sums of resources over sets.                                            *)
(***************************************************************************)
EXTENDS Scheduling, FiniteSetTheorems, WellFoundedInduction, TLAPS

\* Executions that are active, for the states f of all work.
Active(f) == {w \in Jobs : f[w].st = "active"}

\* Executions that the scheduling nodes sn accepted in this pass.
NewIn(sn) == UNION {sn[n].queued : n \in Nodes}

\* The executions a pass has counted, and the new ones, are within the limits.
Within(new) ==
  \A type \in DOMAIN scenario.limits : OfType(pass.exes, type) + OfType(new, type) <= scenario.limits[type]

\* What the proof needs to know of the records: the fields that it follows.
IsWork(f) == DOMAIN f = Work /\ \A w \in Work : "st" \in DOMAIN f[w]

\* A scheduling node. Its own tasks are not those of executions.
IsNode(x) == {"tasks", "queued"} \subseteq DOMAIN x /\ x.tasks \cap Jobs = {}
IsNodes(sn) == DOMAIN sn = Nodes /\ \A n \in Nodes : IsNode(sn[n])
IsPlan(p) ==
  /\ {"sn", "fulfilled", "avail", "work"} \subseteq DOMAIN p
  /\ IsNodes(p.sn) /\ p.fulfilled \subseteq Nodes /\ p.avail \subseteq Nodes /\ IsWork(p.work)

\* A plan under which every active execution was counted or is new, and the limits
\* are respected.
Good(p) ==
  /\ IsPlan(p)
  /\ NewIn(p.sn) \subseteq Jobs /\ Within(NewIn(p.sn))
  /\ Active(p.work) \subseteq pass.exes \cup NewIn(p.sn)

IsPass ==
  /\ {"pc", "exes", "nodes"} \subseteq DOMAIN pass
  /\ pass.pc \in {"idle", "refresh", "schedule", "allocate", "launch"}

\* The executions that a pass has counted include those that are active until it plans.
Counted ==
  pass.pc \in {"refresh", "schedule"} =>
    pass.exes \subseteq Jobs /\ Active(work) \subseteq pass.exes /\ Within({})

\* The inductive invariant.
IInv ==
  /\ scenario \in Scenarios /\ IsWork(work) /\ IsPass
  /\ LimitsHold /\ Counted
  /\ pass.pc \in {"schedule", "allocate", "launch"} => IsNodes(pass.nodes)
  /\ pass.pc = "schedule" => NewIn(pass.nodes) = {}

-----------------------------------------------------------------------------
(* Counting.                                                               *)

\* Fewer executions do not exceed a limit that more of them respect.
LEMMA FewerOfType ==
  ASSUME scenario \in Scenarios, NEW S, NEW T, S \subseteq T, T \subseteq Jobs, NEW type
  PROVE  OfType(S, type) \in Nat /\ OfType(T, type) \in Nat /\ OfType(S, type) <= OfType(T, type)
<1>. DEFINE A == {w \in S : scenario.work[w].type = type}
            B == {w \in T : scenario.work[w].type = type}
<1>1. IsFiniteSet(Work)
  BY ScenariosAssumption DEF Work
<1>2. A \subseteq B /\ B \subseteq Work
  BY DEF Jobs
<1>3. IsFiniteSet(B)
  BY <1>1, <1>2, FS_Subset
<1>4. IsFiniteSet(A) /\ Cardinality(A) <= Cardinality(B)
  BY <1>2, <1>3, FS_Subset
<1>5. Cardinality(A) \in Nat /\ Cardinality(B) \in Nat
  BY <1>3, <1>4, FS_CardinalityType
<1>. QED
  BY <1>4, <1>5 DEF OfType

\* One more execution counts at most once, and only for its own type.
LEMMA OneMoreOfType ==
  ASSUME scenario \in Scenarios, NEW S, S \subseteq Jobs, NEW v \in Jobs, NEW type
  PROVE  /\ OfType(S \cup {v}, type) <= OfType(S, type) + 1
         /\ scenario.work[v].type # type => OfType(S \cup {v}, type) = OfType(S, type)
<1>. DEFINE A == {w \in S : scenario.work[w].type = type}
            B == {w \in S \cup {v} : scenario.work[w].type = type}
<1>1. IsFiniteSet(Work) /\ A \subseteq Work
  BY ScenariosAssumption DEF Work, Jobs
<1>2. IsFiniteSet(A)
  BY <1>1, FS_Subset
<1>3. Cardinality(A) \in Nat
  BY <1>2, FS_CardinalityType
<1>4. CASE scenario.work[v].type = type
  <2>1. B = A \cup {v}
    BY <1>4
  <2>2. Cardinality(A \cup {v}) = IF v \in A THEN Cardinality(A) ELSE Cardinality(A) + 1
    BY <1>2, FS_AddElement, Zenon
  <2>3. Cardinality(A \cup {v}) <= Cardinality(A) + 1
    BY <1>3, <2>2
  <2>. QED
    BY Zenon, <1>4, <2>1, <2>3 DEF OfType
<1>5. CASE scenario.work[v].type # type
  <2>1. B = A
    BY <1>5
  <2>2. OfType(S \cup {v}, type) = OfType(S, type)
    BY <2>1, Zenon DEF OfType
  <2>3. OfType(S, type) \in Nat
    BY <1>3, Zenon DEF OfType
  <2>. QED
    BY <2>2, <2>3
<1>. QED
  BY <1>4, <1>5

\* The executions of a union do not count for more than those of its parts.
LEMMA UnionOfType ==
  ASSUME scenario \in Scenarios, NEW S, NEW T, S \subseteq Jobs, T \subseteq Jobs, NEW type
  PROVE  OfType(S \cup T, type) <= OfType(S, type) + OfType(T, type)
<1>. DEFINE A == {w \in S : scenario.work[w].type = type}
            B == {w \in T : scenario.work[w].type = type}
            C == {w \in S \cup T : scenario.work[w].type = type}
<1>1. IsFiniteSet(Work) /\ A \subseteq Work /\ B \subseteq Work
  BY ScenariosAssumption DEF Work, Jobs
<1>2. IsFiniteSet(A) /\ IsFiniteSet(B) /\ IsFiniteSet(A \cap B)
  BY <1>1, FS_Subset
<1>3. /\ Cardinality(A) \in Nat /\ Cardinality(B) \in Nat /\ Cardinality(A \cap B) \in Nat
      /\ Cardinality(A \cup B) = Cardinality(A) + Cardinality(B) - Cardinality(A \cap B)
  BY Zenon, <1>2, FS_CardinalityType, FS_Union
<1>4. C = A \cup B
  OBVIOUS
<1>5. OfType(S, type) = Cardinality(A) /\ OfType(T, type) = Cardinality(B)
      /\ OfType(S \cup T, type) = Cardinality(A \cup B)
  BY <1>4, Zenon DEF OfType
<1>. HIDE DEF A, B
<1>. QED
  BY <1>3, <1>5

-----------------------------------------------------------------------------
(* Sums of resources. Total is defined by recursion on a set, so what is   *)
(* said of it is proved for the smallest set that would be an exception.   *)

\* A nonempty set of numbers has a smallest one.
LEMMA Smallest ==
  ASSUME NEW T, T \subseteq Nat, T # {}
  PROVE  \E i \in T : \A j \in T : ~(j < i)
<1>1. PICK i \in T : \A j \in T : ~(<<j, i>> \in OpToRel(<, Nat))
  BY WFMin, NatLessThanWellFounded, Zenon
<1>. QED
  BY <1>1, Zenon DEF OpToRel

\* The element of a set at which MapThenSumSet starts.
First(s) == CHOOSE x \in s : TRUE

\* MapThenSumSet goes through the sets of D like this.
IsSum(h, D, f, n) == h = [s \in D |-> IF s = {} THEN 0 ELSE f[First(s)][n] + h[s \ {First(s)}]]

\* Sets of at most k elements of S.
Small(S, k) == {s \in SUBSET S : Cardinality(s) <= k}

\* It is one of them, and without it the set is smaller.
LEMMA FirstFacts ==
  ASSUME NEW s, IsFiniteSet(s), s # {}
  PROVE  /\ First(s) \in s /\ IsFiniteSet(s \ {First(s)}) /\ Cardinality(s) \in Nat
         /\ Cardinality(s \ {First(s)}) = Cardinality(s) - 1 /\ Cardinality(s \ {First(s)}) \in Nat
<1>1. First(s) \in s
  BY Zenon DEF First
<1>2. IsFiniteSet(s \ {First(s)}) /\ Cardinality(s \ {First(s)}) = Cardinality(s) - 1
  BY <1>1, FS_RemoveElement
<1>. QED
  BY <1>1, <1>2, FS_CardinalityType

\* There is such a function.
LEMMA SumExists ==
  ASSUME NEW f, NEW n, NEW S, IsFiniteSet(S)
  PROVE  \E h : IsSum(h, SUBSET S, f, n)
<1>1. \A s \in SUBSET S : IsFiniteSet(s) /\ Cardinality(s) \in Nat /\ Cardinality(s) <= Cardinality(S)
  BY FS_Subset, FS_CardinalityType
<1>. DEFINE T == {k \in Nat : ~\E h : IsSum(h, Small(S, k), f, n)}
<1>2. T = {}
  <2>1. SUFFICES ASSUME T # {} PROVE FALSE
    BY Zenon
  <2>2. PICK k \in T : \A j \in T : ~(j < k)
    <3>1. T \subseteq Nat
      BY Zenon
    <3>. HIDE DEF T
    <3>. QED
      BY <2>1, <3>1, Smallest, Zenon
  <2>3. k \in Nat /\ ~\E h : IsSum(h, Small(S, k), f, n)
    BY <2>2, Zenon
  <2>4. k # 0
    <3>. DEFINE h == [s \in Small(S, 0) |-> 0]
    <3>1. \A s \in Small(S, 0) : s = {}
      <4>. TAKE s \in Small(S, 0)
      <4>1. IsFiniteSet(s) /\ Cardinality(s) \in Nat /\ Cardinality(s) <= 0
        BY <1>1, Zenon DEF Small
      <4>2. Cardinality(s) = 0
        BY <4>1
      <4>. QED
        BY <4>1, <4>2, FS_EmptySet, Zenon
    <3>2. IsSum(h, Small(S, 0), f, n)
      BY <3>1, Zenon DEF IsSum
    <3>. QED
      BY <2>3, <3>2, Zenon
  <2>5. k - 1 \in Nat /\ k - 1 < k
    BY <2>3, <2>4
  <2>6. PICK h : IsSum(h, Small(S, k - 1), f, n)
    BY <2>2, <2>5, Zenon
  <2>. DEFINE g == [s \in Small(S, k) |-> IF s = {} THEN 0 ELSE f[First(s)][n] + h[s \ {First(s)}]]
  <2>7. \A s \in Small(S, k - 1) : s \in Small(S, k)
    BY <1>1, <2>3, <2>5 DEF Small
  <2>8. \A s \in Small(S, k - 1) : g[s] = h[s]
    BY <2>6, <2>7, Zenon DEF IsSum
  <2>9. \A s \in Small(S, k) : s # {} => s \ {First(s)} \in Small(S, k - 1)
    <3>. TAKE s \in Small(S, k)
    <3>. HAVE s # {}
    <3>1. s \in SUBSET S /\ IsFiniteSet(s) /\ Cardinality(s) <= k
      BY <1>1, Zenon DEF Small
    <3>2. Cardinality(s \ {First(s)}) = Cardinality(s) - 1 /\ Cardinality(s) \in Nat
      BY <3>1, FirstFacts, Zenon
    <3>3. Cardinality(s \ {First(s)}) <= k - 1
      BY <2>3, <3>1, <3>2
    <3>. QED
      BY <3>1, <3>3, Zenon DEF Small
  <2>10. \A s \in Small(S, k) : s # {} => g[s \ {First(s)}] = h[s \ {First(s)}]
    <3>. HIDE DEF g
    <3>. QED
      BY <2>8, <2>9, Zenon
  <2>11. IsSum(g, Small(S, k), f, n)
    <3>1. \A s \in Small(S, k) : g[s] = IF s = {} THEN 0 ELSE f[First(s)][n] + g[s \ {First(s)}]
      BY <2>10, Zenon
    <3>2. g = [s \in Small(S, k) |-> g[s]]
      BY Zenon
    <3>. HIDE DEF g
    <3>. QED
      BY <3>1, <3>2, Zenon DEF IsSum
  <2>. QED
    BY <2>3, <2>11, Zenon
<1>3. Cardinality(S) \in Nat
  BY FS_CardinalityType, Zenon
<1>4. Small(S, Cardinality(S)) = SUBSET S
  <2>1. \A s : s \in Small(S, Cardinality(S)) <=> s \in SUBSET S
    BY <1>1, Zenon DEF Small
  <2>. QED
    BY <2>1
<1>5. Cardinality(S) \notin T
  BY <1>2, Zenon
<1>6. \E h : IsSum(h, Small(S, Cardinality(S)), f, n)
  BY <1>3, <1>5, Zenon
<1>. QED
  BY <1>4, <1>6, Zenon

\* What MapThenSumSet makes of a set does not depend on the sets around it.
LEMMA SumUnique ==
  ASSUME NEW f, NEW n, NEW S, NEW R, NEW g, NEW h, IsSum(g, SUBSET S, f, n), IsSum(h, SUBSET R, f, n),
         NEW s \in SUBSET S, s \in SUBSET R, IsFiniteSet(s)
  PROVE  g[s] = h[s]
<1>. DEFINE T == {k \in Nat : \E u \in SUBSET s : Cardinality(u) = k /\ g[u] # h[u]}
<1>1. \A u \in SUBSET s : IsFiniteSet(u) /\ Cardinality(u) \in Nat
  BY FS_Subset, FS_CardinalityType
<1>2. T = {}
  <2>1. SUFFICES ASSUME T # {} PROVE FALSE
    BY Zenon
  <2>2. PICK k \in T : \A j \in T : ~(j < k)
    <3>1. T \subseteq Nat
      BY Zenon
    <3>. HIDE DEF T
    <3>. QED
      BY <2>1, <3>1, Smallest, Zenon
  <2>3. PICK u \in SUBSET s : Cardinality(u) = k /\ g[u] # h[u]
    BY <2>2, Zenon
  <2>. DEFINE v == u \ {First(u)}
  <2>4. u \in SUBSET S /\ u \in SUBSET R
    BY Zenon
  <2>. HIDE DEF T
  <2>5. /\ g[u] = IF u = {} THEN 0 ELSE f[First(u)][n] + g[v]
        /\ h[u] = IF u = {} THEN 0 ELSE f[First(u)][n] + h[v]
    BY <2>4, Zenon DEF IsSum
  <2>6. u # {} /\ g[v] # h[v]
    BY <2>3, <2>5, Zenon
  <2>7. Cardinality(v) = k - 1 /\ Cardinality(v) \in Nat /\ v \in SUBSET s /\ k \in Nat
    BY <1>1, <2>3, <2>6, FirstFacts
  <2>8. Cardinality(v) < k
    BY <2>7
  <2>9. Cardinality(v) \in T
    BY <2>6, <2>7, Zenon DEF T
  <2>. QED
    BY <2>2, <2>8, <2>9, Zenon
<1>3. Cardinality(s) \in Nat /\ s \in SUBSET s
  BY <1>1, Zenon
<1>. QED
  BY <1>2, <1>3, Zenon

\* What Total is made of.
LEMMA TotalIsSum ==
  ASSUME NEW f, NEW S, IsFiniteSet(S), NEW n \in ResourceNames
  PROVE  \E h : IsSum(h, SUBSET S, f, n) /\ Total(f, S)[n] = h[S]
<1>. DEFINE h == CHOOSE x : IsSum(x, SUBSET S, f, n)
<1>1. IsSum(h, SUBSET S, f, n)
  BY SumExists, Zenon
<1>2. Total(f, S)[n] = h[S]
  BY Zenon DEF Total, MapThenSumSet, MapThenFoldSet, IsSum, First
<1>. QED
  BY <1>1, <1>2, Zenon

\* The sum over no elements, and without the first one.
LEMMA TotalFirst ==
  ASSUME NEW f, NEW S, IsFiniteSet(S), NEW n \in ResourceNames
  PROVE  /\ S = {} => Total(f, S)[n] = 0
         /\ S # {} => Total(f, S)[n] = f[First(S)][n] + Total(f, S \ {First(S)})[n]
<1>1. PICK h : IsSum(h, SUBSET S, f, n) /\ Total(f, S)[n] = h[S]
  BY TotalIsSum, ZenonT(30)
<1>2. h[S] = IF S = {} THEN 0 ELSE f[First(S)][n] + h[S \ {First(S)}]
  BY <1>1, Zenon DEF IsSum
<1>3. ASSUME S # {} PROVE Total(f, S \ {First(S)})[n] = h[S \ {First(S)}]
  <2>. DEFINE R == S \ {First(S)}
  <2>1. IsFiniteSet(R)
    BY <1>3, FirstFacts, Zenon
  <2>. HIDE DEF R
  <2>2. PICK g : IsSum(g, SUBSET R, f, n) /\ Total(f, R)[n] = g[R]
    BY <2>1, TotalIsSum, ZenonT(30)
  <2>3. R \in SUBSET S /\ R \in SUBSET R
    BY Zenon DEF R
  <2>4. g[R] = h[R]
    <3>1. \A s : s \in SUBSET R /\ s \in SUBSET S /\ IsFiniteSet(s) => g[s] = h[s]
      <4>. TAKE s
      <4>. HAVE s \in SUBSET R /\ s \in SUBSET S /\ IsFiniteSet(s)
      <4>1. IsSum(g, SUBSET R, f, n) /\ IsSum(h, SUBSET S, f, n)
        BY <1>1, <2>2, Zenon
      <4>. QED
        BY <4>1, SumUnique, SMTT(30)
    <3>. QED
      BY <2>1, <2>3, <3>1, Zenon
  <2>. QED
    BY <2>2, <2>4, Zenon DEF R
<1>. QED
  BY <1>1, <1>2, <1>3, Zenon

\* Sums of amounts are amounts.
LEMMA TotalType ==
  ASSUME NEW f, NEW S, IsFiniteSet(S), \A x \in S : f[x] \in Amounts
  PROVE  Total(f, S) \in Amounts
<1>. DEFINE Bad(s) == ~\A n \in ResourceNames : Total(f, s)[n] \in Nat
            T == {k \in Nat : \E s \in SUBSET S : Cardinality(s) = k /\ Bad(s)}
<1>1. \A s \in SUBSET S : IsFiniteSet(s) /\ Cardinality(s) \in Nat
  BY FS_Subset, FS_CardinalityType
<1>2. T = {}
  <2>1. SUFFICES ASSUME T # {} PROVE FALSE
    BY Zenon
  <2>2. PICK k \in T : \A j \in T : ~(j < k)
    <3>1. T \subseteq Nat
      BY Zenon
    <3>. HIDE DEF T
    <3>. QED
      BY <2>1, <3>1, Smallest, Zenon
  <2>3. PICK s \in SUBSET S : Cardinality(s) = k /\ Bad(s)
    BY <2>2, Zenon
  <2>. DEFINE r == s \ {First(s)}
  <2>4. PICK n \in ResourceNames : Total(f, s)[n] \notin Nat
    BY <2>3, Zenon
  <2>5. s # {}
    <3>1. 0 \in Nat
      OBVIOUS
    <3>. QED
      BY <1>1, <2>4, <3>1, TotalFirst, Zenon
  <2>6. Total(f, s)[n] = f[First(s)][n] + Total(f, r)[n]
    BY <1>1, <2>5, TotalFirst
  <2>7. First(s) \in S /\ Cardinality(r) \in Nat /\ Cardinality(r) < k /\ r \in SUBSET S
    BY <1>1, <2>3, <2>5, FirstFacts
  <2>8. f[First(s)][n] \in Nat
    BY <2>7, Zenon DEF Amounts
  <2>9. Total(f, r)[n] \notin Nat
    BY <2>4, <2>6, <2>8
  <2>10. Cardinality(r) \in T
    BY <2>7, <2>9, Zenon
  <2>. QED
    BY <2>2, <2>7, <2>10, Zenon
<1>3. S \in SUBSET S
  BY Zenon
<1>4. \A n \in ResourceNames : Total(f, S)[n] \in Nat
  BY <1>1, <1>2, <1>3, Zenon
<1>5. Total(f, S) = [n \in ResourceNames |-> Total(f, S)[n]]
  BY Zenon DEF Total
<1>. QED
  BY <1>4, <1>5, Zenon DEF Amounts

\* The sum may be started anywhere.
AnyFirst(f, S, n) == \A v \in S : Total(f, S)[n] = f[v][n] + Total(f, S \ {v})[n]

\* It does not matter where the sum starts.
LEMMA TotalWithout ==
  ASSUME NEW f, NEW S, IsFiniteSet(S), \A x \in S : f[x] \in Amounts, NEW n \in ResourceNames
  PROVE  AnyFirst(f, S, n)
<1>. DEFINE Bad(s) == ~AnyFirst(f, s, n)
            T == {k \in Nat : \E s \in SUBSET S : Cardinality(s) = k /\ Bad(s)}
<1>1. \A s \in SUBSET S : IsFiniteSet(s) /\ Cardinality(s) \in Nat
  BY FS_Subset, FS_CardinalityType
<1>2. \A s \in SUBSET S : Total(f, s)[n] \in Nat
  <2>. TAKE s \in SUBSET S
  <2>1. Total(f, s) \in Amounts
    BY <1>1, TotalType, Zenon
  <2>. QED
    BY <2>1, Zenon DEF Amounts
<1>3. \A x \in S : f[x][n] \in Nat
  BY Zenon DEF Amounts
<1>4. T = {}
  <2>1. SUFFICES ASSUME T # {} PROVE FALSE
    BY Zenon
  <2>2. PICK k \in T : \A j \in T : ~(j < k)
    <3>1. T \subseteq Nat
      BY Zenon
    <3>. HIDE DEF T
    <3>. QED
      BY <2>1, <3>1, Smallest, Zenon
  <2>3. PICK s \in SUBSET S : Cardinality(s) = k /\ Bad(s)
    BY <2>2, Zenon
  <2>4. PICK u \in s : Total(f, s)[n] # f[u][n] + Total(f, s \ {u})[n]
    BY <2>3, Zenon DEF AnyFirst
  <2>. DEFINE c == First(s)
              sc == s \ {c}
              su == s \ {u}
              suc == su \ {c}
              scu == sc \ {u}
  <2>5. s # {} /\ IsFiniteSet(s) /\ k \in Nat /\ c \in s
    BY <1>1, <2>3, FirstFacts, Zenon
  <2>6. Total(f, s)[n] = f[c][n] + Total(f, sc)[n]
    BY <2>5, TotalFirst
  <2>7. c # u
    BY <2>4, <2>6, Zenon
  <2>8. /\ sc \in SUBSET S /\ su \in SUBSET S /\ scu \in SUBSET S /\ scu = suc
        /\ u \in sc /\ c \in su
    BY <2>5, <2>7
  <2>9. Cardinality(sc) = k - 1 /\ Cardinality(su) = k - 1
    BY <2>3, <2>5, FS_RemoveElement, Zenon
  <2>10. Cardinality(sc) \in Nat /\ Cardinality(su) \in Nat
    BY <1>1, <2>8, Zenon
  <2>11. Cardinality(sc) < k /\ Cardinality(su) < k
    BY <2>5, <2>9
  <2>12. ~Bad(sc) /\ ~Bad(su)
    BY <2>2, <2>8, <2>10, <2>11, Zenon
  <2>13. Total(f, sc)[n] = f[u][n] + Total(f, scu)[n] /\ Total(f, su)[n] = f[c][n] + Total(f, suc)[n]
    BY <2>8, <2>12, Zenon DEF AnyFirst
  <2>14. f[c][n] \in Nat /\ f[u][n] \in Nat /\ Total(f, scu)[n] \in Nat
    BY <1>2, <1>3, <2>5, <2>8, Zenon
  <2>. HIDE DEF c, sc, su, scu, suc
  <2>. QED
    BY <2>4, <2>6, <2>8, <2>13, <2>14 DEF su
<1>5. S \in SUBSET S
  BY Zenon
<1>. QED
  BY <1>1, <1>4, <1>5, Zenon

\* Smaller amounts have a smaller sum.
LEMMA TotalSmaller ==
  ASSUME NEW f, NEW g, NEW S, IsFiniteSet(S), \A x \in S : f[x] \in Amounts /\ g[x] \in Amounts,
         NEW n \in ResourceNames, \A x \in S : f[x][n] <= g[x][n]
  PROVE  Total(f, S)[n] <= Total(g, S)[n]
<1>. DEFINE Bad(s) == ~(Total(f, s)[n] <= Total(g, s)[n])
            T == {k \in Nat : \E s \in SUBSET S : Cardinality(s) = k /\ Bad(s)}
<1>1. \A s \in SUBSET S : IsFiniteSet(s) /\ Cardinality(s) \in Nat
  BY FS_Subset, FS_CardinalityType
<1>2. \A s \in SUBSET S : Total(f, s)[n] \in Nat /\ Total(g, s)[n] \in Nat
  <2>. TAKE s \in SUBSET S
  <2>1. Total(f, s) \in Amounts /\ Total(g, s) \in Amounts
    BY <1>1, TotalType, Zenon
  <2>. QED
    BY <2>1, Zenon DEF Amounts
<1>3. T = {}
  <2>1. SUFFICES ASSUME T # {} PROVE FALSE
    BY Zenon
  <2>2. PICK k \in T : \A j \in T : ~(j < k)
    <3>1. T \subseteq Nat
      BY Zenon
    <3>. HIDE DEF T
    <3>. QED
      BY <2>1, <3>1, Smallest, Zenon
  <2>3. PICK s \in SUBSET S : Cardinality(s) = k /\ Bad(s)
    BY <2>2, Zenon
  <2>. DEFINE c == First(s)
              r == s \ {c}
  <2>4. s # {}
    <3>1. ASSUME s = {} PROVE Total(f, s)[n] = 0 /\ Total(g, s)[n] = 0
      BY <1>1, <3>1, TotalFirst, Zenon
    <3>. QED
      BY <2>3, <3>1
  <2>5. Total(f, s)[n] = f[c][n] + Total(f, r)[n] /\ Total(g, s)[n] = g[c][n] + Total(g, r)[n]
    BY <1>1, <2>4, TotalFirst
  <2>6. c \in S /\ Cardinality(r) \in Nat /\ Cardinality(r) < k /\ r \in SUBSET S
    BY <1>1, <2>3, <2>4, FirstFacts
  <2>7. ~Bad(r)
    BY <2>2, <2>6, Zenon
  <2>8. f[c][n] \in Nat /\ g[c][n] \in Nat /\ f[c][n] <= g[c][n]
    BY <2>6, Zenon DEF Amounts
  <2>9. Total(f, r)[n] \in Nat /\ Total(g, r)[n] \in Nat
    BY <1>2, <2>6, Zenon
  <2>. HIDE DEF c, r
  <2>. QED
    BY <2>3, <2>5, <2>7, <2>8, <2>9
<1>4. S \in SUBSET S
  BY Zenon
<1>. QED
  BY <1>1, <1>3, <1>4, Zenon

\* One element adds its amount at most, if it was there before.
LEMMA TotalAdd ==
  ASSUME NEW f, NEW S, IsFiniteSet(S), NEW v, \A x \in S \cup {v} : f[x] \in Amounts, NEW n \in ResourceNames
  PROVE  /\ Total(f, S)[n] \in Nat /\ f[v][n] \in Nat /\ Total(f, S \cup {v})[n] \in Nat
         /\ Total(f, S \cup {v})[n] <= Total(f, S)[n] + f[v][n]
         /\ Total(f, S)[n] <= Total(f, S \cup {v})[n]
<1>1. IsFiniteSet(S \cup {v})
  BY FS_AddElement, Zenon
<1>2. Total(f, S) \in Amounts /\ Total(f, S \cup {v}) \in Amounts
  BY <1>1, TotalType, Zenon
<1>3. Total(f, S)[n] \in Nat /\ f[v][n] \in Nat /\ Total(f, S \cup {v})[n] \in Nat
  BY <1>2, Zenon DEF Amounts
<1>4. CASE v \in S
  <2>1. S \cup {v} = S
    BY <1>4
  <2>. QED
    BY <1>3, <2>1
<1>5. CASE v \notin S
  <2>1. (S \cup {v}) \ {v} = S /\ v \in S \cup {v}
    BY <1>5
  <2>. DEFINE R == S \cup {v}
  <2>2. \A x \in R : f[x] \in Amounts
    BY Zenon
  <2>. HIDE DEF R
  <2>3. Total(f, R)[n] = f[v][n] + Total(f, R \ {v})[n]
    <3>1. IsFiniteSet(R) /\ v \in R
      BY <1>1, <2>1, Zenon DEF R
    <3>2. AnyFirst(f, R, n)
      BY <2>2, <3>1, TotalWithout, Zenon
    <3>. QED
      BY <3>1, <3>2, Zenon DEF AnyFirst
  <2>. QED
    BY <1>3, <2>1, <2>3 DEF R
<1>. QED
  BY <1>4, <1>5

\* The sum over two sets is at least the sum over their union.
LEMMA TotalUnion ==
  ASSUME NEW f, NEW A, NEW B, IsFiniteSet(A), IsFiniteSet(B), \A x \in A \cup B : f[x] \in Amounts,
         NEW n \in ResourceNames
  PROVE  /\ Total(f, A)[n] \in Nat /\ Total(f, B)[n] \in Nat /\ Total(f, A \cup B)[n] \in Nat
         /\ Total(f, A \cup B)[n] <= Total(f, A)[n] + Total(f, B)[n]
         /\ Total(f, A)[n] <= Total(f, A \cup B)[n]
<1>. DEFINE Bad(s) == ~(/\ Total(f, A \cup s)[n] <= Total(f, A)[n] + Total(f, s)[n]
                        /\ Total(f, A)[n] <= Total(f, A \cup s)[n])
            T == {k \in Nat : \E s \in SUBSET B : Cardinality(s) = k /\ Bad(s)}
<1>1. \A s \in SUBSET B : IsFiniteSet(s) /\ Cardinality(s) \in Nat /\ IsFiniteSet(A \cup s)
  BY FS_Subset, FS_CardinalityType, FS_Union, Zenon
<1>2. \A s \in SUBSET B : Total(f, A)[n] \in Nat /\ Total(f, s)[n] \in Nat /\ Total(f, A \cup s)[n] \in Nat
  <2>. TAKE s \in SUBSET B
  <2>1. Total(f, A) \in Amounts /\ Total(f, s) \in Amounts /\ Total(f, A \cup s) \in Amounts
    BY <1>1, TotalType, Zenon
  <2>. QED
    BY <2>1, Zenon DEF Amounts
<1>3. T = {}
  <2>1. SUFFICES ASSUME T # {} PROVE FALSE
    BY Zenon
  <2>2. PICK k \in T : \A j \in T : ~(j < k)
    <3>1. T \subseteq Nat
      BY Zenon
    <3>. HIDE DEF T
    <3>. QED
      BY <2>1, <3>1, Smallest, Zenon
  <2>3. PICK s \in SUBSET B : Cardinality(s) = k /\ Bad(s)
    BY <2>2, Zenon
  <2>. DEFINE c == First(s)
              r == s \ {c}
  <2>4. s # {}
    <3>1. ASSUME s = {} PROVE Total(f, s)[n] = 0 /\ A \cup s = A
      <4>1. IsFiniteSet(s) /\ \A x \in s : f[x] \in Amounts
        BY <1>1, Zenon
      <4>2. Total(f, s)[n] = 0
        BY <3>1, <4>1, TotalFirst, Zenon
      <4>. QED
        BY <3>1, <4>2
    <3>2. CASE s = {}
      <4>1. Total(f, s)[n] = 0 /\ A \cup s = A
        BY <3>1, <3>2, Zenon
      <4>2. Total(f, A \cup s)[n] = Total(f, A)[n] /\ Total(f, A)[n] \in Nat
        BY <1>2, <4>1, Zenon
      <4>. QED
        BY <2>3, <4>1, <4>2
    <3>. QED
      BY <3>2, Zenon
  <2>5. Total(f, s)[n] = f[c][n] + Total(f, r)[n]
    <3>. HIDE DEF T, Bad
    <3>1. IsFiniteSet(s)
      BY <1>1, Zenon
    <3>. QED
      BY <2>4, <3>1, TotalFirst
  <2>6. c \in B /\ Cardinality(r) \in Nat /\ Cardinality(r) < k /\ r \in SUBSET B
    <3>. HIDE DEF T, Bad
    <3>1. /\ c \in s /\ Cardinality(s) \in Nat
          /\ Cardinality(r) = Cardinality(s) - 1 /\ Cardinality(r) \in Nat
      BY <1>1, <2>4, FirstFacts, Zenon
    <3>2. Cardinality(s) = k /\ r \in SUBSET B
      BY <2>3, Zenon
    <3>. HIDE DEF c, r
    <3>. QED
      BY <3>1, <3>2
  <2>7. ~Bad(r)
    BY <2>2, <2>6, Zenon
  <2>8. A \cup s = (A \cup r) \cup {c}
    BY <1>1, <2>4, FirstFacts, Zenon
  <2>9. /\ f[c][n] \in Nat /\ Total(f, (A \cup r) \cup {c})[n] \in Nat
        /\ Total(f, (A \cup r) \cup {c})[n] <= Total(f, A \cup r)[n] + f[c][n]
        /\ Total(f, A \cup r)[n] <= Total(f, (A \cup r) \cup {c})[n]
    <3>. DEFINE Ar == A \cup r
    <3>1. IsFiniteSet(Ar) /\ \A x \in Ar \cup {c} : f[x] \in Amounts
      BY <1>1, <2>6, Zenon
    <3>. HIDE DEF Ar
    <3>2. /\ f[c][n] \in Nat /\ Total(f, Ar \cup {c})[n] \in Nat
          /\ Total(f, Ar \cup {c})[n] <= Total(f, Ar)[n] + f[c][n]
          /\ Total(f, Ar)[n] <= Total(f, Ar \cup {c})[n]
      BY <3>1, TotalAdd
    <3>. QED
      BY <3>2 DEF Ar
  <2>10. Total(f, A)[n] \in Nat /\ Total(f, r)[n] \in Nat /\ Total(f, A \cup r)[n] \in Nat
    BY <1>2, <2>6, Zenon
  <2>. HIDE DEF c, r
  <2>. QED
    BY <2>3, <2>5, <2>7, <2>8, <2>9, <2>10
<1>4. B \in SUBSET B
  BY Zenon
<1>. QED
  BY <1>1, <1>2, <1>3, <1>4, Zenon

\* Fewer elements have a smaller sum.
LEMMA TotalFewer ==
  ASSUME NEW f, NEW S, NEW R, R \subseteq S, IsFiniteSet(S), \A x \in S : f[x] \in Amounts, NEW n \in ResourceNames
  PROVE  Total(f, R)[n] \in Nat /\ Total(f, S)[n] \in Nat /\ Total(f, R)[n] <= Total(f, S)[n]
<1>1. IsFiniteSet(R) /\ R \cup S = S
  BY FS_Subset
<1>2. \A x \in R \cup S : f[x] \in Amounts
  BY <1>1, Zenon
<1>. QED
  BY <1>1, <1>2, TotalUnion

-----------------------------------------------------------------------------
(* Scheduling nodes.                                                       *)

\* A scheduling node accepts a task of Scale's own.
LEMMA AcceptTask ==
  ASSUME NEW s, IsNode(s), NEW need, NEW w, w \notin Jobs
  PROVE  IsNode(accept_task(s, need, w)) /\ accept_task(s, need, w).queued = s.queued
BY DEF IsNode, accept_task, Allocate

\* A scheduling node accepts the next task of an execution.
LEMMA AcceptNextTask ==
  ASSUME NEW s, IsNode(s), NEW need, NEW w
  PROVE  /\ IsNode(accept_job_exe_next_task(s, need, w))
         /\ accept_job_exe_next_task(s, need, w).queued = s.queued
BY Zenon DEF IsNode, accept_job_exe_next_task, Allocate

\* A scheduling node accepts a new execution.
LEMMA AcceptNewExe ==
  ASSUME NEW s, IsNode(s), NEW r, NEW w
  PROVE  IsNode(accept_new_job_exe(s, r, w)) /\ accept_new_job_exe(s, r, w).queued = s.queued \cup {w}
BY DEF IsNode, accept_new_job_exe, Allocate

\* A new scheduling node has no work.
LEMMA NewNodeFacts ==
  ASSUME NEW a, NEW b, NEW c, NEW d
  PROVE  IsNode(NewSchedulingNode(a, b, c, d)) /\ NewSchedulingNode(a, b, c, d).queued = {}
BY DEF IsNode, NewSchedulingNode

\* Adding the executions, or going back on them, leaves a scheduling node.
LEMMA AddOrReset ==
  ASSUME NEW s, IsNode(s), NEW need
  PROVE  IsNode(add_scheduled_job_exes(s)) /\ IsNode(reset_new_job_exes(s, need))
BY DEF IsNode, add_scheduled_job_exes, reset_new_job_exes

\* Offers that are not enough may only take tasks away.
LEMMA AllocatedFacts ==
  ASSUME NEW s, IsNode(s), NEW res, NEW need, NEW offers, NEW ready
  PROVE  IsNode(add_allocated_offers(s, res, need, offers, ready))
<1>. DEFINE exes == Total(need, s.running \cap ready)
            x == [s EXCEPT !.running = {}, !.allocated = subtract(@, exes), !.remaining = add(@, exes)]
            Drop(y) == [y EXCEPT !.tasks = {}, !.allocated = NoResources, !.remaining = s.offered]
            Give(y) == [y EXCEPT !.offers = offers]
<1>1. IsNode(x)
  BY DEF IsNode
<1>2. \A y : IsNode(y) => IsNode(Drop(y)) /\ IsNode(Give(y))
  BY DEF IsNode
<1>3. PICK first \in {s, x} : \E second \in {first, Drop(first)} :
        add_allocated_offers(s, res, need, offers, ready) = Give(second)
  BY Zenon DEF add_allocated_offers
<1>. HIDE DEF x, Drop, Give
<1>. QED
  BY <1>1, <1>2, <1>3, Zenon

-----------------------------------------------------------------------------
(* Planning.                                                               *)

\* A plan that has no more executions than a good one, all of them counted, is good.
LEMMA GoodKept ==
  ASSUME NEW p, Good(p), NEW q, IsPlan(q), NewIn(q.sn) = NewIn(p.sn), Active(q.work) \subseteq Active(p.work)
  PROVE  Good(q)
BY Zenon DEF Good

\* A scheduling node is replaced by another one.
LEMMA NodeReplaced ==
  ASSUME NEW sn, IsNodes(sn), NEW n, NEW x, n \in Nodes => IsNode(x)
  PROVE  LET new == [sn EXCEPT ![n] = x]
         IN  /\ IsNodes(new)
             /\ n \in Nodes /\ x.queued = sn[n].queued => NewIn(new) = NewIn(sn)
             /\ n \notin Nodes => NewIn(new) = NewIn(sn)
<1>. DEFINE new == [sn EXCEPT ![n] = x]
<1>1. DOMAIN new = Nodes /\ (n \in Nodes => new[n] = x) /\ \A m \in Nodes : m # n => new[m] = sn[m]
  BY Zenon DEF IsNodes
<1>. HIDE DEF new
<1>2. IsNodes(new)
  BY <1>1, Zenon DEF IsNodes
<1>3. n \notin Nodes => NewIn(new) = NewIn(sn)
  BY <1>1 DEF NewIn
<1>4. n \in Nodes /\ x.queued = sn[n].queued => NewIn(new) = NewIn(sn)
  BY <1>1 DEF NewIn
<1>. QED
  BY <1>2, <1>3, <1>4, Zenon DEF new

\* A scheduling node has one more execution.
LEMMA NodeGetsExe ==
  ASSUME NEW sn, IsNodes(sn), NEW n \in Nodes, NEW x, IsNode(x), NEW w, x.queued = sn[n].queued \cup {w},
         NEW new, new = [sn EXCEPT ![n] = x]
  PROVE  IsNodes(new) /\ NewIn(new) = NewIn(sn) \cup {w}
<1>1. DOMAIN new = Nodes /\ new[n] = x /\ \A m \in Nodes : m # n => new[m] = sn[m]
  BY Zenon DEF IsNodes
<1>2. IsNodes(new)
  BY <1>1, Zenon DEF IsNodes
<1>3. NewIn(new) = NewIn(sn) \cup {w}
  BY <1>1 DEF NewIn
<1>. QED
  BY <1>2, <1>3, Zenon

\* A field of a piece of work is replaced that does not say whether it is active.
LEMMA FieldReplaced ==
  ASSUME NEW f, IsWork(f), NEW w, NEW x, w \in Work => "st" \in DOMAIN x /\ x.st = f[w].st,
         NEW g, g = [f EXCEPT ![w] = x]
  PROVE  IsWork(g) /\ Active(g) = Active(f)
<1>1. DOMAIN g = Work /\ \A u \in Work : g[u] = IF u = w THEN x ELSE f[u]
  BY Zenon DEF IsWork
<1>2. \A u \in Work : "st" \in DOMAIN g[u] /\ g[u].st = f[u].st
  BY <1>1, Zenon DEF IsWork
<1>. QED
  BY <1>1, <1>2, Zenon DEF IsWork, Active, Jobs

\* Another field of a plan is replaced.
LEMMA OtherField ==
  ASSUME NEW p, Good(p), NEW n, NEW S \in SUBSET Nodes, NEW v
  PROVE  Good([p EXCEPT !.fulfilled = @ \ {n}]) /\ Good([p EXCEPT !.avail = S]) /\ Good([p EXCEPT !.sys = v])
<1>. DEFINE a == [p EXCEPT !.fulfilled = @ \ {n}]
            b == [p EXCEPT !.avail = S]
            c == [p EXCEPT !.sys = v]
<1>1. IsPlan(p)
  BY Zenon DEF Good
<1>2. /\ DOMAIN a = DOMAIN p /\ a.sn = p.sn /\ a.work = p.work /\ a.avail = p.avail
      /\ a.fulfilled = p.fulfilled \ {n}
  BY <1>1, Zenon DEF IsPlan
<1>3. /\ DOMAIN b = DOMAIN p /\ b.sn = p.sn /\ b.work = p.work /\ b.avail = S
      /\ b.fulfilled = p.fulfilled
  BY <1>1, Zenon DEF IsPlan
<1>4. /\ DOMAIN c = DOMAIN p /\ c.sn = p.sn /\ c.work = p.work /\ c.avail = p.avail
      /\ c.fulfilled = p.fulfilled
  BY <1>1, Zenon DEF IsPlan
<1>. HIDE DEF a, b, c
<1>5. IsPlan(a) /\ IsPlan(b) /\ IsPlan(c)
  BY <1>1, <1>2, <1>3, <1>4, Zenon DEF IsPlan
<1>6. Good(a) /\ Good(b) /\ Good(c)
  BY <1>2, <1>3, <1>4, <1>5, GoodKept, Zenon
<1>. QED
  BY <1>6, Zenon DEF a, b, c

\* The scheduling nodes are replaced.
LEMMA NodesReplaced ==
  ASSUME NEW p, IsPlan(p), NEW sn, IsNodes(sn), NEW q, q = [p EXCEPT !.sn = sn]
  PROVE  IsPlan(q) /\ q.sn = sn /\ q.work = p.work
<1>1. DOMAIN q = DOMAIN p /\ q.sn = sn /\ q.work = p.work /\ q.avail = p.avail /\ q.fulfilled = p.fulfilled
  BY Zenon DEF IsPlan
<1>. QED
  BY <1>1, Zenon DEF IsPlan

\* The work is replaced.
LEMMA WorkReplaced ==
  ASSUME NEW p, IsPlan(p), NEW f, IsWork(f), NEW q, q = [p EXCEPT !.work = f]
  PROVE  IsPlan(q) /\ q.sn = p.sn /\ q.work = f
<1>1. DOMAIN q = DOMAIN p /\ q.sn = p.sn /\ q.work = f /\ q.avail = p.avail /\ q.fulfilled = p.fulfilled
  BY Zenon DEF IsPlan
<1>. QED
  BY <1>1, Zenon DEF IsPlan

\* A task of a node is planned or not.
LEMMA NodeTaskGood ==
  ASSUME NEW p, Good(p), NEW w, w \notin Jobs, NEW q \in NodeTaskStep(p, w)
  PROVE  Good(q)
<1>. DEFINE n == work[w].node
            f == [p.work EXCEPT ![w].agent = nodes[n].agent]
            made == [p EXCEPT !.work = f]
            x == accept_task(p.sn[n], Need, w)
            sn == [p.sn EXCEPT ![n] = x]
<1>1. q = [made EXCEPT !.sn[n] = accept_task(@, Need, w)] \/ q = [made EXCEPT !.fulfilled = @ \ {n}]
  BY DEF NodeTaskStep
<1>2. IsPlan(p) /\ IsNodes(p.sn) /\ IsWork(p.work)
  BY Zenon DEF Good, IsPlan
<1>3. IsWork(f) /\ Active(f) = Active(p.work)
  <2>. DEFINE y == [p.work[w] EXCEPT !.agent = nodes[n].agent]
  <2>1. w \in Work => "st" \in DOMAIN y /\ y.st = p.work[w].st
    BY <1>2, Zenon DEF IsWork
  <2>2. f = [p.work EXCEPT ![w] = y]
    OBVIOUS
  <2>. HIDE DEF f, y
  <2>. QED
    BY <1>2, <2>1, <2>2, FieldReplaced
<1>. HIDE DEF f
<1>4. IsPlan(made) /\ made.sn = p.sn /\ made.work = f
  BY ZenonT(30), <1>2, <1>3, WorkReplaced
<1>. HIDE DEF made
<1>5. Good(made)
  BY <1>3, <1>4, GoodKept, Zenon
<1>6. CASE q = [made EXCEPT !.fulfilled = @ \ {n}]
  BY <1>5, <1>6, OtherField, Zenon
<1>7. CASE q = [made EXCEPT !.sn[n] = accept_task(@, Need, w)]
  <2>1. n \in Nodes => IsNode(x) /\ x.queued = p.sn[n].queued
    BY <1>2, AcceptTask, Zenon DEF IsNodes
  <2>. HIDE DEF x
  <2>2. IsNodes(sn) /\ NewIn(sn) = NewIn(p.sn)
    BY <1>2, <2>1, NodeReplaced, Zenon
  <2>3. q = [made EXCEPT !.sn = sn]
    BY <1>4, <1>7, Zenon DEF x
  <2>. HIDE DEF sn
  <2>4. IsPlan(q) /\ q.sn = sn /\ q.work = f
    BY <1>4, <2>2, <2>3, NodesReplaced
  <2>. QED
    BY <1>3, <2>2, <2>4, GoodKept, Zenon
<1>. QED
  BY <1>1, <1>6, <1>7, Zenon

\* The next task of an execution is planned or not.
LEMMA NextTaskGood ==
  ASSUME NEW p, Good(p), NEW w, NEW q \in NextTaskStep(p, w)
  PROVE  Good(q)
<1>. DEFINE n == work[w].node
            x == accept_job_exe_next_task(p.sn[n], Need, w)
            sn == [p.sn EXCEPT ![n] = x]
<1>1. q \in {[p EXCEPT !.sn = sn], [p EXCEPT !.fulfilled = @ \ {n}]}
  BY Zenon DEF NextTaskStep
<1>2. IsPlan(p) /\ IsNodes(p.sn) /\ IsWork(p.work)
  BY Zenon DEF Good, IsPlan
<1>3. n \in Nodes => IsNode(x) /\ x.queued = p.sn[n].queued
  BY <1>2, AcceptNextTask, Zenon DEF IsNodes
<1>. HIDE DEF x
<1>4. IsNodes(sn) /\ NewIn(sn) = NewIn(p.sn)
  BY <1>2, <1>3, NodeReplaced, Zenon
<1>. HIDE DEF sn
<1>5. CASE q = [p EXCEPT !.sn = sn]
  <2>1. IsPlan(q) /\ q.sn = sn /\ q.work = p.work
    BY <1>2, <1>4, <1>5, NodesReplaced
  <2>. QED
    BY <1>4, <2>1, GoodKept, Zenon
<1>6. CASE q = [p EXCEPT !.fulfilled = @ \ {n}]
  BY <1>6, OtherField, Zenon
<1>. QED
  BY <1>1, <1>5, <1>6, Zenon

\* A task of a service is planned or not.
LEMMA SystemTaskGood ==
  ASSUME NEW p, Good(p), NEW w, w \notin Jobs, NEW q \in SystemTaskStep(p, w)
  PROVE  Good(q)
<1>1. PICK n : \/ q = [p EXCEPT !.sys = FALSE]
               \/ q = [p EXCEPT !.sn[n] = accept_task(@, Need, w), !.work[w].agent = p.sn[n].agent,
                                !.work[w].node = n]
  BY Zenon DEF SystemTaskStep
<1>. DEFINE x == accept_task(p.sn[n], Need, w)
            sn == [p.sn EXCEPT ![n] = x]
            f == [p.work EXCEPT ![w].agent = p.sn[n].agent]
            g == [f EXCEPT ![w].node = n]
            a == [p EXCEPT !.sn = sn]
            b == [a EXCEPT !.work = f]
            c == [b EXCEPT !.work = g]
<1>2. IsPlan(p) /\ IsNodes(p.sn) /\ IsWork(p.work)
  BY Zenon DEF Good, IsPlan
<1>3. n \in Nodes => IsNode(x) /\ x.queued = p.sn[n].queued
  BY <1>2, AcceptTask, Zenon DEF IsNodes
<1>4. CASE q = [p EXCEPT !.sys = FALSE]
  BY <1>4, OtherField, Zenon
<1>5. CASE q = [p EXCEPT !.sn[n] = accept_task(@, Need, w), !.work[w].agent = p.sn[n].agent, !.work[w].node = n]
  <2>1. a.work = p.work /\ b.work = f
    BY <1>2, Zenon DEF IsPlan
  <2>2. q = c
    BY <1>5, <2>1, Zenon
  <2>. HIDE DEF x
  <2>3. IsNodes(sn) /\ NewIn(sn) = NewIn(p.sn)
    BY <1>2, <1>3, NodeReplaced, Zenon
  <2>4. IsWork(f) /\ Active(f) = Active(p.work)
    <3>. DEFINE y == [p.work[w] EXCEPT !.agent = p.sn[n].agent]
    <3>1. w \in Work => "st" \in DOMAIN y /\ y.st = p.work[w].st
      BY <1>2, Zenon DEF IsWork
    <3>2. f = [p.work EXCEPT ![w] = y]
      OBVIOUS
    <3>. HIDE DEF f, y
    <3>. QED
      BY <1>2, <3>1, <3>2, FieldReplaced
  <2>. HIDE DEF f, sn
  <2>5. IsWork(g) /\ Active(g) = Active(p.work)
    <3>. DEFINE y == [f[w] EXCEPT !.node = n]
    <3>1. w \in Work => "st" \in DOMAIN y /\ y.st = f[w].st
      BY <2>4, Zenon DEF IsWork
    <3>2. g = [f EXCEPT ![w] = y]
      OBVIOUS
    <3>. HIDE DEF g, y
    <3>3. IsWork(f)
      BY <2>4, Zenon
    <3>4. IsWork(g) /\ Active(g) = Active(f)
      BY Zenon, <3>1, <3>2, <3>3, FieldReplaced
    <3>. QED
      BY <2>4, <3>4, Zenon
  <2>. HIDE DEF g
  <2>6. IsPlan(a) /\ a.sn = sn
    <3>1. a = [p EXCEPT !.sn = sn]
      BY Zenon
    <3>2. IsPlan(p) /\ IsNodes(sn)
      BY <1>2, <2>3, Zenon
    <3>. HIDE DEF a
    <3>. QED
      BY <3>1, <3>2, NodesReplaced
  <2>. HIDE DEF a
  <2>7. IsPlan(b) /\ b.sn = sn
    BY <2>4, <2>6, WorkReplaced, Zenon
  <2>. HIDE DEF b
  <2>8. IsPlan(c) /\ c.sn = sn /\ c.work = g
    BY ZenonT(30), <2>5, <2>7, WorkReplaced
  <2>. QED
    BY <2>2, <2>3, <2>5, <2>8, GoodKept, Zenon
<1>. QED
  BY <1>1, <1>4, <1>5, Zenon

\* A node that is the best one is one of those that are compared.
LEMMA BestFacts == ASSUME NEW S, NEW rate, DOMAIN rate = S PROVE Best(rate) \subseteq S
BY Zenon DEF Best

\* No node, or one that was available, is reserved.
LEMMA ReserveGood ==
  ASSUME NEW p, Good(p), NEW w, NEW q \in Reserve(p, w)
  PROVE  Good(q)
<1>1. q = p \/ \E n : q = [p EXCEPT !.avail = @ \ {n}]
  BY Zenon DEF Reserve
<1>2. ASSUME NEW n, q = [p EXCEPT !.avail = @ \ {n}] PROVE Good(q)
  <2>1. p.avail \ {n} \in SUBSET Nodes /\ q = [p EXCEPT !.avail = p.avail \ {n}]
    BY <1>2, Zenon DEF Good, IsPlan
  <2>. QED
    BY Zenon, <2>1, OtherField
<1>. QED
  BY <1>1, <1>2, Zenon

\* A new execution is within the limits if the limit of its type has not been reached.
LEMMA OneMoreWithin ==
  ASSUME scenario \in Scenarios, pass.exes \subseteq Jobs, NEW p, Good(p), NEW w \in Jobs, ~LimitReached(p, w)
  PROVE  Within(NewIn(p.sn) \cup {w})
<1>. DEFINE new == NewIn(p.sn)
<1>1. new \subseteq Jobs /\ Within(new)
  BY Zenon DEF Good
<1>2. SUFFICES ASSUME NEW type \in DOMAIN scenario.limits
               PROVE  OfType(pass.exes, type) + OfType(new \cup {w}, type) <= scenario.limits[type]
  BY Zenon DEF Within
<1>3. ~(scenario.work[w].type = type /\ OfType(pass.exes, type) + OfType(new, type) >= scenario.limits[type])
  BY Zenon DEF LimitReached, NewIn
<1>. HIDE DEF new
<1>4. OfType(pass.exes, type) + OfType(new, type) <= scenario.limits[type]
  BY <1>1, Zenon DEF Within
<1>5. scenario.limits[type] \in Nat
  BY ScenariosAssumption, Zenon
<1>6. OfType(pass.exes, type) \in Nat /\ OfType(new, type) \in Nat /\ OfType(new \cup {w}, type) \in Nat
  <2>1. new \cup {w} \subseteq Jobs /\ pass.exes \subseteq pass.exes /\ new \subseteq new \cup {w}
    BY <1>1, Zenon
  <2>. QED
    BY <2>1, FewerOfType, Zenon
<1>7. /\ OfType(new \cup {w}, type) <= OfType(new, type) + 1
      /\ scenario.work[w].type # type => OfType(new \cup {w}, type) = OfType(new, type)
  BY <1>1, OneMoreOfType, Zenon
<1>. QED
  BY <1>3, <1>4, <1>5, <1>6, <1>7

\* An execution of the queue is started or not.
LEMMA QueueGood ==
  ASSUME scenario \in Scenarios, pass.exes \subseteq Jobs, NEW p, Good(p), NEW w \in Jobs, NEW q \in QueueStep(p, w)
  PROVE  Good(q)
<1>. DEFINE fit == {n \in p.avail : Fits(p.sn[n], Need[w])}
            rate == [n \in fit |-> _score_resources_for_scheduling(p.sn[n], Need[w], JobTypes)]
<1>1. \/ q = p
      \/ q \in Reserve(p, w)
      \/ /\ ~LimitReached(p, w)
         /\ \E n \in Best(rate) :
              q = [p EXCEPT !.sn[n] = accept_new_job_exe(@, Need[w], w), !.work[w] = Started(w, p, n)]
  BY Zenon DEF QueueStep, _schedule_new_job_exe
<1>2. CASE q \in Reserve(p, w)
  BY <1>2, ReserveGood, Zenon
<1>3. ASSUME ~LimitReached(p, w), NEW n \in Best(rate),
             q = [p EXCEPT !.sn[n] = accept_new_job_exe(@, Need[w], w), !.work[w] = Started(w, p, n)]
      PROVE  Good(q)
  <2>1. IsPlan(p) /\ IsNodes(p.sn) /\ IsWork(p.work) /\ NewIn(p.sn) \subseteq Jobs
    BY Zenon DEF Good, IsPlan
  <2>2. n \in Nodes /\ IsNode(p.sn[n])
    <3>1. DOMAIN rate = fit
      BY Zenon
    <3>. HIDE DEF rate, fit
    <3>2. n \in fit
      BY <1>3, <3>1, BestFacts, Zenon
    <3>. QED
      BY <2>1, <3>2, Zenon DEF fit, IsPlan, IsNodes
  <2>. DEFINE x == accept_new_job_exe(p.sn[n], Need[w], w)
              sn == [p.sn EXCEPT ![n] = x]
              f == [p.work EXCEPT ![w] = Started(w, p, n)]
              a == [p EXCEPT !.sn = sn]
              b == [a EXCEPT !.work = f]
  <2>3. a.work = p.work
    BY <2>1, Zenon DEF IsPlan
  <2>4. q = b
    BY <1>3, <2>3, Zenon
  <2>5. IsNode(x) /\ x.queued = p.sn[n].queued \cup {w}
    BY <2>2, AcceptNewExe, Zenon
  <2>. HIDE DEF x
  <2>6. IsNodes(sn) /\ NewIn(sn) = NewIn(p.sn) \cup {w}
    <3>1. sn = [p.sn EXCEPT ![n] = x]
      OBVIOUS
    <3>2. IsNodes(p.sn)
      BY <2>1, Zenon
    <3>. HIDE DEF sn
    <3>. QED
      BY <2>2, <2>5, <3>1, <3>2, NodeGetsExe, SMTT(30)
  <2>7. IsWork(f) /\ Active(f) \subseteq Active(p.work) \cup {w}
    <3>1. DOMAIN f = Work /\ \A u \in Work : f[u] = IF u = w THEN Started(w, p, n) ELSE p.work[u]
      BY <2>1, Zenon DEF IsWork
    <3>2. "st" \in DOMAIN Started(w, p, n)
      BY DEF Started
    <3>. HIDE DEF f
    <3>3. IsWork(f)
      BY <2>1, <3>1, <3>2, Zenon DEF IsWork
    <3>. QED
      BY <3>1, <3>3, Zenon DEF Active, Jobs
  <2>. HIDE DEF sn, f
  <2>8. IsPlan(a) /\ a.sn = sn
    <3>1. a = [p EXCEPT !.sn = sn]
      BY Zenon
    <3>2. IsPlan(p) /\ IsNodes(sn)
      BY <2>1, <2>6, Zenon
    <3>. HIDE DEF a
    <3>. QED
      BY <3>1, <3>2, NodesReplaced
  <2>. HIDE DEF a
  <2>9. IsPlan(b) /\ b.sn = sn /\ b.work = f
    BY ZenonT(30), <2>7, <2>8, WorkReplaced
  <2>. HIDE DEF b
  <2>10. Within(NewIn(p.sn) \cup {w}) /\ Active(p.work) \subseteq pass.exes \cup NewIn(p.sn)
    BY <1>3, OneMoreWithin, Zenon DEF Good
  <2>11. NewIn(q.sn) \subseteq Jobs /\ Within(NewIn(q.sn)) /\ Active(q.work) \subseteq pass.exes \cup NewIn(q.sn)
    BY <2>1, <2>4, <2>6, <2>7, <2>9, <2>10, Zenon
  <2>. QED
    BY <2>4, <2>9, <2>11, Zenon DEF Good
<1>. QED
  BY <1>1, <1>2, <1>3, Zenon

\* Work that is planned: the three kinds there are.
Plannable == {w \in Work : Kind(w) \in {"node", "system", "job"}}

\* A good plan stays good when a piece of work has had its turn.
LEMMA StepGood ==
  ASSUME scenario \in Scenarios, pass.exes \subseteq Jobs, NEW p, Good(p), NEW w \in Plannable, NEW q \in Step(p, w)
  PROVE  Good(q)
<1>1. CASE Kind(w) = "node"
  <2>1. w \notin Jobs /\ q \in NodeTaskStep(p, w)
    BY <1>1 DEF Step, Jobs
  <2>. QED
    BY <2>1, NodeTaskGood, Zenon
<1>2. CASE Kind(w) = "system"
  <2>1. w \notin Jobs /\ q \in SystemTaskStep(p, w)
    BY <1>2 DEF Step, Jobs
  <2>. QED
    BY <2>1, SystemTaskGood, Zenon
<1>3. CASE Kind(w) = "job" /\ work[w].st = "active"
  <2>1. q \in NextTaskStep(p, w)
    BY <1>3 DEF Step
  <2>. QED
    BY <2>1, NextTaskGood, Zenon
<1>4. CASE Kind(w) = "job" /\ work[w].st # "active"
  <2>1. w \in Jobs /\ q \in QueueStep(p, w)
    BY <1>4 DEF Step, Jobs, Plannable
  <2>. QED
    BY <2>1, QueueGood, Zenon
<1>. QED
  BY <1>1, <1>2, <1>3, <1>4, Zenon DEF Plannable

-----------------------------------------------------------------------------
(* InOrder is defined by recursion on the number of turns that are over.   *)

\* The plans after a turn, and after each of n turns.
Turn(Q, w) == UNION {Step(q, w) : q \in Q}
IsFold(f, p, s, n) == f = [i \in 0..n |-> IF i = 0 THEN {p} ELSE Turn(f[i - 1], s[i])]

\* There are such plans: the turns can be taken one after the other.
LEMMA FoldExists ==
  ASSUME NEW p, NEW s, NEW n \in Nat
  PROVE  \E f : IsFold(f, p, s, n)
<1>. DEFINE T == {k \in Nat : ~\E f : IsFold(f, p, s, k)}
<1>1. SUFFICES ASSUME T # {} PROVE FALSE
  BY Zenon
<1>2. PICK k \in T : \A j \in T : ~(j < k)
  <2>1. T \subseteq Nat
    BY Zenon
  <2>. HIDE DEF T
  <2>. QED
    BY <1>1, <2>1, Smallest, Zenon
<1>3. k \in Nat /\ ~\E f : IsFold(f, p, s, k)
  BY <1>2, Zenon
<1>4. k # 0
  <2>. DEFINE f == [i \in 0..0 |-> {p}]
  <2>1. \A i \in 0..0 : i = 0
    OBVIOUS
  <2>2. IsFold(f, p, s, 0)
    BY <2>1, Zenon DEF IsFold
  <2>. QED
    BY <1>3, <2>2, Zenon
<1>5. k - 1 \in Nat /\ k - 1 < k
  BY <1>3, <1>4
<1>6. PICK f : IsFold(f, p, s, k - 1)
  BY <1>2, <1>5, Zenon
<1>. DEFINE last == Turn(f[k - 1], s[k])
            g == [i \in 0..k |-> IF i = k THEN last ELSE f[i]]
<1>7. \A i \in 0..k : i # k => i \in 0..(k - 1)
  BY <1>3
<1>8. \A i \in 0..k : i # 0 => i - 1 \in 0..k /\ i - 1 # k
  BY <1>3
<1>9. f[0] = {p} /\ \A i \in 0..(k - 1) : i # 0 => f[i] = Turn(f[i - 1], s[i])
  <2>1. 0 \in 0..(k - 1)
    BY <1>5
  <2>. HIDE DEF T, last, g
  <2>. QED
    BY <1>6, <2>1, Zenon DEF IsFold
<1>10. /\ \A i \in 0..k : i # 0 => g[i - 1] = f[i - 1]
       /\ \A i \in 0..k : g[i] = IF i = k THEN last ELSE f[i]
  BY <1>8, Zenon
<1>. HIDE DEF g
<1>11. \A i \in 0..k : g[i] = IF i = 0 THEN {p} ELSE Turn(g[i - 1], s[i])
  <2>. TAKE i \in 0..k
  <2>1. CASE i = 0
    BY <1>4, <1>9, <1>10, <2>1, Zenon
  <2>2. CASE i # 0 /\ i # k
    BY <1>7, <1>9, <1>10, <2>2, Zenon
  <2>3. CASE i = k
    BY <1>4, <1>10, <2>3, Zenon
  <2>. QED
    BY <2>1, <2>2, <2>3, Zenon
<1>12. IsFold(g, p, s, k)
  <2>1. g = [i \in 0..k |-> g[i]]
    BY Zenon DEF g
  <2>. QED
    BY <1>11, <2>1, Zenon DEF IsFold
<1>. QED
  BY <1>3, <1>12, Zenon

\* They are good if the first one is.
LEMMA FoldGood ==
  ASSUME scenario \in Scenarios, pass.exes \subseteq Jobs, NEW p, Good(p),
         NEW s, NEW n \in Nat, \A i \in 1..n : s[i] \in Plannable, NEW f, IsFold(f, p, s, n)
  PROVE  \A q \in f[n] : Good(q)
<1>. DEFINE T == {k \in 0..n : ~\A q \in f[k] : Good(q)}
<1>1. SUFFICES ASSUME T # {} PROVE FALSE
  <2>1. n \in 0..n
    OBVIOUS
  <2>. QED
    BY <2>1, Zenon
<1>2. PICK k \in T : \A j \in T : ~(j < k)
  <2>1. T \subseteq Nat
    OBVIOUS
  <2>. HIDE DEF T
  <2>. QED
    BY <1>1, <2>1, Smallest, Zenon
<1>3. k \in 0..n /\ ~\A q \in f[k] : Good(q)
  BY <1>2, Zenon
<1>4. f[0] = {p} /\ \A i \in 0..n : i # 0 => f[i] = Turn(f[i - 1], s[i])
  <2>1. 0 \in 0..n
    OBVIOUS
  <2>. HIDE DEF T
  <2>. QED
    BY <2>1, Zenon DEF IsFold
<1>5. k # 0
  BY <1>3, <1>4, Zenon
<1>6. k - 1 \in 0..n /\ k - 1 < k /\ k \in 1..n
  BY <1>3, <1>5
<1>7. \A q \in f[k - 1] : Good(q)
  BY <1>2, <1>6, Zenon
<1>8. \A q \in f[k] : \E r \in f[k - 1] : q \in Step(r, s[k])
  <2>1. f[k] = Turn(f[k - 1], s[k])
    BY <1>3, <1>4, <1>5, Zenon
  <2>. QED
    BY <2>1 DEF Turn
<1>. QED
  BY <1>3, <1>6, <1>7, <1>8, StepGood, Zenon

\* A good plan becomes a good plan when each piece of work has had its turn.
LEMMA InOrderGood ==
  ASSUME scenario \in Scenarios, pass.exes \subseteq Jobs, NEW p, Good(p),
         NEW sequences, \A s \in sequences : Len(s) \in Nat /\ \A i \in 1..Len(s) : s[i] \in Plannable,
         NEW q \in InOrder(sequences, p)
  PROVE  Good(q)
<1>1. PICK s \in sequences : q \in (CHOOSE f : IsFold(f, p, s, Len(s)))[Len(s)]
  BY Zenon DEF InOrder, IsFold, Turn
<1>. DEFINE f == CHOOSE g : IsFold(g, p, s, Len(s))
<1>2. Len(s) \in Nat /\ \A i \in 1..Len(s) : s[i] \in Plannable
  BY Zenon
<1>3. IsFold(f, p, s, Len(s))
  BY <1>2, FoldExists, Zenon
<1>. HIDE DEF f
<1>. QED
  BY <1>1, <1>2, <1>3, FoldGood, Zenon DEF f

-----------------------------------------------------------------------------
(* A pass.                                                                 *)

\* The orders of a set of work are finite sequences of it.
LEMMA OrdersOf ==
  ASSUME scenario \in Scenarios, NEW S, S \subseteq Plannable, NEW s \in Orders(S)
  PROVE  Len(s) \in Nat /\ \A i \in 1..Len(s) : s[i] \in S
<1>1. IsFiniteSet(Work) /\ S \subseteq Work
  BY ScenariosAssumption DEF Work, Plannable
<1>2. IsFiniteSet(S)
  BY <1>1, FS_Subset, Zenon
<1>3. Cardinality(S) \in Nat
  BY <1>2, FS_CardinalityType, Zenon
<1>4. s \in [1..Cardinality(S) -> S]
  BY Zenon DEF Orders, Bijection, Injection
<1>. QED
  BY <1>3, <1>4

\* A good plan becomes a good plan when work has had its turn in some order.
LEMMA OrdersGood ==
  ASSUME scenario \in Scenarios, pass.exes \subseteq Jobs, NEW p, Good(p), NEW S, S \subseteq Plannable,
         NEW sequences, sequences \subseteq Orders(S), NEW q \in InOrder(sequences, p)
  PROVE  Good(q)
<1>1. \A s \in sequences : Len(s) \in Nat /\ \A i \in 1..Len(s) : s[i] \in Plannable
  BY OrdersOf, Zenon
<1>. QED
  BY <1>1, InOrderGood, Zenon

\* Executions that are lost are fewer.
LEMMA LostFacts ==
  ASSUME NEW x, "st" \in DOMAIN x, NEW w
  PROVE  "st" \in DOMAIN execution_lost(x, w) /\ execution_lost(x, w).st \in {x.st, "none"}
<1>1. CASE x.current
  <2>. DEFINE y == [x EXCEPT !.over = TRUE, !.left = 0]
  <2>1. execution_lost(x, w) = y
    BY <1>1, Zenon DEF execution_lost
  <2>2. "st" \in DOMAIN y /\ y.st = x.st
    BY Zenon
  <2>. HIDE DEF y
  <2>. QED
    BY <2>1, <2>2, Zenon
<1>2. CASE ~x.current
  <2>1. execution_lost(x, w) = NoWork(w)
    BY <1>2, Zenon DEF execution_lost
  <2>. QED
    BY <2>1 DEF NoWork
<1>. QED
  BY <1>1, <1>2, Zenon

\* The plan that a pass starts with, and that of the waiting tasks.
LEMMA WaitingGood ==
  ASSUME IInv, pass.pc = "schedule", NEW starved, NEW q \in _schedule_waiting_tasks(starved)
  PROVE  Good(q)
<1>. DEFINE p == [sn |-> pass.nodes, fulfilled |-> {n \in Nodes : pass.nodes[n].is_ready_for_next},
                  avail |-> {}, work |-> work, sys |-> TRUE]
            tasks == {w \in Work : Kind(w) = "node" /\ work[w].st = "waiting" /\ GivesTasks(nodes[work[w].node])}
            ready == {w \in Work : IsNextTaskReady(w) /\ ~LostExe(w)}
            lost == {w \in Work : LostExe(w)} \cup starved
            after(f) == [w \in Work |-> IF w \in lost THEN execution_lost(f[w], w) ELSE f[w]]
<1>1. scenario \in Scenarios /\ pass.exes \subseteq Jobs
  BY Zenon DEF IInv, Counted
<1>2. Good(p)
  <2>1. p.sn = pass.nodes /\ p.work = work /\ p.fulfilled \subseteq Nodes /\ p.avail = {}
        /\ {"sn", "fulfilled", "avail", "work"} \subseteq DOMAIN p
    OBVIOUS
  <2>. HIDE DEF p
  <2>2. IsPlan(p)
    BY <2>1, Zenon DEF IsPlan, IInv
  <2>3. NewIn(p.sn) = {} /\ Within({}) /\ Active(p.work) \subseteq pass.exes
    BY <2>1, Zenon DEF IInv, Counted
  <2>. QED
    BY <2>2, <2>3, Zenon DEF Good
<1>. HIDE DEF p
<1>3. tasks \subseteq Plannable /\ ready \subseteq Plannable
  BY DEF Plannable, IsNextTaskReady
<1>4. PICK a \in InOrder(Orders(tasks), p) :
        \E b \in InOrder(Orders(ready), a) : q = [b EXCEPT !.work = after(b.work)]
  <2>. DEFINE Lists == {InOrder(Orders(ready), a) : a \in InOrder(Orders(tasks), p)}
              Finish(b) == [b EXCEPT !.work = after(b.work)]
  <2>1. _schedule_waiting_tasks(starved) = {Finish(b) : b \in UNION Lists}
    BY Zenon DEF _schedule_waiting_tasks, p
  <2>. HIDE DEF ready, tasks, after, Lists, Finish
  <2>2. PICK b \in UNION Lists : q = Finish(b)
    BY <2>1, Zenon
  <2>3. PICK a \in InOrder(Orders(tasks), p) : b \in InOrder(Orders(ready), a)
    BY <2>2, Zenon DEF Lists
  <2>. QED
    BY <2>2, <2>3, Zenon DEF Finish
<1>. PICK b \in InOrder(Orders(ready), a) : q = [b EXCEPT !.work = after(b.work)]
  BY <1>4, Zenon
<1>. HIDE DEF tasks, ready
<1>5. Good(a)
  BY <1>1, <1>2, <1>3, <1>4, OrdersGood, Zenon
<1>6. Good(b)
  BY <1>1, <1>3, <1>4, <1>5, OrdersGood, Zenon
<1>7. IsPlan(b) /\ IsWork(b.work)
  BY <1>6, Zenon DEF Good, IsPlan
<1>8. IsWork(after(b.work)) /\ Active(after(b.work)) \subseteq Active(b.work)
  <2>1. DOMAIN after(b.work) = Work
    BY Zenon
  <2>2. \A w \in Work : after(b.work)[w] \in {b.work[w], execution_lost(b.work[w], w)}
    BY Zenon
  <2>. HIDE DEF after
  <2>3. \A w \in Work : "st" \in DOMAIN after(b.work)[w] /\ after(b.work)[w].st \in {b.work[w].st, "none"}
    BY ZenonT(30), <1>7, <2>2, LostFacts DEF IsWork
  <2>. QED
    BY <2>1, <2>3 DEF IsWork, Active, Jobs
<1>. HIDE DEF after
<1>9. IsPlan(q) /\ q.sn = b.sn /\ q.work = after(b.work)
  BY <1>4, <1>7, <1>8, WorkReplaced
<1>. QED
  BY <1>6, <1>8, <1>9, GoodKept, Zenon

\* The plan with the system tasks.
LEMMA SystemGood ==
  ASSUME scenario \in Scenarios, pass.exes \subseteq Jobs, NEW p, Good(p), NEW q \in _schedule_system_tasks(p)
  PROVE  Good(q)
<1>. DEFINE tasks == get_tasks_to_schedule
            f == [w \in Work |-> IF w \in tasks THEN [NoWork(w) EXCEPT !.st = "waiting"] ELSE p.work[w]]
            made == [p EXCEPT !.work = f]
<1>1. tasks \subseteq Plannable
  BY DEF get_tasks_to_schedule, Plannable
<1>2. q \in InOrder(Orders(tasks), made)
  BY Zenon DEF _schedule_system_tasks
<1>3. IsPlan(p) /\ IsWork(p.work)
  BY Zenon DEF Good, IsPlan
<1>4. IsWork(f) /\ Active(f) \subseteq Active(p.work)
  <2>1. \A w : /\ "st" \in DOMAIN [NoWork(w) EXCEPT !.st = "waiting"]
             /\ [NoWork(w) EXCEPT !.st = "waiting"].st = "waiting"
    BY DEF NoWork
  <2>2. DOMAIN f = Work /\ \A w \in Work : f[w] = p.work[w] \/ f[w] = [NoWork(w) EXCEPT !.st = "waiting"]
    BY Zenon
  <2>. HIDE DEF f
  <2>3. \A w \in Work : "st" \in DOMAIN f[w] /\ f[w].st \in {p.work[w].st, "waiting"}
    BY <1>3, <2>1, <2>2, Zenon DEF IsWork
  <2>. QED
    BY <2>2, <2>3 DEF IsWork, Active, Jobs
<1>. HIDE DEF f, tasks
<1>5. IsPlan(made) /\ made.sn = p.sn /\ made.work = f
  BY ZenonT(30), <1>3, <1>4, WorkReplaced
<1>. HIDE DEF made
<1>6. Good(made)
  BY <1>4, <1>5, GoodKept, Zenon
<1>. QED
  BY <1>1, <1>2, <1>6, OrdersGood, Zenon

\* The plan with the executions of the queue.
LEMMA ProcessQueueGood ==
  ASSUME scenario \in Scenarios, pass.exes \subseteq Jobs, NEW p, Good(p), NEW q \in _process_queue(p)
  PROVE  Good(q)
<1>. DEFINE avail == {n \in p.fulfilled : p.sn[n].is_ready}
            a == [p EXCEPT !.avail = avail]
            S == {w \in Jobs : work[w].st = "waiting"}
<1>1. avail \in SUBSET Nodes
  BY Zenon DEF Good, IsPlan
<1>2. q \in InOrder(get_queue, a) /\ get_queue \subseteq Orders(S)
  BY Zenon DEF _process_queue, get_queue
<1>3. S \subseteq Plannable
  BY DEF Jobs, Plannable
<1>. HIDE DEF avail, S
<1>4. Good(a)
  BY <1>1, OtherField, Zenon
<1>. HIDE DEF a
<1>. QED
  BY <1>2, <1>3, <1>4, OrdersGood, Zenon

-----------------------------------------------------------------------------
(* The invariant is kept.                                                  *)

\* Executions that were counted, or are new, are within the limits.
LEMMA LimitsFromWithin ==
  ASSUME scenario \in Scenarios, pass.exes \subseteq Jobs, NEW new, new \subseteq Jobs, Within(new),
         NEW A, A \subseteq pass.exes \cup new, NEW type \in DOMAIN scenario.limits
  PROVE  OfType(A, type) <= scenario.limits[type]
<1>1. OfType(pass.exes, type) + OfType(new, type) <= scenario.limits[type]
  BY Zenon DEF Within
<1>2. OfType(pass.exes \cup new, type) <= OfType(pass.exes, type) + OfType(new, type)
  BY UnionOfType, Zenon
<1>3. /\ OfType(A, type) \in Nat /\ OfType(pass.exes \cup new, type) \in Nat
      /\ OfType(A, type) <= OfType(pass.exes \cup new, type)
  <2>1. pass.exes \cup new \subseteq Jobs
    BY Zenon
  <2>. QED
    BY <2>1, FewerOfType, Zenon
<1>4. OfType(pass.exes, type) \in Nat /\ OfType(new, type) \in Nat
  <2>1. pass.exes \subseteq pass.exes /\ new \subseteq new
    BY Zenon
  <2>. QED
    BY <2>1, FewerOfType, Zenon
<1>5. scenario.limits[type] \in Nat
  BY ScenariosAssumption, Zenon
<1>. QED
  BY <1>1, <1>2, <1>3, <1>4, <1>5

\* What the conjuncts of the invariant say of the next state: the scenario is the same.
LEMMA NextState ==
  ASSUME scenario' = scenario
  PROVE  /\ IsWork(work') => IsWork(work)'
         /\ IsNodes(pass'.nodes) => IsNodes(pass.nodes)'
         /\ NewIn(pass'.nodes) = {} => (NewIn(pass.nodes) = {})'
         /\ Active(work') = Active(work)'
         /\ Jobs' = Jobs
         /\ (\A type \in DOMAIN scenario.limits : OfType(Active(work'), type) <= scenario.limits[type]) => LimitsHold'
<1>1. Work' = Work /\ Nodes' = Nodes /\ Jobs' = Jobs
  BY DEF Work, Nodes, Jobs, Kind
<1>2. IsWork(work') => IsWork(work)'
  BY <1>1, Zenon DEF IsWork
<1>3. IsNodes(pass'.nodes) => IsNodes(pass.nodes)'
  BY <1>1, Zenon DEF IsNodes, IsNode
<1>4. NewIn(pass'.nodes) = {} => (NewIn(pass.nodes) = {})'
  BY <1>1, Zenon DEF NewIn
<1>5. Active(work') = Active(work)'
  BY <1>1, Zenon DEF Active
<1>6. (\A type \in DOMAIN scenario.limits : OfType(Active(work'), type) <= scenario.limits[type]) => LimitsHold'
  BY <1>1, Zenon DEF LimitsHold, OfType, Active
<1>. QED
  BY <1>1, <1>2, <1>3, <1>4, <1>5, <1>6, Zenon

\* Within, of the next state.
LEMMA NextWithin ==
  ASSUME scenario' = scenario, NEW exes, pass'.exes = exes,
         \A type \in DOMAIN scenario.limits : OfType(exes, type) + OfType({}, type) <= scenario.limits[type]
  PROVE  Within({})'
BY Zenon DEF Within, OfType

\* Fewer executions.
LEMMA FewerKeeps ==
  ASSUME IInv, scenario' = scenario, IsWork(work'), Active(work') \subseteq Active(work),
         pass' = pass \/ pass' = IdlePass
  PROVE  IInv'
<1>1. scenario \in Scenarios /\ Active(work) \subseteq Jobs /\ Jobs' = Jobs
  BY NextState, Zenon DEF IInv, Active
<1>2. LimitsHold'
  <2>1. ASSUME NEW type \in DOMAIN scenario.limits PROVE OfType(Active(work'), type) <= scenario.limits[type]
    <3>1. OfType(Active(work), type) <= scenario.limits[type]
      BY Zenon DEF IInv, LimitsHold, Active
    <3>2. /\ OfType(Active(work'), type) \in Nat /\ OfType(Active(work), type) \in Nat
          /\ OfType(Active(work'), type) <= OfType(Active(work), type)
      BY <1>1, FewerOfType, Zenon
    <3>3. scenario.limits[type] \in Nat
      BY <1>1, ScenariosAssumption, Zenon
    <3>. QED
      BY <3>1, <3>2, <3>3
  <2>. QED
    BY <2>1, NextState, Zenon
<1>3. (scenario \in Scenarios)' /\ IsWork(work)' /\ Active(work') = Active(work)'
  BY <1>1, NextState, Zenon
<1>4. CASE pass' = pass
  <2>1. IsPass'
    BY <1>4, Zenon DEF IInv, IsPass
  <2>2. (pass.pc \in {"schedule", "allocate", "launch"} => IsNodes(pass.nodes))'
    BY <1>4, NextState, Zenon DEF IInv
  <2>3. (pass.pc = "schedule" => NewIn(pass.nodes) = {})'
    BY <1>4, NextState, Zenon DEF IInv
  <2>4. Within({}) => Within({})'
    BY <1>4, Zenon DEF Within, OfType
  <2>5. Counted'
    BY <1>1, <1>3, <1>4, <2>4, Zenon DEF IInv, Counted
  <2>. QED
    BY <1>2, <1>3, <2>1, <2>2, <2>3, <2>5, Zenon DEF IInv
<1>5. CASE pass' = IdlePass
  <2>1. IsPass' /\ pass'.pc = "idle"
    BY <1>5 DEF IsPass, IdlePass
  <2>2. Counted'
    BY <2>1 DEF Counted
  <2>. QED
    BY <1>2, <1>3, <2>1, <2>2 DEF IInv
<1>. QED
  BY <1>4, <1>5, Zenon

\* take_new_offers: the executions are counted, and they respect the limits.
LEMMA TakeKeeps == ASSUME IInv, take_new_offers PROVE IInv'
<1>1. /\ scenario' = scenario /\ work' = work
      /\ pass' = [pass EXCEPT !.pc = "refresh", !.new = new_offers,
                              !.tasks = [w \in task_mgr |-> [agent |-> work[w].agent, need |-> work[w].need]],
                              !.exes = Active(work)]
  BY Zenon DEF take_new_offers, Active
<1>2. DOMAIN pass' = DOMAIN pass /\ pass'.pc = "refresh" /\ pass'.exes = Active(work)
  BY <1>1 DEF IInv, IsPass
<1>3. scenario \in Scenarios /\ IsWork(work') /\ Active(work) \subseteq Jobs
  BY <1>1, Zenon DEF IInv, Active
<1>4. \A type \in DOMAIN scenario.limits : OfType(Active(work), type) <= scenario.limits[type]
  BY Zenon DEF IInv, LimitsHold, Active
<1>5. \A type \in DOMAIN scenario.limits : OfType(Active(work), type) + OfType({}, type) <= scenario.limits[type]
  <2>. TAKE type \in DOMAIN scenario.limits
  <2>1. OfType({}, type) = 0
    <3>1. {w \in {} : scenario.work[w].type = type} = {}
      OBVIOUS
    <3>. QED
      BY <3>1, FS_EmptySet, Zenon DEF OfType
  <2>2. OfType(Active(work), type) \in Nat
    <3>1. Active(work) \subseteq Active(work)
      BY Zenon
    <3>. QED
      BY <1>3, <3>1, FewerOfType, Zenon
  <2>. QED
    BY <1>4, <2>1, <2>2
<1>6. Within({})'
  BY <1>1, <1>2, <1>5, NextWithin, Zenon
<1>7. Counted'
  BY <1>1, <1>2, <1>3, <1>6, NextState, Zenon DEF Counted
<1>8. IsPass'
  BY <1>2 DEF IInv, IsPass
<1>9. LimitsHold' /\ IsWork(work)'
  BY <1>1, <1>3, <1>4, NextState, Zenon
<1>. QED
  BY <1>1, <1>2, <1>3, <1>7, <1>8, <1>9 DEF IInv

\* The plan of a pass replaces the scheduling nodes.
LEMMA NewNodesKeep ==
  ASSUME IInv, scenario' = scenario, work' = work, IsNodes(pass'.nodes),
         DOMAIN pass' = DOMAIN pass, pass'.exes = pass.exes,
         \/ pass'.pc = "schedule" /\ pass.pc = "refresh" /\ NewIn(pass'.nodes) = {}
         \/ pass'.pc = "launch"
  PROVE  IInv'
<1>1. IsWork(work)' /\ IsNodes(pass.nodes)' /\ Active(work)' = Active(work) /\ Jobs' = Jobs
  BY NextState, Zenon DEF IInv
<1>2. LimitsHold'
  BY NextState, Zenon DEF IInv, LimitsHold, Active
<1>3. IsPass'
  BY DEF IInv, IsPass
<1>4. Within({}) => Within({})'
  BY Zenon DEF Within, OfType
<1>5. Counted'
  BY <1>1, <1>4 DEF IInv, Counted
<1>6. (pass.pc = "schedule" => NewIn(pass.nodes) = {})'
  BY NextState DEF IInv
<1>. QED
  BY <1>1, <1>2, <1>3, <1>5, <1>6, Zenon DEF IInv

\* refresh_agent_resources: scheduling nodes are made.
LEMMA RefreshKeeps == ASSUME IInv, NEW reset, refresh_agent_resources(reset) PROVE IInv'
<1>. DEFINE known == DOMAIN agents \cup {offer[o].agent : o \in pass.new}
            refreshed == [a \in known |->
              refresh_resources(IF a \in DOMAIN agents THEN agents[a] ELSE NewAgent, Res,
                                pass.new \cap OfferOf(a), TaskResources(DOMAIN pass.tasks, a))]
            ResourceSet(a) == IF a \in known THEN refreshed[a] ELSE NewAgent
            sn == [n \in Nodes |-> NewSchedulingNode(nodes[n].agent, is_ready_for_new_job(nodes[n]),
                                                     is_ready_for_next_job_task(nodes[n]), ResourceSet(nodes[n].agent))]
<1>1. /\ pass.pc = "refresh" /\ scenario' = scenario /\ work' = work
      /\ pass' = [pass EXCEPT !.pc = "schedule", !.new = {}, !.nodes = sn]
  BY Zenon DEF refresh_agent_resources
<1>. HIDE DEF ResourceSet
<1>2. \A n \in Nodes : sn[n] = NewSchedulingNode(nodes[n].agent, is_ready_for_new_job(nodes[n]),
                                                 is_ready_for_next_job_task(nodes[n]), ResourceSet(nodes[n].agent))
  BY Zenon
<1>3. DOMAIN sn = Nodes
  BY Zenon
<1>. HIDE DEF sn
<1>4. DOMAIN pass' = DOMAIN pass /\ pass'.pc = "schedule" /\ pass'.exes = pass.exes /\ pass'.nodes = sn
  BY <1>1 DEF IInv, IsPass
<1>5. \A n \in Nodes : IsNode(sn[n]) /\ sn[n].queued = {}
  BY <1>2, NewNodeFacts
<1>6. IsNodes(sn) /\ NewIn(sn) = {}
  BY <1>3, <1>5 DEF IsNodes, NewIn
<1>. QED
  BY <1>1, <1>4, <1>6, NewNodesKeep, Zenon

\* _allocate_offers: work may be given up.
LEMMA AllocateKeeps == ASSUME IInv, NEW old, _allocate_offers(old) PROVE IInv'
<1>. DEFINE ready == {w \in Jobs : work[w].st = "active" /\ work[w].left > 0}
            Given(pick, n) == IF pass.nodes[n].agent \in DOMAIN agents THEN pick[pass.nodes[n].agent] ELSE {}
            sn(pick) == [n \in Nodes |-> add_allocated_offers(pass.nodes[n], Res, Need, Given(pick, n), ready)]
<1>1. /\ pass.pc = "allocate" /\ scenario' = scenario /\ work' = work
      /\ \E pick \in [DOMAIN agents -> SUBSET OfferIds] :
           pass' = [pass EXCEPT !.pc = "launch", !.old = old, !.nodes = sn(pick)]
  BY Zenon DEF _allocate_offers
<1>. HIDE DEF Given, ready
<1>2. PICK pick : pass' = [pass EXCEPT !.pc = "launch", !.old = old, !.nodes = sn(pick)]
  BY <1>1, Zenon
<1>3. /\ DOMAIN sn(pick) = Nodes
      /\ \A n \in Nodes : sn(pick)[n] = add_allocated_offers(pass.nodes[n], Res, Need, Given(pick, n), ready)
  BY Zenon
<1>. HIDE DEF sn
<1>4. DOMAIN pass' = DOMAIN pass /\ pass'.pc = "launch" /\ pass'.exes = pass.exes /\ pass'.nodes = sn(pick)
  BY <1>2 DEF IInv, IsPass
<1>5. \A n \in Nodes : IsNode(pass.nodes[n])
  BY <1>1 DEF IInv, IsNodes
<1>6. \A n \in Nodes : IsNode(sn(pick)[n])
  BY <1>3, <1>5, AllocatedFacts
<1>7. IsNodes(pass'.nodes)
  BY <1>3, <1>4, <1>6, Zenon DEF IsNodes
<1>. QED
  BY <1>1, <1>4, <1>7, NewNodesKeep, Zenon

\* The new executions belong to the nodes now, or have been taken back.
LEMMA EndOfQueue ==
  ASSUME IInv, pass.pc = "schedule", NEW q, Good(q), NEW p, p = DatabaseErrorIn(q) \/ p = ScheduledIn(q)
  PROVE  IsNodes(p.sn) /\ IsWork(p.work) /\ Active(p.work) \subseteq pass.exes \cup NewIn(q.sn)
<1>1. /\ IsPlan(q) /\ IsNodes(q.sn) /\ IsWork(q.work) /\ Active(q.work) \subseteq pass.exes \cup NewIn(q.sn)
      /\ {"sn", "work"} \subseteq DOMAIN q
  BY DEF Good, IsPlan
<1>2. IsWork(work) /\ Active(work) \subseteq pass.exes
  BY Zenon DEF IInv, Counted
<1>3. CASE p = DatabaseErrorIn(q)
  <2>. DEFINE sn == [n \in Nodes |-> IF n \in q.avail THEN reset_new_job_exes(q.sn[n], PlanNeed(q)) ELSE q.sn[n]]
              f == [w \in Work |-> IF w \in NewIn(q.sn) THEN work[w] ELSE q.work[w]]
  <2>1. p = [q EXCEPT !.sn = sn, !.work = f]
    BY <1>3, Zenon DEF DatabaseErrorIn, NewIn
  <2>2. DOMAIN sn = Nodes /\ \A n \in Nodes : sn[n] = q.sn[n] \/ sn[n] = reset_new_job_exes(q.sn[n], PlanNeed(q))
    BY Zenon
  <2>3. DOMAIN f = Work /\ \A w \in Work : f[w] = work[w] \/ f[w] = q.work[w]
    BY Zenon
  <2>. HIDE DEF sn, f
  <2>4. p.sn = sn /\ p.work = f
    BY <1>1, <2>1
  <2>5. \A n \in Nodes : IsNode(q.sn[n])
    BY <1>1, Zenon DEF IsNodes
  <2>6. IsNodes(sn)
    BY <2>2, <2>5, AddOrReset, Zenon DEF IsNodes
  <2>7. IsWork(f)
    BY <1>1, <1>2, <2>3, Zenon DEF IsWork
  <2>8. Active(f) \subseteq Active(work) \cup Active(q.work)
    BY <2>3, Zenon DEF Active, Jobs
  <2>. QED
    BY <1>1, <1>2, <2>4, <2>6, <2>7, <2>8, Zenon
<1>4. CASE p = ScheduledIn(q)
  <2>. DEFINE sn == [n \in Nodes |-> add_scheduled_job_exes(q.sn[n])]
  <2>1. p = [q EXCEPT !.sn = sn]
    BY <1>4, Zenon DEF ScheduledIn
  <2>2. DOMAIN sn = Nodes /\ \A n \in Nodes : sn[n] = add_scheduled_job_exes(q.sn[n])
    BY Zenon
  <2>. HIDE DEF sn
  <2>3. p.sn = sn /\ p.work = q.work
    BY <1>1, <2>1
  <2>4. \A n \in Nodes : IsNode(q.sn[n])
    BY <1>1, Zenon DEF IsNodes
  <2>5. IsNodes(sn)
    BY <2>2, <2>4, AddOrReset, Zenon DEF IsNodes
  <2>. QED
    BY <1>1, <2>3, <2>5, Zenon
<1>. QED
  BY <1>3, <1>4, Zenon

\* perform_scheduling: whatever is planned, in whatever order, the executions that are
\* active were counted or are new ones that the limits allow.
LEMMA PlanKeeps == ASSUME IInv, perform_scheduling PROVE IInv'
<1>1. scenario \in Scenarios /\ pass.pc = "schedule" /\ pass.exes \subseteq Jobs /\ scenario' = scenario
  BY Zenon DEF IInv, Counted, perform_scheduling
<1>2. PICK starved, p :
        /\ p \in Plans(starved)
        /\ \/ Plan(p)
           \/ \E q \in _process_queue(p) : Plan(DatabaseErrorIn(q)) \/ Plan(ScheduledIn(q))
  BY Zenon DEF perform_scheduling
<1>3. Good(p)
  <2>1. PICK q \in _schedule_waiting_tasks(starved) : p \in _schedule_system_tasks(q)
    BY <1>2, Zenon DEF Plans
  <2>2. Good(q)
    BY <1>1, <2>1, WaitingGood, Zenon
  <2>. QED
    BY <1>1, <2>1, <2>2, SystemGood, Zenon
<1>4. PICK r, new : /\ Plan(r) /\ new \subseteq Jobs /\ Within(new)
                    /\ IsNodes(r.sn) /\ IsWork(r.work) /\ Active(r.work) \subseteq pass.exes \cup new
  <2>1. CASE Plan(p)
    BY <1>3, <2>1, Zenon DEF Good, IsPlan
  <2>2. ASSUME NEW q \in _process_queue(p), NEW r, r = DatabaseErrorIn(q) \/ r = ScheduledIn(q), Plan(r)
        PROVE  \E new : /\ Plan(r) /\ new \subseteq Jobs /\ Within(new)
                        /\ IsNodes(r.sn) /\ IsWork(r.work) /\ Active(r.work) \subseteq pass.exes \cup new
    <3>1. Good(q)
      BY <1>1, <1>3, <2>2, ProcessQueueGood, Zenon
    <3>2. IsNodes(r.sn) /\ IsWork(r.work) /\ Active(r.work) \subseteq pass.exes \cup NewIn(q.sn)
      BY <1>1, <2>2, <3>1, EndOfQueue, Zenon
    <3>3. NewIn(q.sn) \subseteq Jobs /\ Within(NewIn(q.sn))
      BY <3>1, Zenon DEF Good
    <3>. QED
      BY <2>2, <3>2, <3>3, Zenon
  <2>. QED
    BY <1>2, <2>1, <2>2, Zenon
<1>5. work' = r.work /\ DOMAIN pass' = DOMAIN pass /\ pass'.pc = "allocate" /\ pass'.nodes = r.sn
  BY <1>4 DEF Plan, IInv, IsPass
<1>6. \A type \in DOMAIN scenario.limits : OfType(Active(work'), type) <= scenario.limits[type]
  BY <1>1, <1>4, <1>5, LimitsFromWithin, Zenon
<1>7. LimitsHold' /\ IsWork(work)' /\ IsNodes(pass.nodes)'
  BY <1>1, <1>4, <1>5, <1>6, NextState, Zenon
<1>8. IsPass' /\ Counted'
  BY <1>5 DEF IInv, IsPass, Counted
<1>. QED
  BY <1>1, <1>5, <1>7, <1>8 DEF IInv

\* Work changes, and none becomes active.
LEMMA ChangedWork ==
  ASSUME NEW f, DOMAIN f = Work,
         \A w \in Work : "st" \in DOMAIN f[w] /\ (w \in Jobs /\ f[w].st = "active" => work[w].st = "active")
  PROVE  IsWork(f) /\ Active(f) \subseteq Active(work)
BY Zenon DEF IsWork, Active, Jobs

\* _launch_tasks: tasks of Scale's own are no executions, and an execution with a next
\* task is active already.
LEMMA LaunchKeeps == ASSUME IInv, NEW failed, _launch_tasks(failed) PROVE IInv'
<1>. DEFINE all == UNION {ToLaunch(n) : n \in Nodes}
            y(w) == [work[w] EXCEPT !.st = "active", !.current = TRUE,
                                    !.left = IF Kind(w) = "job" THEN @ - 1 ELSE 0]
<1>1. /\ pass.pc = "launch" /\ scenario' = scenario /\ pass' = IdlePass
      /\ work' = [w \in Work |-> IF w \notin all THEN work[w] ELSE y(w)]
  BY Zenon DEF _launch_tasks
<1>2. \A w \in all : w \in Jobs => work[w].st = "active"
  <2>1. \A n \in Nodes : pass.nodes[n].tasks \cap Jobs = {}
    BY Zenon, <1>1 DEF IInv, IsNodes, IsNode
  <2>2. \A w \in all : \E n \in Nodes : w \in ToLaunch(n)
    BY Zenon
  <2>. QED
    BY ZenonT(30), <2>1, <2>2 DEF ToLaunch, ToStart, IsNextTaskReady
<1>3. \A w \in Work : "st" \in DOMAIN work[w] /\ "st" \in DOMAIN y(w)
  BY Zenon DEF IInv, IsWork
<1>. HIDE DEF all, y
<1>4. DOMAIN work' = Work /\ \A w \in Work : work'[w] = IF w \notin all THEN work[w] ELSE y(w)
  BY <1>1, Zenon
<1>5. IsWork(work') /\ Active(work') \subseteq Active(work)
  BY <1>2, <1>3, <1>4, ChangedWork
<1>. QED
  BY <1>1, <1>5, FewerKeeps, Zenon

\* statusUpdate: a task is over, and so may be its execution.
LEMMA StatusKeeps == ASSUME IInv, statusUpdate PROVE IInv'
<1>1. scenario' = scenario /\ pass' = pass
  BY Zenon DEF statusUpdate, told
<1>2. CASE work' = work
  BY <1>1, <1>2, FewerKeeps, Zenon DEF IInv
<1>3. CASE work' # work
  <2>1. PICK x : /\ work' = [work EXCEPT ![cb.id] = x]
                 /\ \/ x = NoWork(cb.id) \/ x = [NoWork(cb.id) EXCEPT !.st = "waiting"]
                    \/ \E k : x = [work[cb.id] EXCEPT !.current = FALSE, !.ran = TRUE, !.left = k]
    BY <1>3, Zenon DEF statusUpdate, told
  <2>2. IsWork(work)
    BY Zenon DEF IInv
  <2>3. DOMAIN work' = Work /\ \A w \in Work : work'[w] = IF w = cb.id THEN x ELSE work[w]
    BY <2>1, <2>2, Zenon DEF IsWork
  <2>4. cb.id \in Work => "st" \in DOMAIN x /\ (x.st = "active" => work[cb.id].st = "active")
    <3>1. CASE x = NoWork(cb.id) \/ x = [NoWork(cb.id) EXCEPT !.st = "waiting"]
      BY <3>1 DEF NoWork
    <3>2. ASSUME NEW k, x = [work[cb.id] EXCEPT !.current = FALSE, !.ran = TRUE, !.left = k]
          PROVE  cb.id \in Work => "st" \in DOMAIN x /\ x.st = work[cb.id].st
      BY <2>2, <3>2 DEF IsWork
    <3>. QED
      BY <2>1, <3>1, <3>2, Zenon
  <2>5. IsWork(work') /\ Active(work') \subseteq Active(work)
    <3>1. \A w \in Work : "st" \in DOMAIN work'[w] /\ (w \in Jobs /\ work'[w].st = "active" => work[w].st = "active")
      BY <2>2, <2>3, <2>4, Zenon DEF IsWork
    <3>. QED
      BY <2>3, <3>1, ChangedWork, Zenon
  <2>. QED
    BY <1>1, <2>5, FewerKeeps, Zenon
<1>. QED
  BY <1>2, <1>3, Zenon

\* slaveLost: executions of the node are lost.
LEMMA SlaveLostKeeps == ASSUME IInv, slaveLost PROVE IInv'
<1>1. scenario' = scenario /\ pass' = pass
  BY ZenonT(30) DEF slaveLost
<1>2. CASE work' = work
  BY <1>1, <1>2, FewerKeeps, Zenon DEF IInv
<1>3. CASE work' # work
  <2>1. DOMAIN work' = Work /\ \A w \in Work : work'[w] = work[w] \/ work'[w] = execution_lost(work[w], w)
    BY <1>3, Zenon DEF slaveLost
  <2>2. \A w \in Work : "st" \in DOMAIN work[w]
    BY Zenon DEF IInv, IsWork
  <2>3. \A w \in Work : "st" \in DOMAIN work'[w] /\ work'[w].st \in {work[w].st, "none"}
    BY <2>1, <2>2, LostFacts, Zenon
  <2>4. \A w \in Work : "st" \in DOMAIN work'[w] /\ (w \in Jobs /\ work'[w].st = "active" => work[w].st = "active")
    BY <2>3
  <2>5. IsWork(work') /\ Active(work') \subseteq Active(work)
    BY <2>1, <2>4, ChangedWork, Zenon
  <2>. QED
    BY <1>1, <2>5, FewerKeeps, Zenon
<1>. QED
  BY <1>2, <1>3, Zenon

\* A job is queued, or a task of a node is needed.
LEMMA ArisesKeeps == ASSUME IInv, NEW w, Arises(w) PROVE IInv'
<1>1. scenario' = scenario /\ pass' = pass /\ work' = [work EXCEPT ![w].st = "waiting"]
  BY Zenon DEF Arises
<1>. DEFINE x == [work[w] EXCEPT !.st = "waiting"]
<1>2. DOMAIN work' = Work /\ \A u \in Work : work'[u] = IF u = w THEN x ELSE work[u]
  BY <1>1, Zenon DEF IInv, IsWork
<1>3. w \in Work => "st" \in DOMAIN x /\ x.st = "waiting"
  BY DEF IInv, IsWork
<1>. HIDE DEF x
<1>4. \A u \in Work : "st" \in DOMAIN work[u]
  BY Zenon DEF IInv, IsWork
<1>5. \A u \in Work : "st" \in DOMAIN work'[u] /\ (u \in Jobs /\ work'[u].st = "active" => work[u].st = "active")
  BY <1>2, <1>3, <1>4
<1>6. IsWork(work') /\ Active(work') \subseteq Active(work)
  BY <1>2, <1>5, ChangedWork, Zenon
<1>. QED
  BY <1>1, <1>6, FewerKeeps, Zenon

\* The other steps do not touch work or the pass, or give the pass up.
LEMMA RestKeeps == ASSUME IInv, scenario' = scenario, work' = work, pass' = pass \/ pass' = IdlePass PROVE IInv'
BY FewerKeeps, Zenon DEF IInv

\* Every step keeps the invariant.
LEMMA StepKeeps == ASSUME IInv, [Next]_vars PROVE IInv'
<1>1. CASE SchedulingStep
  BY <1>1, TakeKeeps, RefreshKeeps, PlanKeeps, AllocateKeeps, LaunchKeeps, Zenon DEF SchedulingStep
<1>2. CASE Callback
  <2>1. CASE offerRescinded
    BY <2>1, RestKeeps, Zenon DEF offerRescinded
  <2>. QED
    BY <1>2, <2>1, StatusKeeps, SlaveLostKeeps, Zenon DEF Callback
<1>3. CASE skip_task_launch \/ sync_with_mesos \/ set_totals
  BY <1>3, RestKeeps, Zenon DEF skip_task_launch, sync_with_mesos, set_totals
<1>4. ASSUME NEW a, \/ resourceOffers(a) \/ mesos_loses_agent(a) \/ mesos_adds_agent(a) \/ register_node(a)
                    \/ \E r \in scenario.others : others_use(a, r)
      PROVE  IInv'
  BY <1>4, RestKeeps, Zenon DEF resourceOffers, mesos_loses_agent, mesos_adds_agent, register_node, others_use
<1>5. ASSUME NEW x, update_from_model(x) \/ _image_pull_completed(x) \/ mesos_rescinds(x) \/ task_ends(x) PROVE IInv'
  BY <1>5, RestKeeps, Zenon DEF update_from_model, _image_pull_completed, mesos_rescinds, task_ends
<1>6. CASE UNCHANGED vars
  BY <1>6, RestKeeps, Zenon DEF vars
<1>. QED
  BY <1>1, <1>2, <1>3, <1>4, <1>5, <1>6, ArisesKeeps, Zenon DEF Next, queue_jobs, _create_next_tasks

\* At the start there is no execution.
LEMMA InitHolds == ASSUME Init PROVE IInv
<1>1. scenario \in Scenarios /\ pass = IdlePass /\ work = [w \in Work |-> NoWork(w)]
  BY Zenon DEF Init
<1>2. DOMAIN work = Work /\ \A w \in Work : "st" \in DOMAIN work[w] /\ work[w].st = "none"
  BY <1>1 DEF NoWork
<1>3. IsWork(work) /\ Active(work) = {}
  BY <1>2 DEF IsWork, Active, Jobs
<1>4. IsPass /\ pass.pc = "idle"
  BY <1>1 DEF IsPass, IdlePass
<1>5. LimitsHold
  <2>. SUFFICES ASSUME NEW type \in DOMAIN scenario.limits
                PROVE  OfType({w \in Jobs : work[w].st = "active"}, type) <= scenario.limits[type]
    BY DEF LimitsHold
  <2>1. {w \in Jobs : work[w].st = "active"} = {}
    BY <1>3, Zenon DEF Active
  <2>2. {w \in {} : scenario.work[w].type = type} = {}
    OBVIOUS
  <2>3. OfType({}, type) = 0
    BY <2>2, FS_EmptySet, Zenon DEF OfType
  <2>4. scenario.limits[type] \in Nat
    BY <1>1, ScenariosAssumption, Zenon
  <2>. QED
    BY <2>1, <2>3, <2>4
<1>. QED
  BY <1>1, <1>3, <1>4, <1>5 DEF IInv, Counted

\* A job type never has more executions than its max_scheduled, for any amount of work,
\* any nodes, agents, offers and limits, and whatever happens between the steps of a
\* pass: _calculate_job_type_limits counts from a list that is out of date when
\* _process_queue uses it, but executions only start in a pass.
THEOREM LimitsCorrect == Spec => []LimitsHold
<1>1. Init => IInv
  BY InitHolds
<1>2. IInv /\ [Next]_vars => IInv'
  BY StepKeeps
<1>3. IInv => LimitsHold
  BY DEF IInv
<1>. QED
  BY <1>1, <1>2, <1>3, PTL DEF Spec
====
