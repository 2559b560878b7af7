---- MODULE SchedulingFitProofs ----
(***************************************************************************)
(* For any scenario with a finite amount of work and of offers: the tasks  *)
(* that are about to be launched on a node never need more than its offers *)
(* have. What is planned on a node is within what is allocated there, and  *)
(* that is compared with the offers once more when they are taken.         *)
(***************************************************************************)
EXTENDS SchedulingProofs

USE SMTT(30)

\* Work has the resources that its kind needs, or more.
HasNeeds(f) ==
  \A w \in Work : /\ "need" \in DOMAIN f[w] /\ f[w].need \in Amounts
                  /\ is_sufficient_to_meet(f[w].need, scenario.work[w].need)

\* Offers, and what is known of an agent.
IsOffers(g) ==
  DOMAIN g = OfferIds /\ \A o \in OfferIds : {"agent", "res", "out"} \subseteq DOMAIN g[o] /\ g[o].res \in Amounts
IsAgent(a) ==
  /\ {"offers", "offered", "task", "watermark", "recent", "total"} \subseteq DOMAIN a
  /\ a.offers \subseteq OfferIds /\ a.total \subseteq Amounts
  /\ {a.offered, a.task, a.watermark, a.recent} \subseteq Resources
IsAgents(f) == \A a \in DOMAIN f : IsAgent(f[a])

\* A scheduling node on which nothing is planned yet.
NodeFields == {"tasks", "running", "queued", "allocated", "remaining", "offers"}
IsFresh(x) ==
  /\ NodeFields \subseteq DOMAIN x /\ x.remaining \in Resources
  /\ x.allocated = NoResources /\ x.tasks = {} /\ x.running = {} /\ x.queued = {}

\* r is enough for the tasks and executions of a scheduling node together.
EnoughFor(r, x, need) ==
  \A n \in ResourceNames : r[n] >= Total(need, x.tasks)[n] + Total(need, x.running)[n]
IsPlanned(x, need) ==
  /\ NodeFields \subseteq DOMAIN x /\ x.allocated \in Resources
  /\ x.tasks \subseteq Work /\ x.running \subseteq Work /\ EnoughFor(x.allocated, x, need)
IsSupplied(x, res, need) ==
  /\ x.tasks \subseteq Work /\ x.running \subseteq Work /\ x.offers \subseteq OfferIds
  /\ EnoughFor(Total(res, x.offers), x, need)

\* Resources of the tasks that a pass has read.
HasTasks(f) == DOMAIN f \subseteq Work /\ \A w \in DOMAIN f : f[w].need \in Amounts

\* The invariant that is inductive together with IInv: what is allocated on a node, and
\* then what its offers have, is enough for what is planned there.
FitInv ==
  /\ HasNeeds(work) /\ IsOffers(offer) /\ IsAgents(agents) /\ task_mgr \subseteq Work
  /\ DOMAIN alive = DOMAIN scenario.agents /\ sync \subseteq DOMAIN scenario.agents
  /\ {"new", "old", "tasks"} \subseteq DOMAIN pass
  /\ pass.pc = "refresh" => HasTasks(pass.tasks)
  /\ pass.pc = "schedule" => \A n \in Nodes : IsFresh(pass.nodes[n])
  /\ pass.pc = "allocate" => \A n \in Nodes : IsPlanned(pass.nodes[n], Need)
  /\ pass.pc = "launch" => \A n \in Nodes : IsSupplied(pass.nodes[n], Res, Need)

-----------------------------------------------------------------------------
(* Resources of scheduling nodes.                                          *)

\* Amounts are resources.
LEMMA AmountFacts == Amounts \subseteq Resources /\ NoResources \in Amounts
BY DEF Amounts, Resources, NoResources

\* Sums and differences.
LEMMA AddFacts ==
  ASSUME NEW r \in Resources, NEW s \in Resources
  PROVE  /\ add(r, s) \in Resources /\ subtract(r, s) \in Resources
         /\ \A n \in ResourceNames : add(r, s)[n] = r[n] + s[n] /\ subtract(r, s)[n] = r[n] - s[n]
BY DEF add, subtract, Resources

\* Resources of all work.
IsNeeds(f) == \A w \in Work : f[w] \in Amounts

\* Work is finite.
LEMMA WorkFinite == ASSUME scenario \in Scenarios, NEW S, S \subseteq Work PROVE IsFiniteSet(S)
<1>1. IsFiniteSet(Work)
  BY ScenariosAssumption, Zenon DEF Work
<1>. QED
  BY <1>1, FS_Subset, Zenon

\* A sum of needs is an amount.
LEMMA NeedsSum ==
  ASSUME scenario \in Scenarios, NEW f, IsNeeds(f), NEW S, S \subseteq Work
  PROVE  Total(f, S) \in Amounts /\ \A n \in ResourceNames : Total(f, S)[n] \in Nat
<1>1. IsFiniteSet(S) /\ \A x \in S : f[x] \in Amounts
  BY WorkFinite, Zenon DEF IsNeeds
<1>2. Total(f, S) \in Amounts
  BY <1>1, TotalType, Zenon
<1>. QED
  BY <1>2, Zenon DEF Amounts

\* Smaller needs have a smaller sum.
LEMMA NeedsSmaller ==
  ASSUME scenario \in Scenarios, NEW f, IsNeeds(f), NEW g, IsNeeds(g), NEW S, S \subseteq Work,
         \A w \in S : is_sufficient_to_meet(f[w], g[w]), NEW n \in ResourceNames
  PROVE  Total(f, S)[n] \in Nat /\ Total(g, S)[n] \in Nat /\ Total(g, S)[n] <= Total(f, S)[n]
<1>1. IsFiniteSet(S) /\ \A x \in S : g[x] \in Amounts /\ f[x] \in Amounts
  BY WorkFinite, Zenon DEF IsNeeds
<1>2. \A x \in S : g[x][n] <= f[x][n]
  <2>. TAKE x \in S
  <2>1. f[x][n] >= g[x][n] /\ f[x][n] \in Nat /\ g[x][n] \in Nat
    BY <1>1, Zenon DEF is_sufficient_to_meet, Amounts
  <2>. QED
    BY <2>1
<1>3. Total(g, S)[n] <= Total(f, S)[n]
  BY <1>1, <1>2, TotalSmaller, Zenon
<1>. QED
  BY <1>3, NeedsSum, Zenon

\* What was enough is enough for smaller needs.
LEMMA EnoughForLess ==
  ASSUME scenario \in Scenarios, NEW f, IsNeeds(f), NEW g, IsNeeds(g), NEW r \in Resources,
         NEW x, x.tasks \subseteq Work, x.running \subseteq Work,
         \A w \in x.tasks \cup x.running : is_sufficient_to_meet(f[w], g[w]), EnoughFor(r, x, f)
  PROVE  EnoughFor(r, x, g)
<1>1. SUFFICES ASSUME NEW n \in ResourceNames
               PROVE  r[n] >= Total(g, x.tasks)[n] + Total(g, x.running)[n]
  BY Zenon DEF EnoughFor
<1>2. r[n] >= Total(f, x.tasks)[n] + Total(f, x.running)[n] /\ r[n] \in Int
  BY Zenon DEF EnoughFor, Resources
<1>3. /\ Total(f, x.tasks)[n] \in Nat /\ Total(g, x.tasks)[n] \in Nat
      /\ Total(g, x.tasks)[n] <= Total(f, x.tasks)[n]
  BY NeedsSmaller, Zenon
<1>4. /\ Total(f, x.running)[n] \in Nat /\ Total(g, x.running)[n] \in Nat
      /\ Total(g, x.running)[n] <= Total(f, x.running)[n]
  BY NeedsSmaller, Zenon
<1>. QED
  BY <1>2, <1>3, <1>4

\* Jobs that wait in the queue.
Queue == {w \in Jobs : work[w].st = "waiting"}

\* A scheduling node of a plan: what is allocated is enough for what is planned, where f
\* says what its new executions get.
NodeFits(x, f) ==
  /\ NodeFields \subseteq DOMAIN x /\ x.allocated \in Resources /\ x.remaining \in Resources
  /\ x.tasks \subseteq Work \ Queue /\ x.running \subseteq Work \ Queue /\ x.queued \subseteq Queue
  /\ \A n \in ResourceNames :
       x.allocated[n] >= Total(Need, x.tasks)[n] + Total(Need, x.running)[n] + Total(f, x.queued)[n]

\* Queued jobs are work.
LEMMA QueueFacts == Queue \subseteq Jobs /\ Jobs \subseteq Work
BY Zenon DEF Queue, Jobs

\* A task or the next task of an execution is accepted, and what it needs is allocated.
LEMMA AcceptFits ==
  ASSUME scenario \in Scenarios, IsNeeds(Need), NEW f, IsNeeds(f), NEW s, NodeFits(s, f), NEW w \in Work \ Queue,
         NEW x, x \in {accept_task(s, Need, w), accept_job_exe_next_task(s, Need, w)}
  PROVE  NodeFits(x, f) /\ x.queued = s.queued
<1>. DEFINE y == Allocate(s, Need[w])
<1>1. /\ DOMAIN y = DOMAIN s /\ y.tasks = s.tasks /\ y.running = s.running /\ y.queued = s.queued
      /\ y.allocated = add(s.allocated, Need[w]) /\ y.remaining = subtract(s.remaining, Need[w])
  BY DEF NodeFits, NodeFields, Allocate
<1>2. x = [y EXCEPT !.tasks = @ \cup {w}] \/ x = [y EXCEPT !.running = @ \cup {w}]
  BY Zenon DEF accept_task, accept_job_exe_next_task
<1>. HIDE DEF y
<1>3. /\ DOMAIN x = DOMAIN s /\ x.queued = s.queued /\ x.allocated = y.allocated /\ x.remaining = y.remaining
      /\ \/ x.tasks = s.tasks \cup {w} /\ x.running = s.running
         \/ x.tasks = s.tasks /\ x.running = s.running \cup {w}
  BY <1>1, <1>2 DEF NodeFits, NodeFields
<1>4. Need[w] \in Resources /\ s.allocated \in Resources /\ s.remaining \in Resources
  BY AmountFacts, Zenon DEF IsNeeds, NodeFits
<1>5. /\ x.allocated \in Resources /\ x.remaining \in Resources
      /\ \A n \in ResourceNames : x.allocated[n] = s.allocated[n] + Need[w][n]
  <2>. DEFINE r == Need[w]
  <2>1. r \in Resources /\ x.allocated = add(s.allocated, r) /\ x.remaining = subtract(s.remaining, r)
    BY <1>1, <1>3, <1>4, Zenon
  <2>. HIDE DEF r
  <2>2. x.allocated \in Resources /\ \A n \in ResourceNames : x.allocated[n] = s.allocated[n] + r[n]
    BY <1>4, <2>1, AddFacts
  <2>3. x.remaining \in Resources
    BY <1>4, <2>1, AddFacts
  <2>. QED
    BY <2>2, <2>3, Zenon DEF r
<1>6. /\ x.tasks \subseteq Work \ Queue /\ x.running \subseteq Work \ Queue /\ x.queued \subseteq Queue
      /\ NodeFields \subseteq DOMAIN x
  BY <1>3, Zenon DEF NodeFits
<1>7. ASSUME NEW n \in ResourceNames
      PROVE  x.allocated[n] >= Total(Need, x.tasks)[n] + Total(Need, x.running)[n] + Total(f, x.queued)[n]
  <2>1. s.allocated[n] >= Total(Need, s.tasks)[n] + Total(Need, s.running)[n] + Total(f, s.queued)[n]
    BY Zenon DEF NodeFits
  <2>2. s.tasks \subseteq Work /\ s.running \subseteq Work /\ s.queued \subseteq Work
    BY QueueFacts, Zenon DEF NodeFits
  <2>3. Total(Need, s.tasks)[n] \in Nat /\ Total(Need, s.running)[n] \in Nat /\ Total(f, s.queued)[n] \in Nat
    BY <2>2, NeedsSum, Zenon
  <2>4. s.allocated[n] \in Int
    BY <1>4, Zenon DEF Resources
  <2>5. ASSUME NEW S, S \subseteq Work
        PROVE  /\ Need[w][n] \in Nat /\ Total(Need, S \cup {w})[n] \in Nat
               /\ Total(Need, S \cup {w})[n] <= Total(Need, S)[n] + Need[w][n]
    <3>1. IsFiniteSet(S) /\ \A v \in S \cup {w} : Need[v] \in Amounts
      BY <2>5, WorkFinite, Zenon DEF IsNeeds
    <3>. DEFINE h == Need
    <3>2. IsFiniteSet(S) /\ \A v \in S \cup {w} : h[v] \in Amounts
      BY <3>1
    <3>. HIDE DEF h
    <3>3. /\ h[w][n] \in Nat /\ Total(h, S \cup {w})[n] \in Nat
          /\ Total(h, S \cup {w})[n] <= Total(h, S)[n] + h[w][n]
      BY <3>2, TotalAdd, Zenon
    <3>. QED
      BY <3>3 DEF h
  <2>6. CASE x.tasks = s.tasks \cup {w} /\ x.running = s.running
    <3>1. /\ Need[w][n] \in Nat /\ Total(Need, s.tasks \cup {w})[n] \in Nat
          /\ Total(Need, s.tasks \cup {w})[n] <= Total(Need, s.tasks)[n] + Need[w][n]
      BY <2>2, <2>5, Zenon
    <3>2. /\ Total(Need, x.tasks)[n] = Total(Need, s.tasks \cup {w})[n]
          /\ Total(Need, x.running)[n] = Total(Need, s.running)[n] /\ Total(f, x.queued)[n] = Total(f, s.queued)[n]
          /\ x.allocated[n] = s.allocated[n] + Need[w][n]
      BY <1>3, <1>5, <2>6, Zenon
    <3>. QED
      BY <2>1, <2>3, <2>4, <3>1, <3>2
  <2>7. CASE x.tasks = s.tasks /\ x.running = s.running \cup {w}
    <3>1. /\ Need[w][n] \in Nat /\ Total(Need, s.running \cup {w})[n] \in Nat
          /\ Total(Need, s.running \cup {w})[n] <= Total(Need, s.running)[n] + Need[w][n]
      BY <2>2, <2>5, Zenon
    <3>2. /\ Total(Need, x.running)[n] = Total(Need, s.running \cup {w})[n]
          /\ Total(Need, x.tasks)[n] = Total(Need, s.tasks)[n] /\ Total(f, x.queued)[n] = Total(f, s.queued)[n]
          /\ x.allocated[n] = s.allocated[n] + Need[w][n]
      BY <1>3, <1>5, <2>7, Zenon
    <3>. QED
      BY <2>1, <2>3, <2>4, <3>1, <3>2
  <2>. QED
    BY <1>3, <2>6, <2>7, Zenon
<1>. QED
  BY <1>3, <1>5, <1>6, <1>7, Zenon DEF NodeFits

\* The nodes of a plan still fit if the new executions get the same.
LEMMA SameFits ==
  ASSUME scenario \in Scenarios, IsNeeds(Need), NEW f, IsNeeds(f), NEW g, IsNeeds(g), NEW x, NodeFits(x, f),
         \A v \in x.queued : g[v] = f[v]
  PROVE  NodeFits(x, g)
<1>1. ASSUME NEW n \in ResourceNames
      PROVE  x.allocated[n] >= Total(Need, x.tasks)[n] + Total(Need, x.running)[n] + Total(g, x.queued)[n]
  <2>1. /\ x.allocated[n] >= Total(Need, x.tasks)[n] + Total(Need, x.running)[n] + Total(f, x.queued)[n]
        /\ x.allocated[n] \in Int
    BY Zenon DEF NodeFits, Resources
  <2>2. x.tasks \subseteq Work /\ x.running \subseteq Work /\ x.queued \subseteq Work
    BY QueueFacts, Zenon DEF NodeFits
  <2>3. Total(Need, x.tasks)[n] \in Nat /\ Total(Need, x.running)[n] \in Nat
    BY <2>2, NeedsSum, Zenon
  <2>4. \A v \in x.queued : is_sufficient_to_meet(f[v], g[v])
    <3>. TAKE v \in x.queued
    <3>1. f[v] \in Amounts /\ g[v] = f[v]
      BY <2>2, Zenon DEF IsNeeds
    <3>. QED
      BY <3>1 DEF Amounts, is_sufficient_to_meet
  <2>5. /\ Total(f, x.queued)[n] \in Nat /\ Total(g, x.queued)[n] \in Nat
        /\ Total(g, x.queued)[n] <= Total(f, x.queued)[n]
    BY <2>2, <2>4, NeedsSmaller, Zenon
  <2>. QED
    BY <2>1, <2>3, <2>5
<1>. QED
  BY <1>1, Zenon DEF NodeFits

\* A new execution that needs t is accepted, and gets no more than what is allocated for it.
LEMMA NewExeFits ==
  ASSUME scenario \in Scenarios, IsNeeds(Need), NEW f, IsNeeds(f), NEW g, IsNeeds(g), NEW s, NodeFits(s, f),
         NEW w \in Queue, NEW t, GreedyNeed(s, t) \in Amounts, is_sufficient_to_meet(GreedyNeed(s, t), g[w]),
         \A v \in s.queued : g[v] = f[v]
  PROVE  /\ NodeFits(accept_new_job_exe(s, t, w), g)
         /\ accept_new_job_exe(s, t, w).queued = s.queued \cup {w}
<1>. DEFINE r == GreedyNeed(s, t)
            x == accept_new_job_exe(s, t, w)
            y == Allocate(s, r)
<1>. HIDE DEF r
<1>1. /\ DOMAIN y = DOMAIN s /\ y.tasks = s.tasks /\ y.running = s.running /\ y.queued = s.queued
      /\ y.allocated = add(s.allocated, r) /\ y.remaining = subtract(s.remaining, r)
  BY DEF NodeFits, NodeFields, Allocate
<1>2. x = [y EXCEPT !.queued = @ \cup {w}]
  BY Zenon DEF accept_new_job_exe, r
<1>. HIDE DEF x, y
<1>3. /\ DOMAIN x = DOMAIN s /\ x.queued = s.queued \cup {w} /\ x.tasks = s.tasks /\ x.running = s.running
      /\ x.allocated = add(s.allocated, r) /\ x.remaining = subtract(s.remaining, r)
  BY <1>1, <1>2 DEF NodeFits, NodeFields
<1>4. r \in Resources /\ s.allocated \in Resources /\ s.remaining \in Resources /\ NodeFits(s, g)
  BY AmountFacts, SameFits, Zenon DEF NodeFits, r
<1>5. x.allocated \in Resources /\ \A n \in ResourceNames : x.allocated[n] = s.allocated[n] + r[n]
  BY <1>3, <1>4, AddFacts
<1>6. x.remaining \in Resources
  BY <1>3, <1>4, AddFacts
<1>7. /\ x.tasks \subseteq Work \ Queue /\ x.running \subseteq Work \ Queue /\ x.queued \subseteq Queue
      /\ NodeFields \subseteq DOMAIN x
  BY <1>3, Zenon DEF NodeFits
<1>8. ASSUME NEW n \in ResourceNames
      PROVE  x.allocated[n] >= Total(Need, x.tasks)[n] + Total(Need, x.running)[n] + Total(g, x.queued)[n]
  <2>1. /\ s.allocated[n] >= Total(Need, s.tasks)[n] + Total(Need, s.running)[n] + Total(g, s.queued)[n]
        /\ s.allocated[n] \in Int
    BY <1>4, Zenon DEF NodeFits, Resources
  <2>2. s.tasks \subseteq Work /\ s.running \subseteq Work /\ s.queued \subseteq Work
    BY QueueFacts, Zenon DEF NodeFits
  <2>3. Total(Need, s.tasks)[n] \in Nat /\ Total(Need, s.running)[n] \in Nat /\ Total(g, s.queued)[n] \in Nat
    BY <2>2, NeedsSum, Zenon
  <2>4. IsFiniteSet(s.queued) /\ \A v \in s.queued \cup {w} : g[v] \in Amounts
    BY <2>2, WorkFinite, QueueFacts, Zenon DEF IsNeeds
  <2>5. /\ g[w][n] \in Nat /\ Total(g, s.queued \cup {w})[n] \in Nat
        /\ Total(g, s.queued \cup {w})[n] <= Total(g, s.queued)[n] + g[w][n]
    BY <2>4, TotalAdd, Zenon
  <2>6. r[n] \in Nat /\ r[n] >= g[w][n]
    BY Zenon DEF Amounts, is_sufficient_to_meet, r
  <2>7. /\ Total(Need, x.tasks)[n] = Total(Need, s.tasks)[n] /\ Total(Need, x.running)[n] = Total(Need, s.running)[n]
        /\ Total(g, x.queued)[n] = Total(g, s.queued \cup {w})[n] /\ x.allocated[n] = s.allocated[n] + r[n]
    BY <1>3, <1>5, Zenon
  <2>. QED
    BY <2>1, <2>3, <2>5, <2>6, <2>7
<1>. QED
  BY <1>3, <1>5, <1>6, <1>7, <1>8, Zenon DEF NodeFits, x

\* The gpus that an execution gets: at least what it needs, and not less for more.
LEMMA GreedyFacts ==
  ASSUME NEW s, s.remaining \in Resources, NEW r \in Amounts, NEW t \in Amounts, is_sufficient_to_meet(t, r)
  PROVE  /\ GreedyNeed(s, r) \in Amounts /\ is_sufficient_to_meet(GreedyNeed(s, r), r)
         /\ is_sufficient_to_meet(GreedyNeed(s, t), GreedyNeed(s, r))
<1>. DEFINE m == s.remaining["gpus"]
            G(a) == [n \in ResourceNames |-> IF n = "gpus" /\ a["gpus"] > 0 /\ a["gpus"] < m THEN m ELSE a[n]]
<1>1. m \in Int
  BY DEF Resources, ResourceNames
<1>2. ASSUME NEW a \in Amounts PROVE GreedyNeed(s, a) = G(a)
  <2>. DEFINE gp == [NoResources EXCEPT !["gpus"] = m]
  <2>1. gp["gpus"] = m /\ gp["cpus"] = 0
    BY DEF NoResources, ResourceNames
  <2>. HIDE DEF gp, m
  <2>2. CASE a["gpus"] > 0
    <3>1. GreedyNeed(s, a) = increase_up_to(a, gp)
      BY <2>2, Zenon DEF GreedyNeed, gp, m
    <3>2. \A n \in ResourceNames : (IF a[n] < gp[n] THEN gp[n] ELSE a[n]) = G(a)[n]
      BY <1>1, <2>1, <2>2 DEF Amounts, ResourceNames
    <3>. QED
      BY <3>1, <3>2, Zenon DEF increase_up_to
  <2>3. CASE ~(a["gpus"] > 0)
    <3>1. GreedyNeed(s, a) = a
      BY <2>3, Zenon DEF GreedyNeed
    <3>2. a = [n \in ResourceNames |-> a[n]]
      BY Zenon DEF Amounts
    <3>3. \A n \in ResourceNames : a[n] = G(a)[n]
      BY <2>3, Zenon
    <3>. QED
      BY <3>1, <3>2, <3>3, Zenon
  <2>. QED
    BY <2>2, <2>3, Zenon
<1>3. GreedyNeed(s, r) = G(r) /\ GreedyNeed(s, t) = G(t)
  BY <1>2, Zenon
<1>. HIDE DEF m
<1>4. G(r) \in Amounts
  BY <1>1 DEF Amounts, ResourceNames
<1>5. \A n \in ResourceNames : G(r)[n] >= r[n]
  BY <1>1 DEF Amounts, ResourceNames
<1>6. \A n \in ResourceNames : G(t)[n] >= G(r)[n]
  BY <1>1 DEF Amounts, ResourceNames, is_sufficient_to_meet
<1>. QED
  BY <1>3, <1>4, <1>5, <1>6, Zenon DEF is_sufficient_to_meet

-----------------------------------------------------------------------------
(* Plans that fit.                                                         *)

\* A plan whose nodes fit. Work that is not in the queue gets no more than it needed,
\* and the new executions are some of done.
PlanFits(p, done) ==
  /\ HasNeeds(p.work)
  /\ \A w \in Work \ Queue : is_sufficient_to_meet(Need[w], p.work[w].need)
  /\ \A n \in Nodes : NodeFits(p.sn[n], PlanNeed(p)) /\ p.sn[n].queued \subseteq done

\* What the work of a state or a plan needs.
LEMMA NeedsFacts ==
  /\ HasNeeds(work) => IsNeeds(Need) /\ \A w \in Work : Need[w] = work[w].need
  /\ \A p : HasNeeds(p.work) => IsNeeds(PlanNeed(p))
BY Zenon DEF HasNeeds, IsNeeds, Need, PlanNeed

\* A task has been planned, or not.
LEMMA PlanKept ==
  ASSUME NEW p, NEW done, PlanFits(p, done), NEW q,
         \A w \in Work : "need" \in DOMAIN q.work[w] /\ q.work[w].need = p.work[w].need,
         \A n \in Nodes : \/ q.sn[n] = p.sn[n]
                          \/ NodeFits(q.sn[n], PlanNeed(p)) /\ q.sn[n].queued = p.sn[n].queued
  PROVE  PlanFits(q, done)
<1>1. PlanNeed(q) = PlanNeed(p)
  BY Zenon DEF PlanNeed
<1>2. HasNeeds(q.work)
  BY Zenon DEF PlanFits, HasNeeds
<1>3. \A w \in Work \ Queue : is_sufficient_to_meet(Need[w], q.work[w].need)
  BY Zenon DEF PlanFits
<1>4. \A n \in Nodes : NodeFits(q.sn[n], PlanNeed(q)) /\ q.sn[n].queued \subseteq done
  BY <1>1, Zenon DEF PlanFits
<1>. QED
  BY <1>2, <1>3, <1>4, Zenon DEF PlanFits

\* A node of a plan accepts a task.
LEMMA AcceptedFits ==
  ASSUME scenario \in Scenarios, IsNeeds(Need), NEW p, NEW done, PlanFits(p, done), NEW w \in Work \ Queue,
         NEW n \in Nodes
  PROVE  /\ NodeFits(accept_task(p.sn[n], Need, w), PlanNeed(p))
         /\ accept_task(p.sn[n], Need, w).queued = p.sn[n].queued
         /\ NodeFits(accept_job_exe_next_task(p.sn[n], Need, w), PlanNeed(p))
         /\ accept_job_exe_next_task(p.sn[n], Need, w).queued = p.sn[n].queued
<1>. DEFINE f == PlanNeed(p)
            s == p.sn[n]
            x == accept_task(s, Need, w)
            y == accept_job_exe_next_task(s, Need, w)
<1>1. IsNeeds(f) /\ NodeFits(s, f)
  BY NeedsFacts, Zenon DEF PlanFits
<1>2. /\ x \in {accept_task(s, Need, w), accept_job_exe_next_task(s, Need, w)}
      /\ y \in {accept_task(s, Need, w), accept_job_exe_next_task(s, Need, w)}
  BY Zenon
<1>. HIDE DEF f, s, x, y
<1>3. NodeFits(x, f) /\ x.queued = s.queued
  BY <1>1, <1>2, AcceptFits
<1>4. NodeFits(y, f) /\ y.queued = s.queued
  BY <1>1, <1>2, AcceptFits
<1>. QED
  BY <1>3, <1>4, Zenon DEF f, s, x, y

\* A field of a plan that says nothing of its resources.
LEMMA OtherFits ==
  ASSUME NEW p, IsPlan(p), NEW done, PlanFits(p, done), NEW field \in {"fulfilled", "avail", "sys"}, NEW v,
         NEW q, q = [p EXCEPT ![field] = v]
  PROVE  PlanFits(q, done)
<1>1. q.sn = p.sn /\ q.work = p.work
  BY DEF IsPlan
<1>2. \A w \in Work : "need" \in DOMAIN q.work[w]
  BY <1>1, Zenon DEF PlanFits, HasNeeds
<1>. QED
  BY <1>1, <1>2, PlanKept, ZenonT(30)

\* accept_node_tasks.
LEMMA NodeTaskFits ==
  ASSUME scenario \in Scenarios, IsNeeds(Need), NEW p, IsPlan(p), NEW done, PlanFits(p, done),
         NEW w \in Work \ Queue, NEW q \in NodeTaskStep(p, w)
  PROVE  PlanFits(q, done)
<1>. DEFINE n == work[w].node
            f == [p.work EXCEPT ![w].agent = nodes[n].agent]
            made == [p EXCEPT !.work = f]
            x == accept_task(p.sn[n], Need, w)
            sn == [p.sn EXCEPT ![n] = x]
<1>1. q = [made EXCEPT !.sn[n] = accept_task(@, Need, w)] \/ q = [made EXCEPT !.fulfilled = @ \ {n}]
  BY DEF NodeTaskStep
<1>2. IsWork(p.work) /\ HasNeeds(p.work)
  BY Zenon DEF IsPlan, PlanFits
<1>3. \A u \in Work : "need" \in DOMAIN f[u] /\ f[u].need = p.work[u].need
  <2>. DEFINE y == [p.work[w] EXCEPT !.agent = nodes[n].agent]
  <2>1. "need" \in DOMAIN y /\ y.need = p.work[w].need
    BY <1>2, Zenon DEF HasNeeds
  <2>2. \A u \in Work : f[u] = IF u = w THEN y ELSE p.work[u]
    BY <1>2, Zenon DEF IsWork
  <2>. HIDE DEF f, y
  <2>. QED
    BY <1>2, <2>1, <2>2, Zenon DEF HasNeeds
<1>. HIDE DEF f
<1>5. DOMAIN made = DOMAIN p /\ made.sn = p.sn /\ made.work = f
  BY DEF IsPlan
<1>. HIDE DEF made
<1>6. CASE q = [made EXCEPT !.fulfilled = @ \ {n}]
  <2>1. q.sn = p.sn /\ q.work = f
    BY <1>5, <1>6 DEF IsPlan
  <2>. QED
    BY <1>3, <2>1, PlanKept, ZenonT(30)
<1>7. CASE q = [made EXCEPT !.sn[n] = accept_task(@, Need, w)]
  <2>1. q = [made EXCEPT !.sn = sn]
    BY <1>5, <1>7, Zenon
  <2>. HIDE DEF sn
  <2>2. q.sn = sn /\ q.work = f
    BY <1>5, <2>1 DEF IsPlan
  <2>3. /\ \A m \in Nodes : q.sn[m] = IF m = n THEN x ELSE p.sn[m]
        /\ \A u \in Work : "need" \in DOMAIN q.work[u] /\ q.work[u].need = p.work[u].need
    BY <1>3, <2>2, Zenon DEF sn, IsPlan, IsNodes
  <2>4. n \in Nodes => NodeFits(x, PlanNeed(p)) /\ x.queued = p.sn[n].queued
    BY AcceptedFits, Zenon
  <2>. HIDE DEF x, n
  <2>. QED
    BY <2>3, <2>4, PlanKept, ZenonT(30)
<1>. QED
  BY <1>1, <1>6, <1>7, Zenon

\* The next task of an execution.
LEMMA NextTaskFits ==
  ASSUME scenario \in Scenarios, IsNeeds(Need), NEW p, IsPlan(p), NEW done, PlanFits(p, done),
         NEW w \in Work \ Queue, NEW q \in NextTaskStep(p, w)
  PROVE  PlanFits(q, done)
<1>. DEFINE n == work[w].node
            x == accept_job_exe_next_task(p.sn[n], Need, w)
            sn == [p.sn EXCEPT ![n] = x]
<1>1. q \in {[p EXCEPT !.sn = sn], [p EXCEPT !.fulfilled = @ \ {n}]}
  BY Zenon DEF NextTaskStep
<1>2. \A u \in Work : "need" \in DOMAIN p.work[u]
  BY Zenon DEF PlanFits, HasNeeds
<1>3. CASE q = [p EXCEPT !.fulfilled = @ \ {n}]
  BY <1>3, OtherFits, Zenon
<1>4. CASE q = [p EXCEPT !.sn = sn]
  <2>. HIDE DEF sn
  <2>1. q.sn = sn /\ q.work = p.work
    BY <1>4 DEF IsPlan
  <2>2. /\ \A m \in Nodes : q.sn[m] = IF m = n THEN x ELSE p.sn[m]
        /\ \A u \in Work : "need" \in DOMAIN q.work[u] /\ q.work[u].need = p.work[u].need
    BY <1>2, <2>1, Zenon DEF sn, IsPlan, IsNodes
  <2>3. n \in Nodes => NodeFits(x, PlanNeed(p)) /\ x.queued = p.sn[n].queued
    BY AcceptedFits, Zenon
  <2>. HIDE DEF x, n
  <2>. QED
    BY <2>2, <2>3, PlanKept, ZenonT(30)
<1>. QED
  BY <1>1, <1>3, <1>4, Zenon

\* A task of a service.
LEMMA SystemTaskFits ==
  ASSUME scenario \in Scenarios, IsNeeds(Need), NEW p, IsPlan(p), NEW done, PlanFits(p, done),
         NEW w \in Work \ Queue, NEW q \in SystemTaskStep(p, w)
  PROVE  PlanFits(q, done)
<1>1. PICK n : \/ q = [p EXCEPT !.sys = FALSE]
               \/ q = [p EXCEPT !.sn[n] = accept_task(@, Need, w), !.work[w].agent = p.sn[n].agent,
                                !.work[w].node = n]
  BY Zenon DEF SystemTaskStep
<1>. DEFINE x == accept_task(p.sn[n], Need, w)
            sn == [p.sn EXCEPT ![n] = x]
            y == [p.work[w] EXCEPT !.agent = p.sn[n].agent]
            z == [y EXCEPT !.node = n]
            f == [p.work EXCEPT ![w].agent = p.sn[n].agent]
            g == [f EXCEPT ![w].node = n]
            a == [p EXCEPT !.sn = sn]
            b == [a EXCEPT !.work = f]
            c == [b EXCEPT !.work = g]
<1>2. IsWork(p.work) /\ HasNeeds(p.work)
  BY Zenon DEF IsPlan, PlanFits
<1>3. CASE q = [p EXCEPT !.sys = FALSE]
  BY <1>3, OtherFits
<1>4. CASE q = [p EXCEPT !.sn[n] = accept_task(@, Need, w), !.work[w].agent = p.sn[n].agent, !.work[w].node = n]
  <2>1. a.work = p.work /\ b.work = f
    BY Zenon DEF IsPlan
  <2>2. q = c
    BY <1>4, <2>1, Zenon
  <2>3. "need" \in DOMAIN y /\ y.need = p.work[w].need
    BY <1>2, Zenon DEF HasNeeds
  <2>4. DOMAIN f = Work /\ \A u \in Work : f[u] = IF u = w THEN y ELSE p.work[u]
    BY <1>2, Zenon DEF IsWork
  <2>. HIDE DEF y, f
  <2>5. "need" \in DOMAIN z /\ z.need = p.work[w].need
    BY <2>3, Zenon
  <2>6. \A u \in Work : g[u] = IF u = w THEN z ELSE p.work[u]
    BY <2>4, Zenon
  <2>. HIDE DEF z, g
  <2>7. \A u \in Work : "need" \in DOMAIN g[u] /\ g[u].need = p.work[u].need
    BY <1>2, <2>5, <2>6, Zenon DEF HasNeeds
  <2>. HIDE DEF sn
  <2>8. q.sn = sn /\ q.work = g
    <3>1. DOMAIN a = DOMAIN p /\ a.sn = sn
      BY DEF IsPlan
    <3>. HIDE DEF a
    <3>2. DOMAIN b = DOMAIN p /\ b.sn = sn
      BY <3>1 DEF IsPlan
    <3>. HIDE DEF b
    <3>. QED
      BY <2>2, <3>2 DEF IsPlan
  <2>9. /\ \A m \in Nodes : q.sn[m] = IF m = n THEN x ELSE p.sn[m]
        /\ \A u \in Work : "need" \in DOMAIN q.work[u] /\ q.work[u].need = p.work[u].need
    BY <2>7, <2>8, Zenon DEF sn, IsPlan, IsNodes
  <2>10. n \in Nodes => NodeFits(x, PlanNeed(p)) /\ x.queued = p.sn[n].queued
    BY AcceptedFits, Zenon
  <2>. HIDE DEF x
  <2>. QED
    BY <2>9, <2>10, PlanKept, ZenonT(30)
<1>. QED
  BY <1>1, <1>3, <1>4, Zenon

\* An execution of the queue, which had not had its turn.
LEMMA QueueFits ==
  ASSUME scenario \in Scenarios, IsNeeds(Need), HasNeeds(work), NEW p, IsPlan(p), NEW done, PlanFits(p, done),
         NEW w \in Queue, w \notin done, NEW q \in QueueStep(p, w)
  PROVE  PlanFits(q, done \cup {w})
<1>. DEFINE fit == {n \in p.avail : Fits(p.sn[n], Need[w])}
            rate == [n \in fit |-> _score_resources_for_scheduling(p.sn[n], Need[w], JobTypes)]
<1>1. \/ q = p
      \/ \E n : q = [p EXCEPT !.avail = @ \ {n}]
      \/ \E n \in Best(rate) :
           q = [p EXCEPT !.sn[n] = accept_new_job_exe(@, Need[w], w), !.work[w] = Started(w, p, n)]
  BY Zenon DEF QueueStep, _schedule_new_job_exe, Reserve
<1>2. ASSUME PlanFits(q, done) PROVE PlanFits(q, done \cup {w})
  BY <1>2, Zenon DEF PlanFits
<1>3. ASSUME NEW n, q = [p EXCEPT !.avail = @ \ {n}] PROVE PlanFits(q, done)
  <2>1. q = [p EXCEPT !.avail = p.avail \ {n}]
    BY <1>3, Zenon
  <2>. QED
    BY <2>1, OtherFits
<1>4. ASSUME NEW n \in Best(rate),
             q = [p EXCEPT !.sn[n] = accept_new_job_exe(@, Need[w], w), !.work[w] = Started(w, p, n)]
      PROVE  PlanFits(q, done \cup {w})
  <2>1. n \in Nodes
    <3>1. DOMAIN rate = fit
      BY Zenon
    <3>. HIDE DEF rate, fit
    <3>2. n \in fit
      BY <1>4, <3>1, BestFacts, Zenon
    <3>. QED
      BY <3>2, Zenon DEF fit, IsPlan
  <2>. DEFINE s == p.sn[n]
              r == GreedyNeed(s, Need[w])
              x == accept_new_job_exe(s, Need[w], w)
              sn == [p.sn EXCEPT ![n] = x]
              f == [p.work EXCEPT ![w] = Started(w, p, n)]
              a == [p EXCEPT !.sn = sn]
              b == [a EXCEPT !.work = f]
  <2>2. a.work = p.work /\ DOMAIN a = DOMAIN p /\ a.sn = sn
    BY DEF IsPlan
  <2>3. q = b
    BY <1>4, <2>2, Zenon
  <2>. HIDE DEF sn, f, a
  <2>4. q.sn = sn /\ q.work = f
    BY <2>2, <2>3 DEF IsPlan
  <2>5. w \in Work /\ IsWork(p.work) /\ HasNeeds(p.work)
    BY QueueFacts, Zenon DEF IsPlan, PlanFits
  <2>6. /\ \A m \in Nodes : q.sn[m] = IF m = n THEN x ELSE p.sn[m]
        /\ \A u \in Work : q.work[u] = IF u = w THEN Started(w, p, n) ELSE p.work[u]
    BY <2>4, <2>5, Zenon DEF sn, f, IsPlan, IsNodes, IsWork
  <2>7. "need" \in DOMAIN Started(w, p, n) /\ Started(w, p, n).need = GreedyNeed(s, scenario.work[w].need)
    BY DEF Started
  <2>8. /\ scenario.work[w].need \in Amounts /\ Need[w] \in Amounts
        /\ is_sufficient_to_meet(Need[w], scenario.work[w].need)
    BY <2>5, ScenariosAssumption, NeedsFacts, Zenon DEF HasNeeds, IsNeeds, Work
  <2>9. s.remaining \in Resources /\ NodeFits(s, PlanNeed(p))
    BY <2>1, Zenon DEF PlanFits, NodeFits
  <2>10. /\ GreedyNeed(s, scenario.work[w].need) \in Amounts
         /\ is_sufficient_to_meet(GreedyNeed(s, scenario.work[w].need), scenario.work[w].need)
         /\ is_sufficient_to_meet(r, GreedyNeed(s, scenario.work[w].need))
    BY <2>8, <2>9, GreedyFacts, Zenon
  <2>11. r \in Amounts
    <3>1. is_sufficient_to_meet(Need[w], Need[w])
      <4>. DEFINE k == Need[w]
      <4>1. k \in Amounts
        BY <2>8, Zenon
      <4>. HIDE DEF k
      <4>2. is_sufficient_to_meet(k, k)
        BY <4>1 DEF is_sufficient_to_meet, Amounts
      <4>. QED
        BY <4>2, Zenon DEF k
    <3>. QED
      BY <2>8, <2>9, <3>1, GreedyFacts, Zenon
  <2>. HIDE DEF s, r, x, fit, rate
  <2>12. HasNeeds(q.work)
    BY <2>5, <2>6, <2>7, <2>10, Zenon DEF HasNeeds
  <2>13. \A u \in Work \ Queue : is_sufficient_to_meet(Need[u], q.work[u].need)
    BY <2>6, Zenon DEF PlanFits
  <2>. DEFINE d == PlanNeed(p)
              e == PlanNeed(q)
  <2>14. /\ IsNeeds(d) /\ IsNeeds(e) /\ is_sufficient_to_meet(r, e[w])
         /\ \A v \in Work : v # w => e[v] = d[v]
    <3>1. IsNeeds(d) /\ IsNeeds(e)
      BY <2>5, <2>12, NeedsFacts, Zenon
    <3>2. e[w] = q.work[w].need /\ \A v \in Work : v # w => e[v] = d[v]
      BY <2>5, <2>6, Zenon DEF PlanNeed
    <3>3. q.work[w].need = GreedyNeed(s, scenario.work[w].need)
      BY <2>5, <2>6, <2>7, Zenon
    <3>. QED
      BY <2>10, <3>1, <3>2, <3>3, Zenon
  <2>15. \A m \in Nodes : /\ NodeFits(p.sn[m], d) /\ p.sn[m].queued \subseteq done
                          /\ \A v \in p.sn[m].queued : e[v] = d[v]
    BY <2>14, QueueFacts, Zenon DEF PlanFits, NodeFits
  <2>16. NodeFits(x, e) /\ x.queued = s.queued \cup {w} /\ s.queued \subseteq done
    <3>1. NodeFits(s, d) /\ s.queued \subseteq done /\ \A v \in s.queued : e[v] = d[v]
      BY <2>1, <2>15, Zenon DEF s
    <3>. DEFINE k == Need[w]
    <3>2. GreedyNeed(s, k) \in Amounts /\ is_sufficient_to_meet(GreedyNeed(s, k), e[w])
      BY <2>11, <2>14, Zenon DEF r
    <3>. HIDE DEF d, e, k
    <3>3. /\ NodeFits(accept_new_job_exe(s, k, w), e)
          /\ accept_new_job_exe(s, k, w).queued = s.queued \cup {w}
      BY <2>14, <3>1, <3>2, NewExeFits
    <3>. QED
      BY <3>1, <3>3, Zenon DEF k, x
  <2>17. \A m \in Nodes : m # n => NodeFits(p.sn[m], e)
    <3>. HIDE DEF d, e
    <3>. QED
      BY <2>14, <2>15, SameFits, Zenon
  <2>18. \A m \in Nodes : NodeFits(q.sn[m], e) /\ q.sn[m].queued \subseteq done \cup {w}
    <3>. HIDE DEF d, e
    <3>. QED
      BY <2>6, <2>15, <2>16, <2>17, Zenon
  <2>. QED
    BY <2>12, <2>13, <2>18, Zenon DEF PlanFits
<1>5. CASE q = p
  BY <1>2, <1>5, Zenon
<1>. QED
  BY <1>1, <1>2, <1>3, <1>4, <1>5, Zenon

\* Work that has a turn in a pass.
Turns ==
  {w \in Work : Kind(w) \in {"node", "system"} \/ (Kind(w) = "job" /\ work[w].st \in {"active", "waiting"})}

\* A plan that fits still does when a piece of work has had its turn.
LEMMA StepFits ==
  ASSUME scenario \in Scenarios, HasNeeds(work), NEW p, IsPlan(p), NEW done, PlanFits(p, done),
         NEW w \in Turns, w \notin done, NEW q \in Step(p, w)
  PROVE  PlanFits(q, done \cup ({w} \cap Queue))
<1>1. IsNeeds(Need)
  BY NeedsFacts, Zenon
<1>2. ASSUME PlanFits(q, done) PROVE PlanFits(q, done \cup ({w} \cap Queue))
  BY <1>2, Zenon DEF PlanFits
<1>3. CASE Kind(w) = "node"
  <2>1. w \in Work \ Queue /\ q \in NodeTaskStep(p, w)
    BY <1>3 DEF Step, Queue, Jobs, Turns
  <2>. QED
    BY <1>1, <1>2, <2>1, NodeTaskFits, Zenon
<1>4. CASE Kind(w) = "system"
  <2>1. w \in Work \ Queue /\ q \in SystemTaskStep(p, w)
    BY <1>4 DEF Step, Queue, Jobs, Turns
  <2>. QED
    BY <1>1, <1>2, <2>1, SystemTaskFits, Zenon
<1>5. CASE Kind(w) = "job" /\ work[w].st = "active"
  <2>1. w \in Work \ Queue /\ q \in NextTaskStep(p, w)
    BY <1>5 DEF Step, Queue, Jobs, Turns
  <2>. QED
    BY <1>1, <1>2, <2>1, NextTaskFits, Zenon
<1>6. CASE Kind(w) = "job" /\ work[w].st = "waiting"
  <2>1. w \in Queue /\ q \in QueueStep(p, w) /\ done \cup ({w} \cap Queue) = done \cup {w}
    BY <1>6 DEF Step, Queue, Jobs, Turns
  <2>2. PlanFits(q, done \cup {w})
    BY <1>1, <2>1, QueueFits, Zenon
  <2>. QED
    BY <2>1, <2>2, Zenon
<1>. QED
  BY <1>3, <1>4, <1>5, <1>6, Zenon DEF Turns

\* So it does after all turns, if everyone has one turn.
LEMMA FoldFits ==
  ASSUME scenario \in Scenarios, pass.exes \subseteq Jobs, HasNeeds(work), NEW p, Good(p), PlanFits(p, {}),
         NEW s, NEW n \in Nat, \A i \in 1..n : s[i] \in Turns, \A i, j \in 1..n : s[i] = s[j] => i = j,
         NEW f, IsFold(f, p, s, n)
  PROVE  \A q \in f[n] : PlanFits(q, {s[i] : i \in 1..n} \cap Queue)
<1>. DEFINE Done(k) == {s[i] : i \in 1..k} \cap Queue
            T == {k \in 0..n : ~\A q \in f[k] : Good(q) /\ PlanFits(q, Done(k))}
<1>1. SUFFICES ASSUME T # {} PROVE FALSE
  <2>1. n \in 0..n
    OBVIOUS
  <2>. QED
    BY <2>1, Zenon
<1>2. PICK k \in T : \A j \in T : ~(j < k)
  <2>1. T \subseteq Nat
    <3>. HIDE DEF Done
    <3>. QED
      OBVIOUS
  <2>. HIDE DEF T
  <2>. QED
    BY <1>1, <2>1, Smallest, Zenon
<1>3. k \in 0..n /\ ~\A q \in f[k] : Good(q) /\ PlanFits(q, Done(k))
  BY <1>2, Zenon
<1>4. f[0] = {p} /\ \A i \in 0..n : i # 0 => f[i] = Turn(f[i - 1], s[i])
  <2>1. 0 \in 0..n
    OBVIOUS
  <2>. HIDE DEF T
  <2>. QED
    BY <2>1, Zenon DEF IsFold
<1>5. k # 0
  <2>1. Done(0) = {}
    OBVIOUS
  <2>. HIDE DEF Done
  <2>. QED
    BY <1>3, <1>4, <2>1, Zenon
<1>6. k - 1 \in 0..n /\ k - 1 < k /\ k \in 1..n
  BY <1>3, <1>5
<1>7. \A q \in f[k - 1] : Good(q) /\ PlanFits(q, Done(k - 1))
  BY <1>2, <1>6, Zenon
<1>8. \A q \in f[k] : \E r \in f[k - 1] : q \in Step(r, s[k])
  <2>1. f[k] = Turn(f[k - 1], s[k])
    BY <1>3, <1>4, <1>5, Zenon
  <2>. QED
    BY <2>1 DEF Turn
<1>9. s[k] \in Turns /\ s[k] \in Plannable
  BY <1>6 DEF Turns, Plannable
<1>10. s[k] \notin Done(k - 1)
  <2>1. \A i \in 1..(k - 1) : i \in 1..n /\ i # k
    BY <1>6
  <2>. QED
    BY <1>6, <2>1, Zenon
<1>11. Done(k - 1) \cup ({s[k]} \cap Queue) \subseteq Done(k)
  <2>1. k \in 1..k /\ \A i \in 1..(k - 1) : i \in 1..k
    BY <1>6
  <2>. QED
    BY <2>1, Zenon
<1>12. ASSUME NEW q \in f[k] PROVE Good(q) /\ PlanFits(q, Done(k))
  <2>1. PICK r \in f[k - 1] : q \in Step(r, s[k])
    BY <1>8, Zenon
  <2>2. Good(r) /\ PlanFits(r, Done(k - 1)) /\ IsPlan(r)
    BY <1>7, Zenon DEF Good
  <2>3. Good(q)
    BY <1>9, <2>1, <2>2, StepGood, Zenon
  <2>. DEFINE d == Done(k - 1)
              v == s[k]
  <2>. HIDE DEF T, d, v
  <2>4. PlanFits(q, d \cup ({v} \cap Queue))
    <3>1. v \in Turns /\ v \notin d /\ q \in Step(r, v) /\ PlanFits(r, d)
      BY <1>9, <1>10, <2>1, <2>2, Zenon DEF d, v
    <3>. HIDE DEF Done
    <3>. QED
      BY <2>2, <3>1, StepFits, Zenon
  <2>5. d \cup ({v} \cap Queue) \subseteq Done(k)
    BY <1>11, Zenon DEF d, v
  <2>. HIDE DEF Done
  <2>6. PlanFits(q, Done(k))
    BY <2>4, <2>5, Zenon DEF PlanFits
  <2>. QED
    BY <2>3, <2>6, Zenon
<1>. QED
  BY <1>3, <1>12, Zenon

\* The same in terms of InOrder.
LEMMA OrdersFit ==
  ASSUME scenario \in Scenarios, pass.exes \subseteq Jobs, HasNeeds(work), NEW p, Good(p), PlanFits(p, {}),
         NEW S, S \subseteq Turns, NEW sequences, sequences \subseteq Orders(S), NEW q \in InOrder(sequences, p)
  PROVE  PlanFits(q, S \cap Queue)
<1>1. PICK s \in sequences : q \in (CHOOSE f : IsFold(f, p, s, Len(s)))[Len(s)]
  BY Zenon DEF InOrder, IsFold, Turn
<1>2. S \subseteq Plannable
  BY DEF Turns, Plannable
<1>3. Len(s) \in Nat /\ \A i \in 1..Len(s) : s[i] \in S
  BY <1>2, OrdersOf, Zenon
<1>4. \A i, j \in 1..Len(s) : s[i] = s[j] => i = j
  <2>1. Cardinality(S) \in Nat
    <3>1. S \subseteq Work
      BY Zenon DEF Turns
    <3>. QED
      BY <3>1, WorkFinite, FS_CardinalityType, Zenon
  <2>2. s \in [1..Cardinality(S) -> S] /\ \A i, j \in 1..Cardinality(S) : s[i] = s[j] => i = j
    <3>1. s \in [1..Cardinality(S) -> S] /\ IsInjective(s)
      BY Zenon DEF Orders, Bijection, Injection
    <3>. QED
      BY <3>1, Zenon DEF IsInjective
  <2>3. Len(s) = Cardinality(S)
    BY <2>1, <2>2
  <2>. QED
    BY <2>2, <2>3, Zenon
<1>. DEFINE f == CHOOSE g : IsFold(g, p, s, Len(s))
<1>5. IsFold(f, p, s, Len(s))
  BY <1>3, FoldExists, Zenon
<1>6. \A i \in 1..Len(s) : s[i] \in Turns
  BY <1>3, Zenon
<1>. HIDE DEF f
<1>7. \A r \in f[Len(s)] : PlanFits(r, {s[i] : i \in 1..Len(s)} \cap Queue)
  BY <1>3, <1>4, <1>5, <1>6, FoldFits
<1>8. {s[i] : i \in 1..Len(s)} \cap Queue \subseteq S \cap Queue
  BY <1>3, Zenon
<1>9. PlanFits(q, {s[i] : i \in 1..Len(s)} \cap Queue)
  BY <1>1, <1>7, Zenon DEF f
<1>. QED
  BY <1>8, <1>9, Zenon DEF PlanFits

-----------------------------------------------------------------------------
(* A pass whose plans fit.                                                 *)

\* Nothing is more than itself.
LEMMA SelfSufficient == ASSUME NEW r \in Amounts PROVE is_sufficient_to_meet(r, r)
BY DEF Amounts, is_sufficient_to_meet

\* Work is changed before there are new executions.
LEMMA WorkChanged ==
  ASSUME scenario \in Scenarios, HasNeeds(work), NEW p, PlanFits(p, {}), NEW q, q.sn = p.sn, HasNeeds(q.work),
         \A w \in Work \ Queue : is_sufficient_to_meet(Need[w], q.work[w].need)
  PROVE  PlanFits(q, {})
<1>. DEFINE f == PlanNeed(p)
            g == PlanNeed(q)
<1>1. IsNeeds(Need) /\ IsNeeds(f) /\ IsNeeds(g)
  BY NeedsFacts, Zenon DEF PlanFits
<1>2. \A n \in Nodes : NodeFits(p.sn[n], f) /\ \A v \in p.sn[n].queued : g[v] = f[v]
  BY Zenon DEF PlanFits
<1>. HIDE DEF f, g
<1>3. \A n \in Nodes : NodeFits(p.sn[n], g)
  BY <1>1, <1>2, SameFits, Zenon
<1>. QED
  BY <1>3, Zenon DEF PlanFits, g

\* On a node with no work, nothing is allocated.
LEMMA FreshFits ==
  ASSUME NEW x, IsFresh(x), NEW f
  PROVE  NodeFits(x, f) /\ x.queued = {}
<1>1. \A g : \A n \in ResourceNames : Total(g, {})[n] = 0
  BY FS_EmptySet, TotalFirst, Zenon
<1>2. /\ NoResources \in Resources /\ \A n \in ResourceNames : NoResources[n] = 0
  BY DEF NoResources, Resources
<1>3. \A n \in ResourceNames :
        x.allocated[n] >= Total(Need, x.tasks)[n] + Total(Need, x.running)[n] + Total(f, x.queued)[n]
  <2>. TAKE n \in ResourceNames
  <2>1. /\ x.allocated[n] = 0 /\ Total(Need, x.tasks)[n] = 0 /\ Total(Need, x.running)[n] = 0
        /\ Total(f, x.queued)[n] = 0
    BY <1>1, <1>2, Zenon DEF IsFresh
  <2>. QED
    BY <2>1
<1>. QED
  BY <1>2, <1>3, Zenon DEF NodeFits, IsFresh

\* An execution that is lost needs what it needed, or what its kind needs.
LEMMA LostNeeds ==
  ASSUME NEW x, "need" \in DOMAIN x, NEW w
  PROVE  /\ "need" \in DOMAIN execution_lost(x, w)
         /\ execution_lost(x, w).need \in {x.need, scenario.work[w].need}
<1>1. CASE x.current
  <2>. DEFINE y == [x EXCEPT !.over = TRUE, !.left = 0]
  <2>1. execution_lost(x, w) = y
    BY <1>1, Zenon DEF execution_lost
  <2>2. "need" \in DOMAIN y /\ y.need = x.need
    BY Zenon
  <2>. HIDE DEF y
  <2>. QED
    BY <2>1, <2>2, Zenon
<1>2. CASE ~x.current
  <2>1. execution_lost(x, w) = NoWork(w)
    BY <1>2, Zenon DEF execution_lost
  <2>. QED
    BY <2>1 DEF NoWork
<1>. QED
  BY <1>1, <1>2, Zenon

\* Needs that are what they were, or what the kind of work needs.
LEMMA NeedsLower ==
  ASSUME scenario \in Scenarios, NEW f, HasNeeds(f),
         NEW g, \A w \in Work : "need" \in DOMAIN g[w] /\ g[w].need \in {f[w].need, scenario.work[w].need}
  PROVE  HasNeeds(g) /\ \A w \in Work : is_sufficient_to_meet(f[w].need, g[w].need)
<1>1. ASSUME NEW w \in Work
      PROVE  /\ g[w].need \in Amounts /\ is_sufficient_to_meet(g[w].need, scenario.work[w].need)
             /\ is_sufficient_to_meet(f[w].need, g[w].need)
  <2>1. scenario.work[w].need \in Amounts
    BY ScenariosAssumption, Zenon DEF Work
  <2>2. f[w].need \in Amounts /\ is_sufficient_to_meet(f[w].need, scenario.work[w].need)
    BY Zenon DEF HasNeeds
  <2>3. /\ is_sufficient_to_meet(scenario.work[w].need, scenario.work[w].need)
        /\ is_sufficient_to_meet(f[w].need, f[w].need)
    BY <2>1, <2>2, SelfSufficient, Zenon
  <2>4. g[w].need \in {f[w].need, scenario.work[w].need}
    BY Zenon
  <2>. QED
    BY <2>1, <2>2, <2>3, <2>4, Zenon
<1>. QED
  BY <1>1, Zenon DEF HasNeeds

\* What meets more also meets less.
LEMMA MeetsLess ==
  ASSUME NEW r \in Amounts, NEW s \in Amounts, NEW t \in Amounts, is_sufficient_to_meet(r, s), is_sufficient_to_meet(s, t)
  PROVE  is_sufficient_to_meet(r, t)
BY DEF Amounts, is_sufficient_to_meet

\* _schedule_waiting_tasks.
LEMMA WaitingFits ==
  ASSUME IInv, FitInv, pass.pc = "schedule", NEW starved, NEW q \in _schedule_waiting_tasks(starved)
  PROVE  PlanFits(q, {})
<1>. DEFINE p == [sn |-> pass.nodes, fulfilled |-> {n \in Nodes : pass.nodes[n].is_ready_for_next},
                  avail |-> {}, work |-> work, sys |-> TRUE]
            tasks == {w \in Work : Kind(w) = "node" /\ work[w].st = "waiting" /\ GivesTasks(nodes[work[w].node])}
            ready == {w \in Work : IsNextTaskReady(w) /\ ~LostExe(w)}
            lost == {w \in Work : LostExe(w)} \cup starved
            after(f) == [w \in Work |-> IF w \in lost THEN execution_lost(f[w], w) ELSE f[w]]
<1>1. scenario \in Scenarios /\ pass.exes \subseteq Jobs /\ HasNeeds(work)
  BY Zenon DEF IInv, Counted, FitInv
<1>2. p.sn = pass.nodes /\ p.work = work /\ p.fulfilled \subseteq Nodes /\ p.avail = {}
      /\ {"sn", "fulfilled", "avail", "work"} \subseteq DOMAIN p
  OBVIOUS
<1>3. tasks \subseteq Turns /\ ready \subseteq Turns /\ tasks \cap Queue = {} /\ ready \cap Queue = {}
      /\ tasks \subseteq Plannable /\ ready \subseteq Plannable
  BY DEF Turns, IsNextTaskReady, Queue, Jobs, Plannable
<1>4. PICK a \in InOrder(Orders(tasks), p) :
        \E b \in InOrder(Orders(ready), a) : q = [b EXCEPT !.work = after(b.work)]
  <2>. DEFINE Lists == {InOrder(Orders(ready), a) : a \in InOrder(Orders(tasks), p)}
              Finish(b) == [b EXCEPT !.work = after(b.work)]
  <2>1. _schedule_waiting_tasks(starved) = {Finish(b) : b \in UNION Lists}
    BY Zenon DEF _schedule_waiting_tasks
  <2>. HIDE DEF p, ready, tasks, after, Lists, Finish
  <2>2. PICK b \in UNION Lists : q = Finish(b)
    BY <2>1, Zenon
  <2>3. PICK a \in InOrder(Orders(tasks), p) : b \in InOrder(Orders(ready), a)
    BY <2>2, Zenon DEF Lists
  <2>. QED
    BY <2>2, <2>3, Zenon DEF Finish
<1>. HIDE DEF p, tasks, ready
<1>. PICK b \in InOrder(Orders(ready), a) : q = [b EXCEPT !.work = after(b.work)]
  BY <1>4, Zenon
<1>5. Good(p) /\ PlanFits(p, {})
  <2>1. IsPlan(p)
    BY <1>2, Zenon DEF IsPlan, IInv
  <2>2. NewIn(p.sn) = {} /\ Within({}) /\ Active(p.work) \subseteq pass.exes
    BY <1>2, Zenon DEF IInv, Counted
  <2>3. \A n \in Nodes : NodeFits(p.sn[n], PlanNeed(p)) /\ p.sn[n].queued \subseteq {}
    BY <1>2, FreshFits, Zenon DEF FitInv
  <2>4. \A w \in Work \ Queue : is_sufficient_to_meet(Need[w], p.work[w].need)
    BY <1>1, <1>2, SelfSufficient, NeedsFacts, Zenon DEF HasNeeds
  <2>. QED
    BY <1>1, <1>2, <2>1, <2>2, <2>3, <2>4, Zenon DEF Good, PlanFits
<1>6. Good(a) /\ PlanFits(a, {})
  <2>1. Good(a)
    BY <1>1, <1>3, <1>4, <1>5, OrdersGood, Zenon
  <2>2. PlanFits(a, tasks \cap Queue)
    BY <1>1, <1>3, <1>4, <1>5, OrdersFit, Zenon
  <2>. QED
    BY <1>3, <2>1, <2>2, Zenon
<1>7. PlanFits(b, {}) /\ IsPlan(b)
  <2>1. Good(b)
    BY <1>1, <1>3, <1>4, <1>6, OrdersGood, Zenon
  <2>2. PlanFits(b, ready \cap Queue)
    BY <1>1, <1>3, <1>4, <1>6, OrdersFit, Zenon
  <2>. QED
    BY <1>3, <2>1, <2>2, Zenon DEF Good
<1>8. \A w \in Work : /\ "need" \in DOMAIN after(b.work)[w]
                      /\ after(b.work)[w].need \in {b.work[w].need, scenario.work[w].need}
  <2>1. \A w \in Work : after(b.work)[w] \in {b.work[w], execution_lost(b.work[w], w)}
    BY Zenon
  <2>2. \A w \in Work : "need" \in DOMAIN b.work[w]
    BY <1>7, Zenon DEF PlanFits, HasNeeds
  <2>. HIDE DEF after
  <2>. QED
    BY <2>1, <2>2, LostNeeds, Zenon
<1>. HIDE DEF after
<1>9. q.sn = b.sn /\ q.work = after(b.work)
  BY <1>7 DEF IsPlan
<1>10. HasNeeds(b.work)
  BY <1>7, Zenon DEF PlanFits
<1>11. HasNeeds(q.work) /\ \A w \in Work : is_sufficient_to_meet(b.work[w].need, q.work[w].need)
  BY <1>1, <1>8, <1>9, <1>10, NeedsLower, Zenon
<1>12. \A w \in Work \ Queue : is_sufficient_to_meet(Need[w], q.work[w].need)
  <2>. TAKE w \in Work \ Queue
  <2>1. Need[w] \in Amounts /\ b.work[w].need \in Amounts /\ q.work[w].need \in Amounts
    BY <1>1, <1>10, <1>11, NeedsFacts, Zenon DEF HasNeeds, IsNeeds
  <2>2. is_sufficient_to_meet(Need[w], b.work[w].need)
    BY <1>7, Zenon DEF PlanFits
  <2>. QED
    BY <1>11, <2>1, <2>2, MeetsLess, Zenon
<1>. QED
  BY <1>1, <1>7, <1>9, <1>11, <1>12, WorkChanged, Zenon

\* _schedule_system_tasks.
LEMMA SystemFits ==
  ASSUME scenario \in Scenarios, pass.exes \subseteq Jobs, HasNeeds(work), NEW p, Good(p), PlanFits(p, {}),
         NEW q \in _schedule_system_tasks(p)
  PROVE  PlanFits(q, {})
<1>. DEFINE tasks == get_tasks_to_schedule
            f == [w \in Work |-> IF w \in tasks THEN [NoWork(w) EXCEPT !.st = "waiting"] ELSE p.work[w]]
            made == [p EXCEPT !.work = f]
<1>1. tasks \subseteq Turns /\ tasks \cap Queue = {}
  BY DEF get_tasks_to_schedule, Turns, Queue, Jobs
<1>2. q \in InOrder(Orders(tasks), made)
  BY Zenon DEF _schedule_system_tasks
<1>3. IsPlan(p) /\ IsWork(p.work) /\ HasNeeds(p.work)
  BY Zenon DEF Good, IsPlan, PlanFits
<1>4. \A w : LET x == [NoWork(w) EXCEPT !.st = "waiting"]
             IN  {"need", "st"} \subseteq DOMAIN x /\ x.need = scenario.work[w].need /\ x.st = "waiting"
  BY DEF NoWork
<1>5. DOMAIN f = Work /\ \A w \in Work : f[w] = p.work[w] \/ f[w] = [NoWork(w) EXCEPT !.st = "waiting"]
  BY Zenon
<1>. HIDE DEF f, tasks
<1>6. IsWork(f) /\ Active(f) \subseteq Active(p.work)
  <2>1. \A w \in Work : "st" \in DOMAIN f[w] /\ f[w].st \in {p.work[w].st, "waiting"}
    BY <1>3, <1>4, <1>5, Zenon DEF IsWork
  <2>. QED
    BY <1>5, <2>1 DEF IsWork, Active, Jobs
<1>7. IsPlan(made) /\ made.sn = p.sn /\ made.work = f
  BY ZenonT(30), <1>3, <1>6, WorkReplaced
<1>. HIDE DEF made
<1>8. Good(made)
  BY <1>6, <1>7, GoodKept, Zenon
<1>9. \A w \in Work : "need" \in DOMAIN f[w] /\ f[w].need \in {p.work[w].need, scenario.work[w].need}
  BY <1>3, <1>4, <1>5, Zenon DEF HasNeeds
<1>10. HasNeeds(f) /\ \A w \in Work : is_sufficient_to_meet(p.work[w].need, f[w].need)
  BY <1>3, <1>9, NeedsLower, Zenon
<1>11. \A w \in Work \ Queue : is_sufficient_to_meet(Need[w], f[w].need)
  <2>. TAKE w \in Work \ Queue
  <2>1. Need[w] \in Amounts /\ p.work[w].need \in Amounts /\ f[w].need \in Amounts
    BY <1>3, <1>10, NeedsFacts, Zenon DEF HasNeeds, IsNeeds
  <2>2. is_sufficient_to_meet(Need[w], p.work[w].need)
    BY Zenon DEF PlanFits
  <2>. QED
    BY <1>10, <2>1, <2>2, MeetsLess, Zenon
<1>12. PlanFits(made, {})
  BY <1>7, <1>10, <1>11, WorkChanged, Zenon
<1>13. PlanFits(q, tasks \cap Queue)
  BY <1>1, <1>2, <1>8, <1>12, OrdersFit, Zenon
<1>. QED
  BY <1>1, <1>13, Zenon

\* _process_queue.
LEMMA ProcessQueueFits ==
  ASSUME scenario \in Scenarios, pass.exes \subseteq Jobs, HasNeeds(work), NEW p, Good(p), PlanFits(p, {}),
         NEW q \in _process_queue(p)
  PROVE  PlanFits(q, Queue)
<1>. DEFINE avail == {n \in p.fulfilled : p.sn[n].is_ready}
            a == [p EXCEPT !.avail = avail]
<1>1. avail \in SUBSET Nodes /\ IsPlan(p)
  BY Zenon DEF Good, IsPlan
<1>2. q \in InOrder(get_queue, a) /\ get_queue \subseteq Orders(Queue)
  BY Zenon DEF _process_queue, get_queue, Queue
<1>3. Queue \subseteq Turns /\ Queue \cap Queue = Queue
  BY DEF Queue, Jobs, Turns
<1>. HIDE DEF avail
<1>4. Good(a)
  BY <1>1, OtherField, Zenon
<1>5. PlanFits(a, {})
  BY <1>1, OtherFits
<1>. HIDE DEF a
<1>6. PlanFits(q, Queue \cap Queue)
  BY <1>2, <1>3, <1>4, <1>5, OrdersFit, Zenon
<1>. QED
  BY <1>3, <1>6, Zenon

\* What is allocated on a node is enough for its tasks and for the executions it had.
LEMMA NodePlanned ==
  ASSUME scenario \in Scenarios, IsNeeds(Need), NEW f, IsNeeds(f), NEW g, IsNeeds(g), NEW x, NodeFits(x, f),
         \A w \in Work \ Queue : is_sufficient_to_meet(Need[w], g[w])
  PROVE  /\ IsPlanned(x, g)
         /\ IsPlanned(reset_new_job_exes(x, f), g)
<1>. DEFINE back == Total(f, x.queued)
            y == reset_new_job_exes(x, f)
<1>1. /\ NodeFields \subseteq DOMAIN x /\ x.tasks \subseteq Work /\ x.running \subseteq Work /\ x.queued \subseteq Work
      /\ x.allocated \in Resources /\ \A w \in x.tasks \cup x.running : is_sufficient_to_meet(Need[w], g[w])
  BY QueueFacts, Zenon DEF NodeFits
<1>2. /\ DOMAIN y = DOMAIN x /\ y.tasks = x.tasks /\ y.running = x.running
      /\ y.allocated = subtract(x.allocated, back)
  BY <1>1 DEF NodeFields, reset_new_job_exes
<1>. HIDE DEF y
<1>3. back \in Resources /\ \A n \in ResourceNames : back[n] \in Nat
  BY <1>1, NeedsSum, AmountFacts, Zenon
<1>4. \A n \in ResourceNames : x.allocated[n] >= Total(Need, x.tasks)[n] + Total(Need, x.running)[n] + back[n]
  BY Zenon DEF NodeFits
<1>. HIDE DEF back
<1>5. subtract(x.allocated, back) \in Resources /\ \A n \in ResourceNames : y.allocated[n] = x.allocated[n] - back[n]
  BY <1>1, <1>2, <1>3, AddFacts
<1>6. ASSUME NEW n \in ResourceNames
      PROVE  /\ x.allocated[n] >= Total(Need, x.tasks)[n] + Total(Need, x.running)[n]
             /\ y.allocated[n] >= Total(Need, y.tasks)[n] + Total(Need, y.running)[n]
  <2>1. Total(Need, x.tasks)[n] \in Nat /\ Total(Need, x.running)[n] \in Nat /\ x.allocated[n] \in Int /\ back[n] \in Nat
    BY <1>1, <1>3, NeedsSum, Zenon DEF Resources
  <2>2. Total(Need, y.tasks)[n] = Total(Need, x.tasks)[n] /\ Total(Need, y.running)[n] = Total(Need, x.running)[n]
    BY <1>2, Zenon
  <2>3. /\ x.allocated[n] >= Total(Need, x.tasks)[n] + Total(Need, x.running)[n] + back[n]
        /\ y.allocated[n] = x.allocated[n] - back[n]
    BY <1>4, <1>5, Zenon
  <2>. QED
    BY <2>1, <2>2, <2>3
<1>7. EnoughFor(x.allocated, x, Need) /\ EnoughFor(y.allocated, y, Need)
  BY <1>6, Zenon DEF EnoughFor
<1>8. EnoughFor(x.allocated, x, g)
  BY <1>1, <1>7, EnoughForLess
<1>9. EnoughFor(y.allocated, y, g)
  <2>1. /\ y.tasks \subseteq Work /\ y.running \subseteq Work /\ y.allocated \in Resources
        /\ \A w \in y.tasks \cup y.running : is_sufficient_to_meet(Need[w], g[w])
    BY <1>1, <1>2, <1>5, Zenon
  <2>. QED
    BY <1>7, <2>1, EnoughForLess
<1>10. IsPlanned(x, g)
  BY <1>1, <1>8, Zenon DEF IsPlanned
<1>11. IsPlanned(y, g)
  BY <1>1, <1>2, <1>5, <1>9, Zenon DEF IsPlanned
<1>. QED
  BY <1>10, <1>11, Zenon DEF y

\* It is enough for the new executions, too.
LEMMA ScheduledPlanned ==
  ASSUME scenario \in Scenarios, IsNeeds(Need), NEW f, IsNeeds(f), NEW x, NodeFits(x, f),
         \A w \in Work \ Queue : is_sufficient_to_meet(Need[w], f[w])
  PROVE  IsPlanned(add_scheduled_job_exes(x), f)
<1>. DEFINE y == add_scheduled_job_exes(x)
<1>1. /\ NodeFields \subseteq DOMAIN x /\ x.tasks \subseteq Work /\ x.running \subseteq Work /\ x.queued \subseteq Work
      /\ x.allocated \in Resources /\ \A w \in x.tasks \cup x.running : is_sufficient_to_meet(Need[w], f[w])
  BY QueueFacts, Zenon DEF NodeFits
<1>2. /\ DOMAIN y = DOMAIN x /\ y.tasks = x.tasks /\ y.running = x.running \cup x.queued
      /\ y.allocated = x.allocated
  BY <1>1 DEF NodeFields, add_scheduled_job_exes
<1>. HIDE DEF y
<1>3. ASSUME NEW n \in ResourceNames
      PROVE  y.allocated[n] >= Total(f, y.tasks)[n] + Total(f, y.running)[n]
  <2>1. /\ x.allocated[n] >= Total(Need, x.tasks)[n] + Total(Need, x.running)[n] + Total(f, x.queued)[n]
        /\ x.allocated[n] \in Int
    BY <1>1, Zenon DEF NodeFits, Resources
  <2>2. /\ Total(Need, x.tasks)[n] \in Nat /\ Total(f, x.tasks)[n] \in Nat
        /\ Total(f, x.tasks)[n] <= Total(Need, x.tasks)[n]
    BY <1>1, NeedsSmaller, Zenon
  <2>3. /\ Total(Need, x.running)[n] \in Nat /\ Total(f, x.running)[n] \in Nat
        /\ Total(f, x.running)[n] <= Total(Need, x.running)[n]
    BY <1>1, NeedsSmaller, Zenon
  <2>. DEFINE A == x.running
              B == x.queued
  <2>4. IsFiniteSet(A) /\ IsFiniteSet(B) /\ \A w \in A \cup B : f[w] \in Amounts
    BY <1>1, WorkFinite, Zenon DEF IsNeeds
  <2>. HIDE DEF A, B
  <2>5. /\ Total(f, B)[n] \in Nat /\ Total(f, A \cup B)[n] \in Nat
        /\ Total(f, A \cup B)[n] <= Total(f, A)[n] + Total(f, B)[n]
    BY <2>4, TotalUnion, Zenon
  <2>6. /\ Total(f, y.tasks)[n] = Total(f, x.tasks)[n] /\ Total(f, y.running)[n] = Total(f, A \cup B)[n]
        /\ y.allocated[n] = x.allocated[n]
    BY <1>2, Zenon DEF A, B
  <2>. QED
    BY <2>1, <2>2, <2>3, <2>5, <2>6 DEF A, B
<1>4. y.tasks \subseteq Work /\ y.running \subseteq Work /\ y.allocated \in Resources /\ NodeFields \subseteq DOMAIN y
  BY <1>1, <1>2, Zenon
<1>5. IsPlanned(y, f)
  BY <1>3, <1>4, Zenon DEF IsPlanned, EnoughFor
<1>. QED
  BY <1>5, Zenon DEF y

\* However planning ends, what is allocated is enough.
LEMMA EndFits ==
  ASSUME scenario \in Scenarios, HasNeeds(work), NEW q, IsPlan(q), PlanFits(q, Queue),
         NEW p, p = q \/ p = DatabaseErrorIn(q) \/ p = ScheduledIn(q)
  PROVE  HasNeeds(p.work) /\ \A n \in Nodes : IsPlanned(p.sn[n], PlanNeed(p))
<1>. DEFINE f == PlanNeed(q)
            g == PlanNeed(p)
<1>1. /\ IsNeeds(Need) /\ IsNeeds(f) /\ HasNeeds(q.work)
      /\ \A n \in Nodes : NodeFits(q.sn[n], f)
      /\ \A w \in Work \ Queue : is_sufficient_to_meet(Need[w], f[w])
      /\ \A w \in Work : Need[w] = work[w].need /\ is_sufficient_to_meet(Need[w], Need[w])
  <2>1. IsNeeds(Need) /\ IsNeeds(f) /\ HasNeeds(q.work)
    BY NeedsFacts, Zenon DEF PlanFits
  <2>2. \A n \in Nodes : NodeFits(q.sn[n], f)
    BY Zenon DEF PlanFits
  <2>3. \A w \in Work \ Queue : is_sufficient_to_meet(Need[w], f[w])
    BY Zenon DEF PlanFits, PlanNeed
  <2>4. \A w \in Work : Need[w] = work[w].need /\ is_sufficient_to_meet(Need[w], Need[w])
    BY <2>1, NeedsFacts, SelfSufficient, Zenon DEF IsNeeds
  <2>. QED
    BY <2>1, <2>2, <2>3, <2>4, Zenon
<1>. HIDE DEF f
<1>2. CASE p = q
  <2>1. \A n \in Nodes : IsPlanned(q.sn[n], f)
    BY <1>1, NodePlanned, Zenon
  <2>. QED
    BY <1>1, <1>2, <2>1, Zenon DEF f
<1>3. CASE p = ScheduledIn(q)
  <2>. DEFINE sn == [n \in Nodes |-> add_scheduled_job_exes(q.sn[n])]
  <2>1. p = [q EXCEPT !.sn = sn]
    BY <1>3, Zenon DEF ScheduledIn
  <2>2. \A n \in Nodes : sn[n] = add_scheduled_job_exes(q.sn[n])
    BY Zenon
  <2>. HIDE DEF sn
  <2>3. p.sn = sn /\ p.work = q.work
    BY <2>1 DEF IsPlan
  <2>4. g = f
    BY <2>3, Zenon DEF PlanNeed, f
  <2>5. \A n \in Nodes : IsPlanned(add_scheduled_job_exes(q.sn[n]), f)
    BY <1>1, ScheduledPlanned, Zenon
  <2>. QED
    BY <1>1, <2>2, <2>3, <2>4, <2>5, Zenon
<1>4. CASE p = DatabaseErrorIn(q)
  <2>. DEFINE sn == [n \in Nodes |-> IF n \in q.avail THEN reset_new_job_exes(q.sn[n], f) ELSE q.sn[n]]
              h == [w \in Work |-> IF w \in NewIn(q.sn) THEN work[w] ELSE q.work[w]]
  <2>1. p = [q EXCEPT !.sn = sn, !.work = h]
    BY <1>4, Zenon DEF DatabaseErrorIn, NewIn, f
  <2>2. \A n \in Nodes : sn[n] = q.sn[n] \/ sn[n] = reset_new_job_exes(q.sn[n], f)
    BY Zenon
  <2>3. \A w \in Work : h[w] = work[w] \/ h[w] = q.work[w]
    BY Zenon
  <2>. HIDE DEF sn, h
  <2>4. p.sn = sn /\ p.work = h
    BY <2>1 DEF IsPlan
  <2>5. HasNeeds(p.work)
    BY <1>1, <2>3, <2>4, Zenon DEF HasNeeds
  <2>6. IsNeeds(g) /\ \A w \in Work : g[w] = Need[w] \/ g[w] = f[w]
    <3>1. IsNeeds(g)
      BY <2>5, NeedsFacts, Zenon
    <3>2. \A w \in Work : g[w] = h[w].need /\ f[w] = q.work[w].need
      BY <2>4, Zenon DEF PlanNeed, f
    <3>. QED
      BY <1>1, <2>3, <3>1, <3>2, Zenon
  <2>7. \A w \in Work \ Queue : is_sufficient_to_meet(Need[w], g[w])
    BY <1>1, <2>6, Zenon
  <2>. HIDE DEF g
  <2>8. \A n \in Nodes : IsPlanned(q.sn[n], g) /\ IsPlanned(reset_new_job_exes(q.sn[n], f), g)
    BY <1>1, <2>6, <2>7, NodePlanned, Zenon
  <2>9. \A n \in Nodes : IsPlanned(p.sn[n], g)
    BY <2>2, <2>4, <2>8, Zenon
  <2>. QED
    BY <2>5, <2>9, Zenon DEF g
<1>. QED
  BY <1>2, <1>3, <1>4, Zenon

-----------------------------------------------------------------------------
(* Offers and agents.                                                      *)

\* Resources of all offers.
IsResources(res) == \A o \in OfferIds : res[o] \in Amounts

\* A sum of offers is an amount.
LEMMA OffersSum ==
  ASSUME NEW res, IsResources(res), NEW S, S \subseteq OfferIds
  PROVE  IsFiniteSet(S) /\ Total(res, S) \in Amounts
<1>1. IsFiniteSet(S)
  BY ScenariosAssumption, FS_Subset, Zenon
<1>. QED
  BY <1>1, TotalType, Zenon DEF IsResources

\* Offers that had enough have enough when they have more and less is needed.
LEMMA SuppliedKept ==
  ASSUME scenario \in Scenarios, NEW f, IsNeeds(f), NEW g, IsNeeds(g), NEW r, IsResources(r), NEW s, IsResources(s),
         \A w \in Work : is_sufficient_to_meet(f[w], g[w]), NEW x, IsSupplied(x, r, f),
         \A o \in x.offers : is_sufficient_to_meet(s[o], r[o])
  PROVE  IsSupplied(x, s, g)
<1>1. /\ x.tasks \subseteq Work /\ x.running \subseteq Work /\ x.offers \subseteq OfferIds
      /\ EnoughFor(Total(r, x.offers), x, f)
  BY Zenon DEF IsSupplied
<1>2. IsFiniteSet(x.offers) /\ Total(r, x.offers) \in Amounts /\ Total(s, x.offers) \in Amounts
  BY <1>1, OffersSum, Zenon
<1>3. Total(r, x.offers) \in Resources
  BY <1>2, AmountFacts, Zenon
<1>. DEFINE a == Total(r, x.offers)
            b == Total(s, x.offers)
<1>4. \A n \in ResourceNames : a[n] <= b[n]
  <2>. TAKE n \in ResourceNames
  <2>1. \A o \in x.offers : r[o] \in Amounts /\ s[o] \in Amounts
    BY <1>1, Zenon DEF IsResources
  <2>2. \A o \in x.offers : r[o][n] <= s[o][n]
    <3>. TAKE o \in x.offers
    <3>1. s[o][n] >= r[o][n] /\ s[o][n] \in Nat /\ r[o][n] \in Nat
      BY <2>1, Zenon DEF is_sufficient_to_meet, Amounts
    <3>. QED
      BY <3>1
  <2>. QED
    BY <1>2, <2>1, <2>2, TotalSmaller, Zenon
<1>5. EnoughFor(a, x, g)
  <2>1. a \in Resources /\ EnoughFor(a, x, f) /\ \A w \in x.tasks \cup x.running : is_sufficient_to_meet(f[w], g[w])
    BY <1>1, <1>3, Zenon
  <2>. HIDE DEF a
  <2>. QED
    BY <1>1, <2>1, EnoughForLess
<1>6. EnoughFor(b, x, g)
  <2>1. SUFFICES ASSUME NEW n \in ResourceNames
                 PROVE  b[n] >= Total(g, x.tasks)[n] + Total(g, x.running)[n]
    BY Zenon DEF EnoughFor
  <2>2. a[n] >= Total(g, x.tasks)[n] + Total(g, x.running)[n] /\ a[n] <= b[n]
    BY <1>4, <1>5, Zenon DEF EnoughFor
  <2>3. Total(g, x.tasks)[n] \in Nat /\ Total(g, x.running)[n] \in Nat
    BY <1>1, NeedsSum, Zenon
  <2>4. a[n] \in Nat /\ b[n] \in Nat
    BY <1>2, Zenon DEF Amounts
  <2>. HIDE DEF a, b
  <2>. QED
    BY <2>2, <2>3, <2>4
<1>. QED
  BY <1>1, <1>6, Zenon DEF IsSupplied

\* Offers that someone has are not forgotten.
LEMMA SettledFacts ==
  ASSUME NEW f, IsOffers(f), NEW held
  PROVE  IsOffers(Settled(f, held)) /\ \A o \in OfferIds \cap held : Settled(f, held)[o] = f[o]
<1>. DEFINE g == Settled(f, held)
<1>1. {"agent", "res", "out"} \subseteq DOMAIN NoOffer /\ NoOffer.res \in Amounts
  BY AmountFacts DEF NoOffer
<1>2. DOMAIN g = OfferIds /\ \A o \in OfferIds : g[o] \in {f[o], NoOffer} /\ (o \in held => g[o] = f[o])
  BY Zenon DEF Settled
<1>. HIDE DEF g
<1>3. IsOffers(g)
  BY <1>1, <1>2, Zenon DEF IsOffers
<1>. QED
  BY <1>2, <1>3, Zenon DEF g

\* The scheduling nodes of a pass have their offers.
LEMMA HeldFacts ==
  ASSUME NEW new, NEW ags, NEW p, DOMAIN p.nodes = Nodes, NEW n \in Nodes, NEW o \in p.nodes[n].offers
  PROVE  o \in Held(new, ags, p)
<1>1. o \in UNION {p.nodes[m].offers : m \in DOMAIN p.nodes}
  OBVIOUS
<1>. QED
  BY <1>1 DEF Held

\* An agent's resources are updated from its offers.
LEMMA UpdateFacts ==
  ASSUME NEW a, IsAgent(a), NEW res, IsResources(res)
  PROVE  IsAgent(_update_resources(a, res))
<1>. DEFINE offered == Total(res, a.offers)
            available == add(offered, a.task)
            w == increase_up_to(a.watermark, available)
            c == increase_up_to(a.recent, available)
            up == [a EXCEPT !.offered = offered, !.watermark = increase_up_to(@, available),
                            !.recent = increase_up_to(@, available)]
            Lim(t) == [up EXCEPT !.watermark = limit_to(up.watermark, t), !.recent = limit_to(@, t),
                                 !.offered = limit_to(@, subtract(limit_to(up.watermark, t), a.task))]
            over == {t \in a.total : ~is_sufficient_to_meet(t, up.watermark)}
<1>1. _update_resources(a, res) = IF over = {} THEN up ELSE Lim(CHOOSE t \in over : TRUE)
  BY Zenon DEF _update_resources
<1>2. /\ a.offers \subseteq OfferIds /\ a.total \subseteq Amounts
      /\ a.task \in Resources /\ a.watermark \in Resources /\ a.recent \in Resources
      /\ {"offers", "offered", "task", "watermark", "recent", "total"} \subseteq DOMAIN a
  BY Zenon DEF IsAgent
<1>3. offered \in Resources
  BY <1>2, OffersSum, AmountFacts, Zenon
<1>. HIDE DEF offered
<1>4. available \in Resources
  BY <1>2, <1>3, AddFacts, Zenon
<1>. HIDE DEF available
<1>5. w \in Resources /\ c \in Resources
  BY <1>2, <1>4 DEF increase_up_to, Resources
<1>6. /\ DOMAIN up = DOMAIN a /\ up.offers = a.offers /\ up.task = a.task /\ up.total = a.total
      /\ up.offered = offered /\ up.watermark = w /\ up.recent = c
  BY <1>2
<1>. HIDE DEF w, c, up
<1>7. IsAgent(up)
  BY <1>2, <1>3, <1>5, <1>6, Zenon DEF IsAgent
<1>8. ASSUME NEW t \in Amounts PROVE IsAgent(Lim(t))
  <2>. DEFINE wm == limit_to(up.watermark, t)
              rc == limit_to(up.recent, t)
              of == limit_to(up.offered, subtract(wm, a.task))
              x == Lim(t)
  <2>1. wm \in Resources /\ rc \in Resources
    BY <1>5, <1>6 DEF limit_to, Resources, Amounts
  <2>2. x = [up EXCEPT !.watermark = wm, !.recent = rc, !.offered = of]
    BY <1>2, <1>6
  <2>. HIDE DEF wm, rc
  <2>3. subtract(wm, a.task) \in Resources
    BY <1>2, <2>1, AddFacts, Zenon
  <2>4. of \in Resources
    BY <1>3, <1>6, <2>3 DEF limit_to, Resources
  <2>. HIDE DEF of, x
  <2>5. /\ DOMAIN x = DOMAIN a /\ x.offers = a.offers /\ x.task = a.task /\ x.total = a.total
        /\ x.offered = of /\ x.watermark = wm /\ x.recent = rc
    BY <1>2, <1>6, <2>2
  <2>6. IsAgent(x)
    BY <1>2, <2>1, <2>4, <2>5, Zenon DEF IsAgent
  <2>. QED
    BY <2>6, Zenon DEF x
<1>9. over # {} => (CHOOSE t \in over : TRUE) \in Amounts
  BY <1>2, Zenon
<1>. HIDE DEF Lim, over
<1>. QED
  BY <1>1, <1>7, <1>8, <1>9, Zenon

\* An agent without offers.
LEMMA NewAgentFacts == IsAgent(NewAgent)
<1>1. NoResources \in Resources
  BY AmountFacts, Zenon
<1>. QED
  BY <1>1 DEF IsAgent, NewAgent

\* Offers of an agent come and go, and its tasks and watermarks change.
LEMMA AgentChanged ==
  ASSUME NEW a, IsAgent(a), NEW res, IsResources(res), NEW S, S \subseteq OfferIds, NEW r \in Resources, NEW T
  PROVE  /\ IsAgent(refresh_resources(a, res, S, r)) /\ IsAgent(rescind_offers(a, res, T))
         /\ IsAgent(reset_watermark(a, res)) /\ IsAgent(Without(a, res, T))
<1>1. NoResources \in Resources
  BY AmountFacts, Zenon
<1>2. IsAgent([a EXCEPT !.offers = @ \cup S, !.task = r])
  BY DEF IsAgent
<1>3. ASSUME NEW R PROVE IsAgent([a EXCEPT !.offers = @ \ R])
  BY DEF IsAgent
<1>4. IsAgent([a EXCEPT !.watermark = a.recent, !.recent = NoResources])
  BY <1>1 DEF IsAgent
<1>5. IsAgent(refresh_resources(a, res, S, r))
  BY <1>2, UpdateFacts, Zenon DEF refresh_resources
<1>6. IsAgent(rescind_offers(a, res, T)) /\ IsAgent(Without(a, res, T))
  BY <1>3, UpdateFacts, Zenon DEF rescind_offers, Without
<1>7. IsAgent(reset_watermark(a, res))
  BY <1>4, UpdateFacts, Zenon DEF reset_watermark
<1>. QED
  BY <1>5, <1>6, <1>7, Zenon

-----------------------------------------------------------------------------
(* FitInv is kept.                                                         *)

\* The sums of the next state.
LEMMA NextFit ==
  ASSUME scenario' = scenario
  PROVE  /\ Work' = Work /\ Nodes' = Nodes
         /\ Need' = [w \in Work |-> work'[w].need] /\ Res' = [o \in OfferIds |-> offer'[o].res]
         /\ HasNeeds(work') => HasNeeds(work)'
         /\ IsOffers(offer') => IsOffers(offer)'
         /\ IsAgents(agents') => IsAgents(agents)'
         /\ HasTasks(pass'.tasks) => HasTasks(pass.tasks)'
<1>1. Work' = Work /\ Nodes' = Nodes
  BY DEF Work, Nodes
<1>2. Need' = [w \in Work |-> work'[w].need] /\ Res' = [o \in OfferIds |-> offer'[o].res]
  BY <1>1, Zenon DEF Need, Res
<1>3. HasNeeds(work') => HasNeeds(work)'
  BY <1>1, Zenon DEF HasNeeds
<1>4. /\ IsOffers(offer') => IsOffers(offer)'
      /\ IsAgents(agents') => IsAgents(agents)'
  BY Zenon DEF IsOffers, IsAgents, IsAgent
<1>5. HasTasks(pass'.tasks) => HasTasks(pass.tasks)'
  BY <1>1, Zenon DEF HasTasks
<1>. QED
  BY <1>1, <1>2, <1>3, <1>4, <1>5, Zenon

\* The resources of offers, now and after a step.
LEMMA ResFacts ==
  /\ IsOffers(offer) => IsResources(Res) /\ \A o \in OfferIds : Res[o] = offer[o].res
  /\ IsOffers(offer') => IsResources([o \in OfferIds |-> offer'[o].res])
BY Zenon DEF IsOffers, IsResources, Res

\* What else is not about the pass.
RestFits ==
  /\ HasNeeds(work') /\ IsOffers(offer') /\ IsAgents(agents') /\ task_mgr' \subseteq Work
  /\ DOMAIN alive' = DOMAIN scenario.agents /\ sync' \subseteq DOMAIN scenario.agents

\* A pass that is not touched by a step which only lowers what work needs, and keeps
\* the offers that the pass has.
LEMMA PassKept ==
  ASSUME IInv, FitInv, scenario' = scenario, RestFits, pass' = pass,
         \A w \in Work : is_sufficient_to_meet(work[w].need, work'[w].need),
         pass.pc = "launch" => \A n \in Nodes : \A o \in pass.nodes[n].offers :
                                 o \in OfferIds => is_sufficient_to_meet(offer'[o].res, offer[o].res)
  PROVE  FitInv'
<1>. DEFINE g == [w \in Work |-> work'[w].need]
            s == [o \in OfferIds |-> offer'[o].res]
<1>1. Work' = Work /\ Nodes' = Nodes /\ Need' = g /\ Res' = s
  BY NextFit, Zenon
<1>2. scenario \in Scenarios /\ IsNeeds(Need) /\ IsNeeds(g) /\ \A w \in Work : is_sufficient_to_meet(Need[w], g[w])
  <2>1. scenario \in Scenarios /\ HasNeeds(work)
    BY Zenon DEF IInv, FitInv
  <2>2. IsNeeds(g)
    BY Zenon DEF RestFits, HasNeeds, IsNeeds
  <2>. QED
    BY <2>1, <2>2, NeedsFacts, Zenon
<1>3. /\ IsResources(Res) /\ IsResources(s)
      /\ \A o \in OfferIds : Res[o] = offer[o].res /\ s[o] = offer'[o].res
  <2>1. \A o \in OfferIds : s[o] = offer'[o].res
    BY Zenon
  <2>. QED
    BY <2>1, ResFacts, Zenon DEF FitInv, RestFits
<1>. HIDE DEF g, s
<1>4. (pass.pc = "schedule" => \A n \in Nodes : IsFresh(pass.nodes[n]))'
  BY <1>1, Zenon DEF FitInv, IsFresh
<1>5. (pass.pc = "allocate" => \A n \in Nodes : IsPlanned(pass.nodes[n], Need))'
  <2>1. ASSUME pass.pc = "allocate", NEW n \in Nodes PROVE IsPlanned(pass.nodes[n], g)
    <3>. DEFINE x == pass.nodes[n]
    <3>1. /\ NodeFields \subseteq DOMAIN x /\ x.allocated \in Resources
          /\ x.tasks \subseteq Work /\ x.running \subseteq Work /\ EnoughFor(x.allocated, x, Need)
      BY <2>1, Zenon DEF FitInv, IsPlanned
    <3>. HIDE DEF x
    <3>2. EnoughFor(x.allocated, x, g)
      BY <1>2, <3>1, EnoughForLess
    <3>. QED
      BY <3>1, <3>2, Zenon DEF IsPlanned, x
  <2>. QED
    BY <1>1, <2>1, Zenon DEF IsPlanned, EnoughFor
<1>6. (pass.pc = "launch" => \A n \in Nodes : IsSupplied(pass.nodes[n], Res, Need))'
  <2>1. ASSUME pass.pc = "launch", NEW n \in Nodes PROVE IsSupplied(pass.nodes[n], s, g)
    <3>. DEFINE x == pass.nodes[n]
    <3>1. IsSupplied(x, Res, Need)
      BY <2>1, Zenon DEF FitInv
    <3>2. \A o \in x.offers : is_sufficient_to_meet(s[o], Res[o])
      BY <1>3, <2>1, <3>1, Zenon DEF IsSupplied
    <3>. HIDE DEF x
    <3>3. IsSupplied(x, s, g)
      BY <1>2, <1>3, <3>1, <3>2, SuppliedKept
    <3>. QED
      BY <3>3, Zenon DEF x
  <2>. QED
    BY <1>1, <2>1, Zenon DEF IsSupplied, EnoughFor
<1>7. (pass.pc = "refresh" => HasTasks(pass.tasks))'
  BY NextFit, Zenon DEF FitInv
<1>8. ({"new", "old", "tasks"} \subseteq DOMAIN pass)'
  BY Zenon DEF FitInv
<1>9. /\ HasNeeds(work)' /\ IsOffers(offer)' /\ IsAgents(agents)' /\ (task_mgr \subseteq Work)'
      /\ (DOMAIN alive = DOMAIN scenario.agents)' /\ (sync \subseteq DOMAIN scenario.agents)'
  BY <1>1, NextFit, Zenon DEF RestFits
<1>. QED
  BY <1>4, <1>5, <1>6, <1>7, <1>8, <1>9, Zenon DEF FitInv

\* A pass that is at another place.
LEMMA PassMoved ==
  ASSUME scenario' = scenario, RestFits, {"new", "old", "tasks"} \subseteq DOMAIN pass',
         pass'.pc = "refresh" => HasTasks(pass'.tasks),
         pass'.pc = "schedule" => \A n \in Nodes : IsFresh(pass'.nodes[n]),
         pass'.pc = "allocate" => \A n \in Nodes : IsPlanned(pass'.nodes[n], [w \in Work |-> work'[w].need]),
         pass'.pc = "launch" => \A n \in Nodes : IsSupplied(pass'.nodes[n], [o \in OfferIds |-> offer'[o].res],
                                                            [w \in Work |-> work'[w].need])
  PROVE  FitInv'
<1>. DEFINE g == [w \in Work |-> work'[w].need]
            s == [o \in OfferIds |-> offer'[o].res]
<1>1. Work' = Work /\ Nodes' = Nodes /\ Need' = g /\ Res' = s
  BY NextFit, Zenon
<1>. HIDE DEF g, s
<1>2. (pass.pc = "schedule" => \A n \in Nodes : IsFresh(pass.nodes[n]))'
  BY <1>1, Zenon DEF IsFresh
<1>3. (pass.pc = "allocate" => \A n \in Nodes : IsPlanned(pass.nodes[n], Need))'
  BY <1>1, Zenon DEF IsPlanned, EnoughFor, g
<1>4. (pass.pc = "launch" => \A n \in Nodes : IsSupplied(pass.nodes[n], Res, Need))'
  BY <1>1, Zenon DEF IsSupplied, EnoughFor, g, s
<1>5. (pass.pc = "refresh" => HasTasks(pass.tasks))'
  BY NextFit, Zenon
<1>6. /\ HasNeeds(work)' /\ IsOffers(offer)' /\ IsAgents(agents)' /\ (task_mgr \subseteq Work)'
      /\ (DOMAIN alive = DOMAIN scenario.agents)' /\ (sync \subseteq DOMAIN scenario.agents)'
  BY <1>1, NextFit, Zenon DEF RestFits
<1>. QED
  BY <1>2, <1>3, <1>4, <1>5, <1>6, Zenon DEF FitInv

\* take_new_offers.
LEMMA TakeFits == ASSUME IInv, FitInv, take_new_offers PROVE FitInv'
<1>. DEFINE tasks == [w \in task_mgr |-> [agent |-> work[w].agent, need |-> work[w].need]]
<1>1. /\ scenario' = scenario /\ work' = work /\ offer' = offer /\ agents' = agents /\ task_mgr' = task_mgr
      /\ alive' = alive /\ sync' = sync
  BY DEF take_new_offers, mesosVars
<1>2. RestFits
  BY <1>1, Zenon DEF FitInv, RestFits
<1>3. DOMAIN pass' = DOMAIN pass /\ pass'.pc = "refresh" /\ pass'.tasks = tasks
  BY DEF take_new_offers, FitInv, IInv, IsPass
<1>4. HasTasks(tasks)
  <2>1. DOMAIN tasks = task_mgr /\ \A w \in task_mgr : tasks[w].need = work[w].need
    OBVIOUS
  <2>. HIDE DEF tasks
  <2>. QED
    BY <2>1, Zenon DEF FitInv, HasTasks, HasNeeds
<1>5. {"new", "old", "tasks"} \subseteq DOMAIN pass'
  BY <1>3, Zenon DEF FitInv
<1>. HIDE DEF tasks
<1>6. pass'.pc # "schedule" /\ pass'.pc # "allocate" /\ pass'.pc # "launch"
  BY <1>3
<1>. QED
  BY <1>1, <1>2, <1>3, <1>4, <1>5, <1>6, PassMoved, Zenon

\* Resources of the tasks of an agent.
LEMMA TaskAmount ==
  ASSUME scenario \in Scenarios, HasTasks(pass.tasks), NEW a
  PROVE  TaskResources(DOMAIN pass.tasks, a) \in Resources
<1>. DEFINE f == [w \in DOMAIN pass.tasks |-> pass.tasks[w].need]
            S == {w \in DOMAIN pass.tasks : pass.tasks[w].agent = a}
<1>1. S \subseteq Work /\ \A w \in S : f[w] \in Amounts
  BY Zenon DEF HasTasks
<1>2. TaskResources(DOMAIN pass.tasks, a) = Total(f, S)
  BY Zenon DEF TaskResources
<1>. HIDE DEF f, S
<1>3. IsFiniteSet(S)
  BY <1>1, WorkFinite, Zenon
<1>4. Total(f, S) \in Amounts
  BY <1>1, <1>3, TotalType, ZenonT(30)
<1>. QED
  BY <1>2, <1>4, AmountFacts, Zenon

\* A new scheduling node.
LEMMA NewNodeFresh ==
  ASSUME NEW agent, NEW ready, NEW next, NEW a, IsAgent(a)
  PROVE  IsFresh(NewSchedulingNode(agent, ready, next, a))
BY DEF IsFresh, NewSchedulingNode, NodeFields, IsAgent

\* refresh_agent_resources.
LEMMA RefreshFits == ASSUME IInv, FitInv, NEW reset, refresh_agent_resources(reset) PROVE FitInv'
<1>. DEFINE known == DOMAIN agents \cup {offer[o].agent : o \in pass.new}
            before(a) == IF a \in DOMAIN agents THEN agents[a] ELSE NewAgent
            R(a) == refresh_resources(before(a), Res, pass.new \cap OfferOf(a), TaskResources(DOMAIN pass.tasks, a))
            refreshed == [a \in known |-> R(a)]
            ResourceSet(a) == IF a \in known THEN refreshed[a] ELSE NewAgent
            N(n) == NewSchedulingNode(nodes[n].agent, is_ready_for_new_job(nodes[n]),
                                      is_ready_for_next_job_task(nodes[n]), ResourceSet(nodes[n].agent))
<1>1. /\ scenario' = scenario /\ work' = work /\ offer' = offer /\ task_mgr' = task_mgr
      /\ alive' = alive /\ sync' = sync /\ pass.pc = "refresh"
      /\ agents' = IF reset THEN [a \in known |-> reset_watermark(refreshed[a], Res)] ELSE refreshed
      /\ pass' = [pass EXCEPT !.pc = "schedule", !.new = {}, !.nodes = [n \in Nodes |-> N(n)]]
  BY Zenon DEF refresh_agent_resources
<1>2. scenario \in Scenarios /\ IsResources(Res) /\ HasTasks(pass.tasks) /\ IsAgents(agents)
  BY <1>1, ResFacts, Zenon DEF IInv, FitInv
<1>3. \A a : IsAgent(R(a))
  <2>. TAKE a
  <2>1. IsAgent(before(a))
    BY <1>2, NewAgentFacts, Zenon DEF IsAgents
  <2>2. pass.new \cap OfferOf(a) \subseteq OfferIds
    BY DEF OfferOf
  <2>3. TaskResources(DOMAIN pass.tasks, a) \in Resources
    BY <1>2, TaskAmount, Zenon
  <2>. HIDE DEF before
  <2>. QED
    BY <1>2, <2>1, <2>2, <2>3, AgentChanged, Zenon
<1>. HIDE DEF R, known
<1>4. \A a \in known : IsAgent(refreshed[a]) /\ IsAgent(reset_watermark(refreshed[a], Res))
  <2>. TAKE a \in known
  <2>1. IsAgent(refreshed[a])
    BY <1>3, Zenon
  <2>. HIDE DEF refreshed
  <2>2. NoResources \in Resources
    BY AmountFacts, Zenon
  <2>3. IsAgent(reset_watermark(refreshed[a], Res))
    BY <1>2, <2>1, <2>2, AgentChanged, Zenon
  <2>. QED
    BY <2>1, <2>3, Zenon
<1>5. IsAgents(agents')
  BY <1>1, <1>4, Zenon DEF IsAgents
<1>6. \A a : IsAgent(ResourceSet(a))
  BY <1>4, NewAgentFacts, Zenon
<1>. HIDE DEF ResourceSet, refreshed
<1>7. \A n \in Nodes : IsFresh(N(n))
  BY <1>6, NewNodeFresh, Zenon
<1>. HIDE DEF N
<1>8. DOMAIN pass' = DOMAIN pass /\ pass'.pc = "schedule" /\ pass'.nodes = [n \in Nodes |-> N(n)]
  BY <1>1 DEF IInv, IsPass
<1>9. \A n \in Nodes : IsFresh(pass'.nodes[n])
  BY <1>7, <1>8, Zenon
<1>10. RestFits
  BY <1>1, <1>5, Zenon DEF FitInv, RestFits
<1>11. pass'.pc # "refresh" /\ pass'.pc # "allocate" /\ pass'.pc # "launch"
  BY <1>8
<1>12. {"new", "old", "tasks"} \subseteq DOMAIN pass'
  BY <1>8, Zenon DEF FitInv
<1>. QED
  BY <1>1, <1>9, <1>10, <1>11, <1>12, PassMoved, Zenon

\* perform_scheduling.
LEMMA PlanStepFits == ASSUME IInv, FitInv, perform_scheduling PROVE FitInv'
<1>1. /\ scenario \in Scenarios /\ pass.pc = "schedule" /\ pass.exes \subseteq Jobs /\ HasNeeds(work)
      /\ scenario' = scenario /\ offer' = offer /\ agents' = agents /\ task_mgr' = task_mgr
      /\ alive' = alive /\ sync' = sync
  BY Zenon DEF IInv, Counted, FitInv, perform_scheduling
<1>2. PICK starved, p :
        /\ p \in Plans(starved)
        /\ \/ Plan(p)
           \/ \E q \in _process_queue(p) : Plan(DatabaseErrorIn(q)) \/ Plan(ScheduledIn(q))
  BY Zenon DEF perform_scheduling
<1>3. Good(p) /\ PlanFits(p, {})
  <2>1. PICK q \in _schedule_waiting_tasks(starved) : p \in _schedule_system_tasks(q)
    BY <1>2, Zenon DEF Plans
  <2>2. Good(q) /\ PlanFits(q, {})
    BY <1>1, <2>1, WaitingGood, WaitingFits, Zenon
  <2>. QED
    BY <1>1, <2>1, <2>2, SystemGood, SystemFits, Zenon
<1>4. PICK q, r : /\ Plan(r) /\ (r = q \/ r = DatabaseErrorIn(q) \/ r = ScheduledIn(q))
                  /\ Good(q) /\ PlanFits(q, Queue)
  <2>1. PlanFits(p, Queue)
    BY <1>3, Zenon DEF PlanFits
  <2>2. ASSUME NEW q \in _process_queue(p) PROVE Good(q) /\ PlanFits(q, Queue)
    BY <1>1, <1>3, <2>2, ProcessQueueGood, ProcessQueueFits, Zenon
  <2>. QED
    BY <1>2, <1>3, <2>1, <2>2, Zenon
<1>5. HasNeeds(r.work) /\ \A n \in Nodes : IsPlanned(r.sn[n], PlanNeed(r))
  <2>1. IsPlan(q)
    BY <1>4, Zenon DEF Good
  <2>. QED
    BY <1>1, <1>4, <2>1, EndFits, Zenon
<1>6. work' = r.work /\ DOMAIN pass' = DOMAIN pass /\ pass'.pc = "allocate" /\ pass'.nodes = r.sn
  BY <1>4 DEF Plan, IInv, IsPass
<1>7. PlanNeed(r) = [w \in Work |-> work'[w].need]
  BY <1>6, Zenon DEF PlanNeed
<1>8. RestFits
  BY <1>1, <1>5, <1>6, Zenon DEF FitInv, RestFits
<1>9. pass'.pc # "refresh" /\ pass'.pc # "schedule" /\ pass'.pc # "launch"
  BY <1>6
<1>10. {"new", "old", "tasks"} \subseteq DOMAIN pass'
  BY <1>6, Zenon DEF FitInv
<1>11. \A n \in Nodes : IsPlanned(pass'.nodes[n], [w \in Work |-> work'[w].need])
  BY <1>5, <1>6, <1>7, Zenon
<1>. QED
  BY <1>1, <1>8, <1>9, <1>10, <1>11, PassMoved, Zenon

\* add_allocated_offers: the offers are enough for what is left on the node.
LEMMA OffersFit ==
  ASSUME scenario \in Scenarios, NEW need, IsNeeds(need), NEW res, IsResources(res), NEW x, IsPlanned(x, need),
         NEW O, O \subseteq OfferIds, NEW ready
  PROVE  /\ IsSupplied(add_allocated_offers(x, res, need, O, ready), res, need)
         /\ add_allocated_offers(x, res, need, O, ready).offers = O
<1>. DEFINE a == Total(res, O)
            Enough(n) == is_sufficient_to_meet(a, n.allocated)
            exes == Total(need, x.running \cap ready)
            one == [x EXCEPT !.running = {}, !.allocated = subtract(@, exes), !.remaining = add(@, exes)]
            first == IF Enough(x) THEN x ELSE one
            two == [first EXCEPT !.tasks = {}, !.allocated = NoResources, !.remaining = x.offered]
            second == IF Enough(first) THEN first ELSE two
            y == add_allocated_offers(x, res, need, O, ready)
<1>1. y = [second EXCEPT !.offers = O]
  BY Zenon DEF add_allocated_offers
<1>2. /\ NodeFields \subseteq DOMAIN x /\ x.allocated \in Resources
      /\ x.tasks \subseteq Work /\ x.running \subseteq Work /\ EnoughFor(x.allocated, x, need)
  BY Zenon DEF IsPlanned
<1>3. a \in Amounts
  BY OffersSum, Zenon
<1>4. /\ one.tasks = x.tasks /\ one.running = {} /\ one.allocated = subtract(x.allocated, exes)
      /\ DOMAIN one = DOMAIN x
  BY <1>2 DEF NodeFields
<1>5. first \in {x, one} /\ (Enough(first) \/ first = one)
  BY Zenon
<1>6. NodeFields \subseteq DOMAIN first
  BY <1>2, <1>4, <1>5, Zenon
<1>. HIDE DEF first, one, exes
<1>7. two.tasks = {} /\ two.running = first.running /\ DOMAIN two = DOMAIN first
  BY <1>6 DEF NodeFields
<1>8. /\ \/ second = x /\ Enough(x)
         \/ second = one /\ Enough(one)
         \/ second.tasks = {} /\ second.running = {}
      /\ NodeFields \subseteq DOMAIN second
  BY <1>4, <1>5, <1>6, <1>7, Zenon
<1>. HIDE DEF second, two
<1>9. y.offers = O /\ y.tasks = second.tasks /\ y.running = second.running
  BY <1>1, <1>8 DEF NodeFields
<1>. HIDE DEF y
<1>10. second.tasks \subseteq Work /\ second.running \subseteq Work
  BY <1>2, <1>4, <1>8, Zenon
<1>11. ASSUME NEW n \in ResourceNames PROVE a[n] >= Total(need, second.tasks)[n] + Total(need, second.running)[n]
  <2>. DEFINE t == Total(need, x.tasks)[n]
              r == Total(need, x.running)[n]
  <2>1. a[n] \in Nat /\ x.allocated[n] \in Int /\ x.allocated[n] >= t + r
    BY <1>2, <1>3, Zenon DEF Amounts, Resources, EnoughFor
  <2>2. t \in Nat /\ r \in Nat
    BY <1>2, NeedsSum, Zenon
  <2>3. Total(need, {})[n] = 0
    BY FS_EmptySet, TotalFirst, Zenon
  <2>4. CASE second = x /\ Enough(x)
    <3>1. a[n] >= x.allocated[n]
      BY <2>4, Zenon DEF is_sufficient_to_meet
    <3>2. Total(need, second.tasks)[n] = t /\ Total(need, second.running)[n] = r
      BY <2>4, Zenon
    <3>. HIDE DEF t, r, a
    <3>. QED
      BY <2>1, <2>2, <3>1, <3>2
  <2>5. CASE second = one /\ Enough(one)
    <3>. DEFINE e == exes[n]
    <3>1. a[n] >= subtract(x.allocated, exes)[n]
      BY <1>4, <2>5, Zenon DEF is_sufficient_to_meet
    <3>2. exes \in Amounts /\ e \in Nat /\ e <= r
      <4>1. IsFiniteSet(x.running) /\ x.running \cap ready \subseteq x.running /\ x.running \cap ready \subseteq Work
        BY <1>2, WorkFinite, Zenon
      <4>2. \A w \in x.running : need[w] \in Amounts
        BY <1>2, Zenon DEF IsNeeds
      <4>3. exes \in Amounts /\ e \in Nat
        BY <4>1, NeedsSum, Zenon DEF exes
      <4>4. e <= r
        BY <4>1, <4>2, TotalFewer, Zenon DEF exes
      <4>. QED
        BY <4>3, <4>4, Zenon
    <3>3. subtract(x.allocated, exes)[n] = x.allocated[n] - e
      BY <1>2, <3>2, AmountFacts, AddFacts, Zenon
    <3>4. Total(need, second.tasks)[n] = t /\ Total(need, second.running)[n] = 0
      BY <1>4, <2>3, <2>5, ZenonT(30)
    <3>. HIDE DEF t, r, a, e
    <3>. QED
      BY <2>1, <2>2, <3>1, <3>2, <3>3, <3>4
  <2>6. CASE second.tasks = {} /\ second.running = {}
    <3>1. Total(need, second.tasks)[n] = 0 /\ Total(need, second.running)[n] = 0
      BY <2>3, <2>6, Zenon
    <3>. HIDE DEF t, r, a
    <3>. QED
      BY <2>1, <3>1
  <2>. QED
    BY <1>8, <2>4, <2>5, <2>6, Zenon
<1>12. EnoughFor(a, y, need)
  BY <1>9, <1>11, Zenon DEF EnoughFor
<1>. QED
  BY <1>9, <1>10, <1>12, Zenon DEF IsSupplied, y

\* _allocate_offers.
LEMMA AllocateFits == ASSUME IInv, FitInv, NEW old, _allocate_offers(old) PROVE FitInv'
<1>. DEFINE ready == {w \in Jobs : work[w].st = "active" /\ work[w].left > 0}
<1>1. PICK pick \in [DOMAIN agents -> SUBSET OfferIds] :
        /\ agents' = [a \in DOMAIN agents |-> Without(agents[a], Res, pick[a])]
        /\ pass' = [pass EXCEPT !.pc = "launch", !.old = old,
                      !.nodes = [n \in Nodes |->
                        LET a == pass.nodes[n].agent
                        IN  add_allocated_offers(@[n], Res, Need, IF a \in DOMAIN agents THEN pick[a] ELSE {}, ready)]]
        /\ offer' = Settled(offer, Held(new_offers, agents', pass'))
  BY Zenon DEF _allocate_offers
<1>. DEFINE O(n) == IF pass.nodes[n].agent \in DOMAIN agents THEN pick[pass.nodes[n].agent] ELSE {}
            X(n) == add_allocated_offers(pass.nodes[n], Res, Need, O(n), ready)
<1>2. /\ pass.pc = "allocate" /\ scenario' = scenario /\ work' = work /\ task_mgr' = task_mgr
      /\ alive' = alive /\ sync' = sync
  BY DEF _allocate_offers, mesosVars
<1>3. DOMAIN pass' = DOMAIN pass /\ pass'.pc = "launch" /\ pass'.nodes = [n \in Nodes |-> X(n)]
  BY <1>1 DEF IInv, FitInv, IsPass
<1>4. /\ scenario \in Scenarios /\ IsNeeds(Need) /\ IsResources(Res) /\ IsOffers(offer) /\ IsAgents(agents)
      /\ \A n \in Nodes : IsPlanned(pass.nodes[n], Need)
  BY <1>2, NeedsFacts, ResFacts, Zenon DEF IInv, FitInv
<1>5. \A n \in Nodes : O(n) \subseteq OfferIds
  OBVIOUS
<1>. HIDE DEF ready, O
<1>6. \A n \in Nodes : IsSupplied(X(n), Res, Need)
  BY <1>4, <1>5, OffersFit, Zenon
<1>. HIDE DEF X
<1>7. DOMAIN pass'.nodes = Nodes /\ \A n \in Nodes : pass'.nodes[n] = X(n)
  BY <1>3, Zenon
<1>8. IsOffers(offer')
  BY <1>1, <1>4, SettledFacts, Zenon
<1>9. ASSUME NEW n \in Nodes, NEW o \in X(n).offers PROVE o \in OfferIds /\ offer'[o] = offer[o]
  <2>1. o \in OfferIds
    BY <1>6, <1>9, Zenon DEF IsSupplied
  <2>2. o \in Held(new_offers, agents', pass')
    BY <1>7, <1>9, HeldFacts, Zenon
  <2>. QED
    BY <1>1, <1>4, <2>1, <2>2, SettledFacts, ZenonT(30)
<1>. DEFINE s == [o \in OfferIds |-> offer'[o].res]
<1>10. IsResources(s) /\ \A o \in OfferIds : s[o] = offer'[o].res /\ Res[o] = offer[o].res /\ Res[o] \in Amounts
  BY <1>4, <1>8, ResFacts, Zenon DEF IsResources
<1>11. \A w \in Work : is_sufficient_to_meet(Need[w], Need[w])
  BY <1>4, SelfSufficient, Zenon DEF IsNeeds
<1>. HIDE DEF s
<1>12. ASSUME NEW n \in Nodes PROVE IsSupplied(X(n), s, Need)
  <2>1. IsSupplied(X(n), Res, Need)
    BY <1>6, <1>12, Zenon
  <2>2. \A o \in X(n).offers : is_sufficient_to_meet(s[o], Res[o])
    BY <1>9, <1>10, <1>12, SelfSufficient, Zenon
  <2>. QED
    BY <1>4, <1>10, <1>11, <2>1, <2>2, SuppliedKept, Zenon
<1>13. IsAgents(agents')
  <2>1. NoResources \in Resources
    BY AmountFacts, Zenon
  <2>2. \A a \in DOMAIN agents : IsAgent(Without(agents[a], Res, pick[a]))
    <3>. TAKE a \in DOMAIN agents
    <3>1. IsAgent(agents[a])
      BY <1>4, Zenon DEF IsAgents
    <3>. QED
      BY <1>4, <2>1, <3>1, AgentChanged, Zenon
  <2>. QED
    BY <1>1, <2>2, Zenon DEF IsAgents
<1>14. RestFits
  BY <1>2, <1>8, <1>13, Zenon DEF FitInv, RestFits
<1>15. Need = [w \in Work |-> work'[w].need]
  BY <1>2, Zenon DEF Need
<1>16. pass'.pc # "refresh" /\ pass'.pc # "schedule" /\ pass'.pc # "allocate"
  BY <1>3
<1>17. \A n \in Nodes : IsSupplied(pass'.nodes[n], [o \in OfferIds |-> offer'[o].res], [w \in Work |-> work'[w].need])
  BY <1>7, <1>12, <1>15, Zenon DEF s
<1>18. {"new", "old", "tasks"} \subseteq DOMAIN pass'
  BY <1>3, Zenon DEF FitInv
<1>. QED
  BY <1>2, <1>14, <1>16, <1>17, <1>18, PassMoved, Zenon

\* A pass that is over, or given up.
LEMMA IdleFits == ASSUME scenario' = scenario, RestFits, pass' = IdlePass PROVE FitInv'
<1>1. {"new", "old", "tasks"} \subseteq DOMAIN IdlePass /\ IdlePass.pc = "idle"
  BY DEF IdlePass
<1>2. /\ pass'.pc # "refresh" /\ pass'.pc # "schedule" /\ pass'.pc # "allocate" /\ pass'.pc # "launch"
      /\ {"new", "old", "tasks"} \subseteq DOMAIN pass'
  BY <1>1
<1>. QED
  BY <1>2, PassMoved, Zenon

\* The offers that a pass has are not less in g than they are now.
OffersKept(g) ==
  pass.pc = "launch" => \A n \in Nodes : \A o \in pass.nodes[n].offers :
                          o \in OfferIds => is_sufficient_to_meet(g[o].res, offer[o].res)

\* What is not changed is as much as it was.
LEMMA SameKept ==
  ASSUME FitInv
  PROVE  /\ \A w \in Work : is_sufficient_to_meet(work[w].need, work[w].need)
         /\ \A o \in OfferIds : is_sufficient_to_meet(offer[o].res, offer[o].res)
         /\ OffersKept(offer)
<1>1. \A w \in Work : is_sufficient_to_meet(work[w].need, work[w].need)
  BY SelfSufficient, Zenon DEF FitInv, HasNeeds
<1>2. \A o \in OfferIds : is_sufficient_to_meet(offer[o].res, offer[o].res)
  BY SelfSufficient, Zenon DEF FitInv, IsOffers
<1>. QED
  BY <1>1, <1>2, Zenon DEF OffersKept

\* Offers of the pass are not forgotten.
LEMMA SettledKept ==
  ASSUME IInv, FitInv, NEW new, NEW ags
  PROVE  IsOffers(Settled(offer, Held(new, ags, pass))) /\ OffersKept(Settled(offer, Held(new, ags, pass)))
<1>. DEFINE held == Held(new, ags, pass)
<1>1. IsOffers(offer)
  BY Zenon DEF FitInv
<1>2. ASSUME pass.pc = "launch", NEW n \in Nodes, NEW o \in pass.nodes[n].offers, o \in OfferIds
      PROVE  is_sufficient_to_meet(Settled(offer, held)[o].res, offer[o].res)
  <2>1. DOMAIN pass.nodes = Nodes
    BY <1>2 DEF IInv, IsNodes
  <2>2. o \in held
    BY <1>2, <2>1, HeldFacts, Zenon
  <2>. HIDE DEF held
  <2>3. Settled(offer, held)[o] = offer[o]
    BY <1>1, <1>2, <2>2, SettledFacts, Zenon
  <2>. QED
    BY <1>2, <2>3, SameKept, Zenon
<1>. QED
  BY <1>1, <1>2, SettledFacts, Zenon DEF OffersKept

\* _launch_tasks.
LEMMA LaunchFits == ASSUME IInv, FitInv, NEW failed, _launch_tasks(failed) PROVE FitInv'
<1>. DEFINE all == UNION {ToLaunch(n) : n \in Nodes}
            used == UNION {pass.nodes[n].offers : n \in Nodes \ failed}
            y(w) == [work[w] EXCEPT !.st = "active", !.current = TRUE,
                                    !.left = IF Kind(w) = "job" THEN @ - 1 ELSE 0]
            f == [o \in OfferIds |-> IF o \in used THEN NoOffer ELSE offer[o]]
<1>1. /\ pass.pc = "launch" /\ scenario' = scenario /\ pass' = IdlePass
      /\ agents' = agents /\ alive' = alive /\ sync' = sync /\ task_mgr' = task_mgr \cup all
      /\ work' = [w \in Work |-> IF w \notin all THEN work[w] ELSE y(w)]
      /\ offer' = Settled(f, Held(new_offers, agents, pass'))
  BY Zenon DEF _launch_tasks
<1>2. all \subseteq Work
  <2>1. \A n \in Nodes : pass.nodes[n].tasks \subseteq Work /\ pass.nodes[n].running \subseteq Work
    BY <1>1, Zenon DEF FitInv, IsSupplied
  <2>2. \A n \in Nodes : ToLaunch(n) \subseteq Work
    BY <2>1 DEF ToLaunch, ToStart
  <2>. QED
    BY <2>2, Zenon
<1>3. scenario \in Scenarios /\ HasNeeds(work) /\ IsOffers(offer)
  BY Zenon DEF IInv, FitInv
<1>4. HasNeeds(work')
  <2>1. \A w \in Work : y(w).need = work[w].need /\ DOMAIN y(w) = DOMAIN work[w]
    OBVIOUS
  <2>. HIDE DEF y, all
  <2>2. \A w \in Work : work'[w] = IF w \notin all THEN work[w] ELSE y(w)
    BY <1>1, Zenon
  <2>3. \A w \in Work : work'[w].need = work[w].need /\ DOMAIN work'[w] = DOMAIN work[w]
    BY <2>1, <2>2, Zenon
  <2>. QED
    BY <1>3, <2>3, Zenon DEF HasNeeds
<1>5. IsOffers(f)
  <2>1. {"agent", "res", "out"} \subseteq DOMAIN NoOffer /\ NoOffer.res \in Amounts
    BY AmountFacts DEF NoOffer
  <2>2. DOMAIN f = OfferIds /\ \A o \in OfferIds : f[o] \in {offer[o], NoOffer}
    BY Zenon
  <2>. HIDE DEF f
  <2>. QED
    BY <1>3, <2>1, <2>2, Zenon DEF IsOffers
<1>. HIDE DEF f, all, y
<1>6. IsOffers(offer')
  BY <1>1, <1>5, SettledFacts, Zenon
<1>7. task_mgr' \subseteq Work
  BY <1>1, <1>2, Zenon DEF FitInv
<1>8. RestFits
  BY <1>1, <1>4, <1>6, <1>7, Zenon DEF FitInv, RestFits
<1>. QED
  BY <1>1, <1>8, IdleFits, Zenon

\* skip_task_launch.
LEMMA SkipFits == ASSUME IInv, FitInv, skip_task_launch PROVE FitInv'
<1>1. /\ scenario' = scenario /\ work' = work /\ offer' = offer /\ agents' = agents /\ task_mgr' = task_mgr
      /\ alive' = alive /\ sync' = sync /\ pass' = IdlePass
  BY Zenon DEF skip_task_launch
<1>2. RestFits
  BY <1>1, Zenon DEF FitInv, RestFits
<1>. QED
  BY <1>1, <1>2, IdleFits, Zenon

\* A step that leaves work alone.
LEMMA WorkSame ==
  ASSUME IInv, FitInv, scenario' = scenario, work' = work, pass' = pass, task_mgr' \subseteq task_mgr,
         IsOffers(offer'), OffersKept(offer'), IsAgents(agents'), DOMAIN alive' = DOMAIN alive,
         sync' \subseteq DOMAIN scenario.agents
  PROVE  FitInv'
<1>1. \A w \in Work : is_sufficient_to_meet(work[w].need, work'[w].need)
  BY SameKept, Zenon
<1>2. RestFits
  BY Zenon DEF FitInv, RestFits
<1>. QED
  BY <1>1, <1>2, PassKept, Zenon DEF OffersKept

\* A step that changes work, which needs what it needed or what its kind needs.
LEMMA WorkLower ==
  ASSUME IInv, FitInv, scenario' = scenario, pass' = pass, task_mgr' = task_mgr, IsOffers(offer'), OffersKept(offer'),
         IsAgents(agents'), alive' = alive, sync' = sync,
         \A w \in Work : "need" \in DOMAIN work'[w] /\ work'[w].need \in {work[w].need, scenario.work[w].need}
  PROVE  FitInv'
<1>1. HasNeeds(work') /\ \A w \in Work : is_sufficient_to_meet(work[w].need, work'[w].need)
  BY NeedsLower, Zenon DEF IInv, FitInv
<1>2. RestFits
  BY <1>1, Zenon DEF FitInv, RestFits
<1>. QED
  BY <1>1, <1>2, PassKept, Zenon DEF OffersKept

\* offerRescinded.
LEMMA RescindedFits == ASSUME IInv, FitInv, offerRescinded PROVE FitInv'
<1>1. /\ scenario' = scenario /\ work' = work /\ pass' = pass /\ task_mgr' = task_mgr
      /\ alive' = alive /\ sync' = sync
  BY DEF offerRescinded, mesosVars
<1>2. \/ agents' = agents /\ offer' = offer
      \/ /\ agents' = [a \in DOMAIN agents |-> rescind_offers(agents[a], Res, cb.id)]
         /\ offer' = Settled(offer, Held(new_offers, agents', pass))
  BY Zenon DEF offerRescinded
<1>3. IsOffers(offer) /\ IsAgents(agents) /\ IsResources(Res) /\ sync' \subseteq DOMAIN scenario.agents
  BY <1>1, ResFacts, Zenon DEF FitInv
<1>4. IsOffers(offer') /\ OffersKept(offer')
  <2>1. OffersKept(offer)
    BY SameKept, Zenon
  <2>2. \A ags : /\ IsOffers(Settled(offer, Held(new_offers, ags, pass)))
                 /\ OffersKept(Settled(offer, Held(new_offers, ags, pass)))
    BY SettledKept, Zenon
  <2>. QED
    BY <1>2, <1>3, <2>1, <2>2, Zenon
<1>5. IsAgents(agents')
  <2>1. NoResources \in Resources
    BY AmountFacts, Zenon
  <2>2. \A a \in DOMAIN agents : IsAgent(rescind_offers(agents[a], Res, cb.id))
    <3>. TAKE a \in DOMAIN agents
    <3>1. IsAgent(agents[a])
      BY <1>3, Zenon DEF IsAgents
    <3>. QED
      BY <1>3, <2>1, <3>1, AgentChanged, Zenon
  <2>. QED
    BY <1>2, <1>3, <2>2, Zenon DEF IsAgents
<1>. QED
  BY <1>1, <1>3, <1>4, <1>5, WorkSame, Zenon

\* statusUpdate.
LEMMA StatusFits == ASSUME IInv, FitInv, statusUpdate PROVE FitInv'
<1>1. /\ IsOffers(offer) /\ OffersKept(offer) /\ IsAgents(agents) /\ sync \subseteq DOMAIN scenario.agents
      /\ DOMAIN work = Work /\ HasNeeds(work)
  BY SameKept, Zenon DEF FitInv, IInv, IsWork
<1>2. ASSUME NEW w, told(w) PROVE FitInv'
  <2>1. /\ scenario' = scenario /\ work' = work /\ pass' = pass /\ task_mgr' = task_mgr \ {w} /\ offer' = offer
        /\ agents' = agents /\ alive' = alive /\ sync' = sync
    BY <1>2 DEF told, mesosVars
  <2>2. task_mgr' \subseteq task_mgr
    BY <2>1, Zenon
  <2>. QED
    BY <1>1, <2>1, <2>2, WorkSame, Zenon
<1>3. ASSUME NEW y, work' = [work EXCEPT ![cb.id] = y],
             cb.id \in Work => "need" \in DOMAIN y /\ y.need \in {work[cb.id].need, scenario.work[cb.id].need},
             scenario' = scenario, pass' = pass, task_mgr' = task_mgr, offer' = offer,
             agents' = agents, alive' = alive, sync' = sync
      PROVE  FitInv'
  <2>1. \A w \in Work : work'[w] = IF w = cb.id THEN y ELSE work[w]
    BY <1>1, <1>3, Zenon
  <2>2. \A w \in Work : "need" \in DOMAIN work'[w] /\ work'[w].need \in {work[w].need, scenario.work[w].need}
    BY <1>1, <1>3, <2>1, Zenon DEF HasNeeds
  <2>. QED
    BY <1>1, <1>3, <2>2, WorkLower, Zenon
<1>4. ASSUME NEW y, \/ y = NoWork(cb.id) \/ y = [NoWork(cb.id) EXCEPT !.st = "waiting"]
                    \/ \E k : y = [work[cb.id] EXCEPT !.current = FALSE, !.ran = TRUE, !.left = k]
      PROVE  cb.id \in Work => "need" \in DOMAIN y /\ y.need \in {work[cb.id].need, scenario.work[cb.id].need}
  <2>1. CASE y = NoWork(cb.id) \/ y = [NoWork(cb.id) EXCEPT !.st = "waiting"]
    BY <2>1 DEF NoWork
  <2>2. ASSUME NEW k, y = [work[cb.id] EXCEPT !.current = FALSE, !.ran = TRUE, !.left = k], cb.id \in Work
        PROVE  "need" \in DOMAIN y /\ y.need = work[cb.id].need
    <3>1. "need" \in DOMAIN work[cb.id]
      BY <1>1, <2>2, Zenon DEF HasNeeds
    <3>. QED
      BY <2>2, <3>1
  <2>. QED
    BY <1>4, <2>1, <2>2, Zenon
<1>5. ASSUME ~(\E w \in Work : told(w)) PROVE FitInv'
  <2>1. \E y : /\ work' = [work EXCEPT ![cb.id] = y]
               /\ \/ y = NoWork(cb.id) \/ y = [NoWork(cb.id) EXCEPT !.st = "waiting"]
                  \/ \E k : y = [work[cb.id] EXCEPT !.current = FALSE, !.ran = TRUE, !.left = k]
    BY <1>5, Zenon DEF statusUpdate
  <2>2. /\ scenario' = scenario /\ pass' = pass /\ task_mgr' = task_mgr /\ offer' = offer
        /\ agents' = agents /\ alive' = alive /\ sync' = sync
    BY <1>5 DEF statusUpdate, mesosVars
  <2>. QED
    BY <1>3, <1>4, <2>1, <2>2, Zenon
<1>. QED
  BY <1>2, <1>5, Zenon

\* slaveLost.
LEMMA SlaveLostFits == ASSUME IInv, FitInv, slaveLost PROVE FitInv'
<1>. DEFINE g == [w \in Work |->
                    IF Kind(w) = "job" /\ work[w].st = "active" /\ work[w].node = scenario.agents[cb.id].node
                    THEN execution_lost(work[w], w) ELSE work[w]]
<1>1. /\ scenario' = scenario /\ pass' = pass /\ task_mgr' = task_mgr /\ sync' = sync
      /\ agents' \in {agents, [a \in DOMAIN agents \ {cb.id} |-> agents[a]]}
      /\ offer' = Settled(offer, Held(new_offers', agents', pass))
      /\ work' \in {work, g}
  BY Zenon DEF slaveLost
<1>2. alive' = alive
  BY Zenon DEF slaveLost, mesosVars
<1>3. IsAgents(agents) /\ HasNeeds(work)
  BY Zenon DEF FitInv
<1>4. IsOffers(offer') /\ OffersKept(offer')
  <2>1. \A new, ags : /\ IsOffers(Settled(offer, Held(new, ags, pass)))
                      /\ OffersKept(Settled(offer, Held(new, ags, pass)))
    BY SettledKept, Zenon
  <2>. QED
    BY <1>1, <2>1, Zenon
<1>5. IsAgents(agents')
  BY <1>1, <1>3, Zenon DEF IsAgents
<1>6. \A w \in Work : "need" \in DOMAIN work'[w] /\ work'[w].need \in {work[w].need, scenario.work[w].need}
  <2>. TAKE w \in Work
  <2>1. "need" \in DOMAIN work[w]
    BY <1>3, Zenon DEF HasNeeds
  <2>2. work'[w] \in {work[w], execution_lost(work[w], w)}
    BY <1>1, Zenon
  <2>. QED
    BY <2>1, <2>2, LostNeeds, Zenon
<1>. QED
  BY <1>1, <1>2, <1>4, <1>5, <1>6, WorkLower, Zenon

\* A job is queued, or a task of a node is needed.
LEMMA ArisesFits == ASSUME IInv, FitInv, NEW w, Arises(w) PROVE FitInv'
<1>. DEFINE x == [work[w] EXCEPT !.st = "waiting"]
<1>1. /\ scenario' = scenario /\ pass' = pass /\ task_mgr' = task_mgr /\ offer' = offer /\ agents' = agents
      /\ alive' = alive /\ sync' = sync /\ work' = [work EXCEPT ![w].st = "waiting"]
  BY DEF Arises, mesosVars
<1>2. \A u \in Work : work'[u] = IF u = w THEN x ELSE work[u]
  BY <1>1, Zenon DEF IInv, IsWork
<1>3. DOMAIN x = DOMAIN work[w] /\ x.need = work[w].need
  OBVIOUS
<1>. HIDE DEF x
<1>4. \A u \in Work : "need" \in DOMAIN work'[u] /\ work'[u].need \in {work[u].need, scenario.work[u].need}
  BY <1>2, <1>3, Zenon DEF FitInv, HasNeeds
<1>5. IsOffers(offer') /\ OffersKept(offer') /\ IsAgents(agents')
  BY <1>1, SameKept, Zenon DEF FitInv
<1>. QED
  BY <1>1, <1>4, <1>5, WorkLower, Zenon

\* resourceOffers: what has become an offer was none, and so is in no pass with anything.
LEMMA OfferFits == ASSUME IInv, FitInv, NEW a, resourceOffers(a) PROVE FitInv'
<1>. DEFINE o == CHOOSE x \in OfferIds : offer[x] = NoOffer
            y == [agent |-> a, res |-> FreeAt(a), out |-> TRUE]
<1>1. /\ scenario' = scenario /\ work' = work /\ pass' = pass /\ task_mgr' = task_mgr /\ agents' = agents
      /\ sync' = sync /\ offer' = [offer EXCEPT ![o] = y] /\ alive' = [alive EXCEPT ![a] = "known"] /\ CanOffer(a)
  BY Zenon DEF resourceOffers
<1>2. IsOffers(offer) /\ IsAgents(agents) /\ sync \subseteq DOMAIN scenario.agents
  BY Zenon DEF FitInv
<1>3. FreeAt(a) \in Amounts /\ \E x \in OfferIds : offer[x] = NoOffer
  BY <1>1, Zenon DEF CanOffer
<1>4. o \in OfferIds /\ offer[o] = NoOffer
  BY <1>3, Zenon
<1>. HIDE DEF o
<1>5. DOMAIN offer' = OfferIds /\ \A x \in OfferIds : offer'[x] = IF x = o THEN y ELSE offer[x]
  BY <1>1, <1>2, Zenon DEF IsOffers
<1>6. {"agent", "res", "out"} \subseteq DOMAIN y /\ y.res \in Amounts /\ is_sufficient_to_meet(y.res, NoOffer.res)
  <2>1. {"agent", "res", "out"} \subseteq DOMAIN y /\ y.res = FreeAt(a) /\ NoOffer.res = NoResources
    BY DEF NoOffer
  <2>2. \A r \in Amounts : is_sufficient_to_meet(r, NoResources)
    BY DEF Amounts, is_sufficient_to_meet, NoResources
  <2>. HIDE DEF y
  <2>. QED
    BY <1>3, <2>1, <2>2, Zenon
<1>. HIDE DEF y
<1>7. IsOffers(offer')
  BY <1>2, <1>5, <1>6, Zenon DEF IsOffers
<1>8. OffersKept(offer')
  <2>1. \A x \in OfferIds : is_sufficient_to_meet(offer'[x].res, offer[x].res)
    BY <1>4, <1>5, <1>6, SameKept, Zenon
  <2>. QED
    BY <2>1, Zenon DEF OffersKept
<1>9. DOMAIN alive' = DOMAIN alive
  BY <1>1, Zenon
<1>. QED
  BY <1>1, <1>2, <1>7, <1>8, <1>9, WorkSame, Zenon

\* Offers that are rescinded, or lost with their agent, keep their resources.
LEMMA OutChanges ==
  ASSUME FitInv, DOMAIN offer' = OfferIds,
         \A o \in OfferIds : offer'[o] = offer[o] \/ offer'[o] = [offer[o] EXCEPT !.out = FALSE]
  PROVE  IsOffers(offer') /\ OffersKept(offer')
<1>1. \A o \in OfferIds : DOMAIN offer'[o] = DOMAIN offer[o] /\ offer'[o].res = offer[o].res
  <2>. TAKE o \in OfferIds
  <2>1. LET y == [offer[o] EXCEPT !.out = FALSE] IN DOMAIN y = DOMAIN offer[o] /\ y.res = offer[o].res
    OBVIOUS
  <2>. QED
    BY <2>1, Zenon
<1>2. IsOffers(offer')
  BY <1>1, Zenon DEF FitInv, IsOffers
<1>. QED
  BY <1>1, <1>2, SameKept, Zenon DEF OffersKept

\* mesos_loses_agent.
LEMMA LosesAgentFits == ASSUME IInv, FitInv, NEW a, mesos_loses_agent(a) PROVE FitInv'
<1>1. /\ scenario' = scenario /\ work' = work /\ pass' = pass /\ task_mgr' = task_mgr /\ agents' = agents
      /\ sync' = sync /\ alive' = [alive EXCEPT ![a] = "gone"]
      /\ offer' = [o \in OfferIds |-> IF offer[o].agent = a THEN [offer[o] EXCEPT !.out = FALSE] ELSE offer[o]]
  BY Zenon DEF mesos_loses_agent
<1>2. /\ DOMAIN offer' = OfferIds
      /\ \A o \in OfferIds : offer'[o] = offer[o] \/ offer'[o] = [offer[o] EXCEPT !.out = FALSE]
  BY <1>1, Zenon
<1>3. IsOffers(offer') /\ OffersKept(offer')
  BY <1>2, OutChanges, Zenon
<1>4. DOMAIN alive' = DOMAIN alive /\ IsAgents(agents') /\ sync' \subseteq DOMAIN scenario.agents
  BY <1>1, Zenon DEF FitInv
<1>. QED
  BY <1>1, <1>3, <1>4, WorkSame, Zenon

\* mesos_rescinds.
LEMMA RescindsFits == ASSUME IInv, FitInv, NEW o \in OfferIds, mesos_rescinds(o) PROVE FitInv'
<1>1. /\ scenario' = scenario /\ work' = work /\ pass' = pass /\ task_mgr' = task_mgr /\ agents' = agents
      /\ sync' = sync /\ alive' = alive /\ offer' = [offer EXCEPT ![o].out = FALSE]
  BY Zenon DEF mesos_rescinds
<1>2. /\ DOMAIN offer' = OfferIds
      /\ \A x \in OfferIds : offer'[x] = offer[x] \/ offer'[x] = [offer[x] EXCEPT !.out = FALSE]
  BY <1>1, Zenon DEF FitInv, IsOffers
<1>3. IsOffers(offer') /\ OffersKept(offer')
  BY <1>2, OutChanges, Zenon
<1>4. IsAgents(agents') /\ sync' \subseteq DOMAIN scenario.agents
  BY <1>1, Zenon DEF FitInv
<1>. QED
  BY <1>1, <1>3, <1>4, WorkSame, Zenon

\* sync_with_mesos, which sets the totals in a second step.
LEMMA SyncFits == ASSUME IInv, FitInv, sync_with_mesos \/ set_totals PROVE FitInv'
<1>1. /\ scenario' = scenario /\ work' = work /\ pass' = pass /\ task_mgr' = task_mgr /\ offer' = offer
      /\ alive' = alive
  BY DEF sync_with_mesos, set_totals, mesosVars
<1>2. /\ IsOffers(offer') /\ OffersKept(offer') /\ IsAgents(agents) /\ sync \subseteq DOMAIN scenario.agents
      /\ DOMAIN alive = DOMAIN scenario.agents /\ scenario \in Scenarios
  BY <1>1, SameKept, Zenon DEF FitInv, IInv
<1>3. CASE sync_with_mesos
  <2>1. agents' = agents /\ sync' \subseteq DOMAIN scenario.agents
    BY <1>2, <1>3, Zenon DEF sync_with_mesos
  <2>. QED
    BY <1>1, <1>2, <2>1, WorkSame, Zenon
<1>4. CASE set_totals
  <2>1. PICK known \in SUBSET (sync \cap DOMAIN agents) :
          agents' = [a \in DOMAIN agents |-> IF a \in known THEN set_total(agents[a], scenario.agents[a].total)
                                             ELSE agents[a]]
    BY <1>4, Zenon DEF set_totals
  <2>2. sync' \subseteq DOMAIN scenario.agents
    BY <1>4, Zenon DEF set_totals
  <2>3. \A a \in known : IsAgent(set_total(agents[a], scenario.agents[a].total))
    <3>. TAKE a \in known
    <3>1. scenario.agents[a].total \in Amounts
      BY <1>2, <2>1, ScenariosAssumption, Zenon
    <3>2. IsAgent(agents[a])
      BY <1>2, <2>1, Zenon DEF IsAgents
    <3>. DEFINE t == scenario.agents[a].total
                x == agents[a]
    <3>. HIDE DEF t, x
    <3>3. t \in Amounts /\ IsAgent(x)
      BY <3>1, <3>2, Zenon DEF t, x
    <3>4. IsAgent([x EXCEPT !.total = {t}])
      BY <3>3 DEF IsAgent
    <3>. QED
      BY <3>4, Zenon DEF set_total, t, x
  <2>4. IsAgents(agents')
    BY <1>2, <2>1, <2>3, Zenon DEF IsAgents
  <2>. QED
    BY <1>1, <1>2, <2>2, <2>4, WorkSame, Zenon
<1>. QED
  BY <1>3, <1>4, Zenon

\* Every step keeps FitInv.
LEMMA StepKeepsFit == ASSUME IInv, FitInv, [Next]_vars PROVE FitInv'
<1>1. CASE SchedulingStep
  BY <1>1, TakeFits, RefreshFits, PlanStepFits, AllocateFits, LaunchFits, Zenon DEF SchedulingStep
<1>2. CASE Callback
  BY <1>2, RescindedFits, StatusFits, SlaveLostFits, Zenon DEF Callback
<1>3. ASSUME scenario' = scenario, work' = work, pass' = pass, task_mgr' = task_mgr, offer' = offer, agents' = agents,
             DOMAIN alive' = DOMAIN alive, sync' = sync
      PROVE  FitInv'
  <2>1. IsOffers(offer') /\ OffersKept(offer') /\ IsAgents(agents') /\ sync' \subseteq DOMAIN scenario.agents
    BY <1>3, SameKept, Zenon DEF FitInv
  <2>. QED
    BY <1>3, <2>1, WorkSame, Zenon
<1>4. ASSUME NEW a, mesos_adds_agent(a) PROVE FitInv'
  <2>1. /\ scenario' = scenario /\ work' = work /\ pass' = pass /\ task_mgr' = task_mgr /\ offer' = offer
        /\ agents' = agents /\ DOMAIN alive' = DOMAIN alive /\ sync' = sync
    BY <1>4, Zenon DEF mesos_adds_agent
  <2>. QED
    BY <1>3, <2>1, Zenon
<1>5. ASSUME NEW x, NEW r, \/ register_node(x) \/ update_from_model(x) \/ _image_pull_completed(x)
                           \/ others_use(x, r) \/ task_ends(x) \/ UNCHANGED vars
      PROVE  FitInv'
  <2>1. /\ scenario' = scenario /\ work' = work /\ pass' = pass /\ task_mgr' = task_mgr /\ offer' = offer
        /\ agents' = agents /\ alive' = alive /\ sync' = sync
    <3>1. CASE register_node(x)
      BY <3>1, Zenon DEF register_node, mesosVars
    <3>2. CASE update_from_model(x)
      BY <3>2, Zenon DEF update_from_model
    <3>3. CASE _image_pull_completed(x)
      BY <3>3, Zenon DEF _image_pull_completed, mesosVars
    <3>4. CASE others_use(x, r)
      BY <3>4, Zenon DEF others_use
    <3>5. CASE task_ends(x)
      BY <3>5, Zenon DEF task_ends, mesosVars
    <3>6. CASE UNCHANGED vars
      BY <3>6, Zenon DEF vars, mesosVars
    <3>. QED
      BY <1>5, <3>1, <3>2, <3>3, <3>4, <3>5, <3>6, Zenon
  <2>. QED
    BY <1>3, <2>1, Zenon
<1>6. ASSUME NEW a, \/ resourceOffers(a) \/ mesos_loses_agent(a) \/ mesos_adds_agent(a) \/ register_node(a)
                    \/ \E r \in scenario.others : others_use(a, r)
      PROVE  FitInv'
  BY <1>4, <1>5, <1>6, OfferFits, LosesAgentFits, Zenon
<1>7. CASE \/ \E n \in Nodes : update_from_model(n) \/ _image_pull_completed(n)
           \/ (\E w \in Work : task_ends(w)) \/ UNCHANGED vars
  BY <1>5, <1>7, Zenon
<1>. QED
  BY <1>1, <1>2, <1>6, <1>7, SkipFits, SyncFits, RescindsFits, ArisesFits, Zenon
     DEF Next, queue_jobs, _create_next_tasks

\* At the start no pass is under way.
LEMMA InitFits == ASSUME Init PROVE FitInv
<1>1. /\ scenario \in Scenarios /\ pass = IdlePass /\ work = [w \in Work |-> NoWork(w)]
      /\ offer = [o \in OfferIds |-> NoOffer] /\ agents = <<>> /\ task_mgr = {} /\ sync = {}
      /\ DOMAIN alive = DOMAIN scenario.agents
  BY Zenon DEF Init
<1>2. HasNeeds(work)
  <2>1. \A w \in Work : "need" \in DOMAIN work[w] /\ work[w].need = scenario.work[w].need
    BY <1>1 DEF NoWork
  <2>2. \A w \in Work : scenario.work[w].need \in Amounts
    BY <1>1, ScenariosAssumption, Zenon DEF Work
  <2>. QED
    BY <2>1, <2>2, SelfSufficient, Zenon DEF HasNeeds
<1>3. IsOffers(offer)
  BY <1>1, AmountFacts DEF IsOffers, NoOffer
<1>4. IsAgents(agents)
  BY <1>1 DEF IsAgents
<1>5. {"new", "old", "tasks"} \subseteq DOMAIN pass /\ pass.pc = "idle"
  BY <1>1 DEF IdlePass
<1>. QED
  BY <1>1, <1>2, <1>3, <1>4, <1>5 DEF FitInv

\* What a node launches is among what its offers are enough for.
LEMMA FitFromInv == ASSUME IInv, FitInv PROVE TasksFitTheirOffers
<1>1. SUFFICES ASSUME pass.pc = "launch", NEW n \in Nodes
               PROVE  is_sufficient_to_meet(Total(Res, pass.nodes[n].offers), Total(Need, ToLaunch(n)))
  BY Zenon DEF TasksFitTheirOffers
<1>. DEFINE x == pass.nodes[n]
            A == Total(Res, x.offers)
<1>2. /\ scenario \in Scenarios /\ IsNeeds(Need) /\ IsResources(Res)
      /\ x.tasks \subseteq Work /\ x.running \subseteq Work /\ x.offers \subseteq OfferIds /\ EnoughFor(A, x, Need)
  BY <1>1, NeedsFacts, ResFacts, Zenon DEF IInv, FitInv, IsSupplied
<1>3. A \in Amounts
  BY <1>2, OffersSum, Zenon
<1>. HIDE DEF x, A
<1>4. ToLaunch(n) = x.tasks \cup ToStart(n) /\ ToStart(n) \subseteq x.running
  BY Zenon DEF ToLaunch, ToStart, x
<1>. DEFINE S == ToStart(n)
            L == ToLaunch(n)
<1>5. /\ IsFiniteSet(x.tasks) /\ IsFiniteSet(x.running) /\ IsFiniteSet(S)
      /\ \A w \in x.tasks \cup S : Need[w] \in Amounts
      /\ \A w \in x.running : Need[w] \in Amounts
  <2>1. S \subseteq Work
    BY <1>2, <1>4, Zenon
  <2>2. IsFiniteSet(x.tasks) /\ IsFiniteSet(x.running) /\ IsFiniteSet(S)
    BY <1>2, <2>1, WorkFinite, Zenon
  <2>. QED
    BY <1>2, <2>1, <2>2, Zenon DEF IsNeeds
<1>6. L = x.tasks \cup S /\ S \subseteq x.running
  BY <1>4, Zenon
<1>. HIDE DEF S, L
<1>7. ASSUME NEW r \in ResourceNames PROVE A[r] >= Total(Need, L)[r]
  <2>1. A[r] \in Nat /\ A[r] >= Total(Need, x.tasks)[r] + Total(Need, x.running)[r]
    BY <1>2, <1>3, Zenon DEF EnoughFor, Amounts
  <2>2. /\ Total(Need, S)[r] \in Nat /\ Total(Need, x.running)[r] \in Nat
        /\ Total(Need, S)[r] <= Total(Need, x.running)[r]
    BY <1>5, <1>6, TotalFewer, Zenon
  <2>3. Total(Need, L)[r] <= Total(Need, x.tasks)[r] + Total(Need, S)[r] /\ Total(Need, L)[r] \in Nat
    BY <1>5, <1>6, TotalUnion, Zenon
  <2>4. Total(Need, x.tasks)[r] \in Nat
    BY <1>2, NeedsSum, Zenon
  <2>. QED
    BY <2>1, <2>2, <2>3, <2>4
<1>. QED
  BY <1>7, Zenon DEF is_sufficient_to_meet, A, x, L

\* The tasks that are about to be launched on a node never need more than its offers
\* have, for any work, nodes, agents and offers, and whatever is rescinded, is lost, ends
\* or fails between the steps of a pass: add_allocated_offers drops what the offers that
\* are still there are not enough for, and after it the needs of what is planned can only
\* become smaller.
THEOREM TasksFit == Spec => []TasksFitTheirOffers
<1>1. Init => IInv /\ FitInv
  BY InitHolds, InitFits
<1>2. IInv /\ FitInv /\ [Next]_vars => IInv' /\ FitInv'
  BY StepKeeps, StepKeepsFit
<1>3. IInv /\ FitInv => TasksFitTheirOffers
  BY FitFromInv
<1>. QED
  BY <1>1, <1>2, <1>3, PTL DEF Spec
====
