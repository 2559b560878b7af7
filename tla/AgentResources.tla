---- MODULE AgentResources ----
(***************************************************************************)
(* AgentResources (scheduler/resources/agent.py): the offers Scale holds   *)
(* of an agent, and what is known of its resources. res gives the          *)
(* resources of each offer. total is empty until the totals of the agent   *)
(* have been queried.                                                      *)
(***************************************************************************)
EXTENDS NodeResources

NewAgent == [offers |-> {}, offered |-> NoResources, task |-> NoResources,
             watermark |-> NoResources, recent |-> NoResources, total |-> {}]

\* The watermark follows offers and tasks upwards. Above the total it is cut off,
\* and the offers with it: a task has ended, which Scale was not told yet.
_update_resources(a, res) ==
  LET offered == Total(res, a.offers)
      available == add(offered, a.task)
      up == [a EXCEPT !.offered = offered,
                      !.watermark = increase_up_to(@, available),
                      !.recent = increase_up_to(@, available)]
      Limited(t) == LET watermark == limit_to(up.watermark, t)
                    IN  [up EXCEPT !.watermark = watermark,
                                   !.recent = limit_to(@, t),
                                   !.offered = limit_to(@, subtract(watermark, a.task))]
      over == {t \in a.total : ~is_sufficient_to_meet(t, up.watermark)}
  IN  IF over = {} THEN up ELSE Limited(CHOOSE t \in over : TRUE)

refresh_resources(a, res, offers, task) ==
  _update_resources([a EXCEPT !.offers = @ \cup offers, !.task = task], res)

rescind_offers(a, res, offer) == _update_resources([a EXCEPT !.offers = @ \ {offer}], res)

reset_watermark(a, res) ==
  _update_resources([a EXCEPT !.watermark = a.recent, !.recent = NoResources], res)

set_total(a, t) == [a EXCEPT !.total = {t}]

\* Mutant: offers that were held too long stay.
allocate_offers_needed(a, res, old, wanted) ==
  IF ~is_sufficient_to_meet(a.offered, wanted) THEN {{}}
  ELSE {S \in SUBSET a.offers : /\ is_sufficient_to_meet(Total(res, S), wanted) \/ S = a.offers
                                /\ \A o \in S : ~is_sufficient_to_meet(Total(res, S \ {o}), wanted)}

\* The sets of offers that allocate_offers may take for the resources wanted: those
\* that were held too long (old), then one after the other until they are enough.
allocate_offers(a, res, old, wanted) ==
  LET expired == a.offers \cap old
      Enough(S) == is_sufficient_to_meet(Total(res, S), wanted)
  IN  IF ~is_sufficient_to_meet(a.offered, wanted) \/ Enough(expired) THEN {expired}
      ELSE {S \in SUBSET a.offers :
              /\ expired \subseteq S
              /\ Enough(S) \/ S = a.offers
              /\ \E o \in S \ expired : ~Enough(S \ {o})}
            \cup (IF a.offers = expired THEN {expired} ELSE {})

Without(a, res, offers) == _update_resources([a EXCEPT !.offers = @ \ offers], res)
====
