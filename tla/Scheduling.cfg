SPECIFICATION Spec
CONSTANTS
  OfferIds = {o1, o2}
  Names = {"urgent", "rescinded", "limited", "lost", "gpus", "deprecated", "cluster"}
  Scenarios <- MCScenarios
CHECK_DEADLOCK FALSE
INVARIANTS TasksFitTheirOffers LimitsHold
PROPERTIES OffersGoBack NoneStarves
