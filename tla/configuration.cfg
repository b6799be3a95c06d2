SPECIFICATION FairSpec
CONSTANTS
  Metre = 10
  Precision = 100
  MaxMishaps = 2
INVARIANTS CleanMeansOnePatrol ReadersAgree HoversFaceTags
PROPERTIES AdviceRepairs CleanIsFixed
