\* Two requests for one cover, or one at a time for a query and the series it
\* leads to; sources and Redis come and go, the server crashes once. Fairness.
SPECIFICATION FairSpec
CONSTANTS
  v1 = v1
  i1 = i1
  s1 = s1
  q1 = q1
  Callers = {a, b}
  Covers = {v1}
  Infos = {i1}
  Series = {s1}
  Queries = {q1}
  SeriesOf <- MCSeriesOf
  Holdings <- MCHoldings
  Attempts <- MCAttempts
  MaxCrashes = 1
  None = None
CONSTRAINT OneKind
INVARIANTS AbsentWasHeard ToldIsCached
PROPERTIES HotIsNotAsked AnswersStand EveryoneIsTold FailedIsAskedAgain
CHECK_DEADLOCK FALSE
