CONSTANTS
  Requests = {r1}
  Pros = {p1}
  Calls = {c1, c2}
  NoCall = NoCall
  Cap = 1
SPECIFICATION FairSpec
CHECK_DEADLOCK FALSE
PROPERTIES OffersSettle AcceptAnswered
