SPECIFICATION Spec
CONSTANTS
  None = None
  a1 = a1
  a2 = a2
  a3 = a3
  a4 = a4
  r1 = r1
  Sources <- FeedSources
  Runs = {r1, r2}
  Documents = {a1, a2, a3, a4}
  Url <- FeedUrl
  Text <- Own
  Relevant = {a1, a2, a3, a4}
  CompanyName <- FeedName
  Domain <- FeedDomain
  Mentions <- FeedMentions
  Title <- FeedTitle
  Actionable = {a1, a2, a3}
  Length <- FeedLength
INVARIANT NothingHalfDone
INVARIANT Traceable
INVARIANT NothingInvented
INVARIANT ConflictsNeedOverlap
PROPERTY EveryRunEnds
