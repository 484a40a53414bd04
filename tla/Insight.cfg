SPECIFICATION InsightSpec
CONSTANTS
  Scenarios <- Stories
  MaxFaults = 2
  Msgs = {"m1", "m2"}
  Newest = "m2"
  Agents = {"ann", "bob"}
  AnalyzeRetries = 1
  MaxChoices = 1
  Tickets = {"t1", "t2"}
  Topics = {"k1", "k2"}
  NoTopic = "no topic"
  Closers = {"c1", "c2"}
  Forms = {"f1", "f2"}
  Stars = {1, 5}
  ClassifyRetries = 1
  SurveyRetries = 1
  MaxResolves = 2
INVARIANTS AnalysisHonest CountersMatch SurveyHonest
PROPERTIES InsightSettles
CHECK_DEADLOCK FALSE
