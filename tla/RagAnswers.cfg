CONSTANTS
  a1 = a1
  a2 = a2
  b1 = b1
  b2 = b2
  x1 = x1
  f1 = f1
  f2 = f2
  r1 = r1
  r2 = r2
  Requests = {r1, r2}
  Points = {a1, a2, b1, b2, x1}
  Files = {f1, f2}
  FileOf <- MCFileOf
  DocOf <- MCDocOf
  Score <- MCScore
  Length <- MCLength
  Solid <- MCSolid
  Foreign = {x1}
  Questions <- MCQuestions
  MinScore = 1
  MaxFiles = 2
  EmbeddingMayFail = {"timeout"}
  IndexMayFail = {"busy"}
  ClaudeMayFail = {"rateLimited"}
  MaxHits = 2
  MaxPerDocument = 2
  MaxContext = 6
  MaxChunk = 3
  Replies <- MCReplies
  MaxConcurrency = 1
  MaxCalls = 3
  MaxInput = 6
  MaxOutput = 3
  PerCall = 2
  MaxOverrun = 1
  Estimates = {2}
SPECIFICATION FairSpec
CHECK_DEADLOCK FALSE
INVARIANTS BudgetKept SlotsAndReservations CitationsKeepMeaning SynthesisOneVersion
PROPERTIES QuestionsEnd
