CHECK_DEADLOCK FALSE
CONSTANTS
  d1 = d1
  d2 = d2
  c1 = c1
  c2 = c2
  s1 = s1
  None = None
  NoImage = NoImage
  NoDocument = NoDocument
  Documents = {d1, d2}
  Calls = {c1, c2}
  Slots = {s1}
  Cases <- MCCases
  ChunkSize = 4
  Overlap = 1
  Blanks = {2}
  Breaks = {3}
  ScanText = 1
  ScanCover = 1
  MaxImages = 2
  MaxImageBytes = 2
  MaxTitle = 1
  MaxFile = 9
  OcrLength = 2
  Unlucky = {d1}
  ParserMayFail = {"ENCRYPTED_DOCUMENT"}
  EmbeddingMayFail = {"busy"}
  IndexMayFail = {"LocalRagStorageError"}
  BackendMayAnswer = {"timeout", "missing"}
  MaxTries = 2
SPECIFICATION FairSpec
INVARIANTS RepliesMatch SlotsAccounted OfficeSerialized CitesUnlessMoved TextSurvives ReportsAgree

PROPERTY DocumentsEnd
