CONSTANTS
  Docs = {d1, d2}
  Chunks = {c1, c2}
  Reqs = {r1, r2}
  MaxRuns = 3
  MaxFaults = 2
  Faults = {"crash", "compensation", "commit", "chunks", "lock", "late"}
  NoReq = NoReq
  NoDoc = NoDoc
SPECIFICATION Spec
SYMMETRY Symmetry
INVARIANTS OneIndexed SupersededHidden LastSuccessSearchable SearchNeverLost QuietMeansExact
PROPERTIES CallbackNotStale
