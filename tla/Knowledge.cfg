SPECIFICATION Spec
CONSTANTS
  ours = ours
  fallback = fallback
  Thread = {t1, t2}
  Source = {s1}
  Doc = {d1, d2, d3}
  Batches = 2
  Dim <- TwoLengths
  MaxDocuments = 1
  None = None
SYMMETRY Alike
INVARIANTS
  IndexIsSound
  IndexedSourcesHaveTheirVectors
  DeletedSourcesAreGone
