CONSTANTS
  c1 = c1
  c2 = c2
  Uploads = {u1}
  Strays = {}
  CraneIds = {c1, c2}
  Cranes = {c1}
  CraneOf <- MCCraneOf
  Workers = {w1, w2}
  Admins = {a1}
  NoOne = NoOne
  BatchSize = 2
  MaxPhotos = 1
  MaxAttempts = 2
  AttemptCap = 2
  SlowUploads = {u1}
SPECIFICATION Spec
SYMMETRY Symmetry
INVARIANTS
  ProcessingHasLease
