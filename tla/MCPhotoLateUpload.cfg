CONSTANTS
  c1 = c1
  c2 = c2
  Uploads = {u1}
  Strays = {}
  CraneIds = {c1, c2}
  Cranes = {c1}
  CraneOf <- MCCraneOf
  Workers = {w1}
  Admins = {a1}
  NoOne = NoOne
  BatchSize = 1
  MaxPhotos = 1
  MaxAttempts = 1
  AttemptCap = 1
  SlowUploads = {u1}
SPECIFICATION Spec
SYMMETRY Symmetry
INVARIANTS
  RaceIsCleanedUp
