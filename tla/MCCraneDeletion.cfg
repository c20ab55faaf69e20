CONSTANTS
  c1 = c1
  Uploads = {u1, u2}
  CraneIds = {c1}
  Cranes = {c1}
  CraneOf <- MCCraneOf
  Workers = {w1}
  Admins = {a1}
  NoOne = NoOne
  BatchSize = 1
  MaxPhotos = 2
  MaxAttempts = 1
  AttemptCap = 1
  SlowUploads = {}
  Doomed = c1
  Remover = Remover
SPECIFICATION DeletionSpec
SYMMETRY Symmetry
INVARIANTS
  OnlyLateUploadsLeak
  NoRowWithoutCrane
  OnlyDeletionBreaksPhotos
