CONSTANTS
  Runs = {e1, c1, c2}
  Deploys = {e1}
  LastRelease = 4
  HeadOf <- MCHead
  Unhealthy = {2, 4}
  Names = {"development", "production", "test", "Production", "prod"}
  Lower <- MCLower
  Processes = {app}
  MaxBytes = 2
  MaxEdge = 4
  MaxPixels = 15
  BombPixels = 40
  MaxName = 2
  Files <- MCFiles
SPECIFICATION StandaloneSpec
INVARIANTS
  SchemaMatchesVersion
  CodeHasItsSchema
  WholeOrNothing
  NoTypoLosesStorage
  StoredIsSound
  RefusedForItsReason
PROPERTY AllOrNothing
