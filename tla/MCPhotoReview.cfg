CONSTANTS
  Photos = {1, 2, 3}
  r1 = r1  r2 = r2  r3 = r3
  Requests = {r1, r2, r3}
  ip1 = ip1
  Reporters = {ip1}
  PhotoOf <- MCPhotoOf
  ReporterOf <- MCReporterOf
  NoOne = NoOne
  NoCursor = 4
  MaxLimit = 2
SPECIFICATION Spec
INVARIANTS
  NothingSkipped
  NewestFirst
  ReportedHaveCounts
  OneReportEach
PROPERTIES
  ReportedWhileActive
