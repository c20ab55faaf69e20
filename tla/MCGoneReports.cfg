CONSTANTS
  r1 = r1  r2 = r2  r3 = r3  r4 = r4  r5 = r5
  ip1 = ip1  ip2 = ip2  ip3 = ip3
  c1 = c1  c2 = c2
  Requests = {r1, r2, r3, r4, r5}
  Reporters = {ip1, ip2, ip3}
  CraneIds = {c1, c2}
  Cranes = {c1}
  CraneOf <- MCCraneOf
  ReporterOf <- MCReporterOf
  Threshold = 2
  NoOne = NoOne
SPECIFICATION Spec
INVARIANTS
  GoneAtThreshold
  OneReportEach
