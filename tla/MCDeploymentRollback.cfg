CONSTANTS
  Runs = {e1}
  Deploys = {e1}
  LastRelease = 4
  HeadOf <- MCHead
  Unhealthy = {2, 4}
SPECIFICATION DeploymentSpec
INVARIANT UnhealthyIsRolledBack
