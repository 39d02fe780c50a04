SPECIFICATION LiveRolloutSpec
CONSTANTS
  old = old
  new = new
  fork = fork
  m1 = m1
  m2 = m2
  x1 = x1
  Replicas = {old, new, fork}
  Self = old
  Contents = {m1, m2, x1}
  Tables = {m1, x1}
  Deployments <- MCDeployments
  Build <- MCBuild
  Manifest <- MCManifest
  Privileges = {"use"}
  MaxChanges = 2
  Requests = {q1}
  None = None
INVARIANTS StartsOnItsSchema NobodyFailsForOthers AuthorityIsExact ReleasedAfterUse ExitTellsCause
PROPERTIES EveryReplicaStarts SignalStops
