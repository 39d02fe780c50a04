------------------------------ MODULE MCRollout ------------------------------
EXTENDS Rollout, TLC
CONSTANTS old, new, fork, m1, m2, x1
MCBuild == [r \in Replicas |-> CASE r = old -> <<m1>> [] r = new -> <<m1, m2>> [] r = fork -> <<x1>>]
MCDeployments == {Replicas, Replicas \ {Self}}
Use(objects) == {<<o, "use">> : o \in objects}
MCManifest == [r \in Replicas |-> CASE r = old -> Use({m1}) [] r = new -> Use({m1, m2})
                                     [] r = fork -> Use({x1})]
=============================================================================
