---------------------------- MODULE MCCreateApi ----------------------------
EXTENDS CreateApi, TLC
CONSTANTS t1, t2, k1, k2
\* two plans that share a task identifier
MCPlans == {{t1, t2}, {t2}}
MCTaskIds == {t1, t2}
\* one body is refused, and two say the same
MCBodies == {<<1, 2>>, <<2, 1>>, <<1>>, <<1, 1>>}
MCDigests == {<<1, 2>>, <<2, 1>>, <<1>>}
Caller(identity, k, claims) == [identity |-> identity, key |-> k, claims |-> claims]
Agent(k, claims) == Caller("agent", k, claims)
\* both use one key, or each its own, or one of them is refused
MCWants ==
  [Clients -> {Agent(k1, {1, 2}), Agent(k1, {1}), Agent(None, {1}),
               Caller("none", k1, {1}), Caller("no scope", k1, {1})}]
  \cup {w \in [Clients -> {Agent(k1, {1}), Agent(k2, {1})}] : \A b, c \in Clients : b # c => w[b] # w[c]}
Symmetry == {f @@ g @@ h : f \in Permutations(Clients), g \in Permutations(Processes),
                           h \in Permutations(Ids)}
=============================================================================
