------------------------- MODULE AuthorisationProofs -------------------------
(***************************************************************************)
(* What is allowed, and by what.  For every set of bundles, scopes, rules, *)
(* operators and engines: the audit trail tells which bundle is active,    *)
(* and every decision can be reproduced from its record.  For every number *)
(* of grants, tasks and consumers: the uses of an approval are counted     *)
(* exactly, and a granted consumption is recorded once.  For any replicas, *)
(* builds, manifests and grants: migration, audit and process keep their   *)
(* guarantees in every order of their steps.                               *)
(***************************************************************************)
EXTENDS Approval, Policy, Rollout, FiniteSetTheorems, TLAPS

-----------------------------------------------------------------------------
(* Policy bundles: the inductive invariant *)

\* A transaction that has updated, and so locked, the row of its scope.
Holds(o) == tx[o] # Nothing /\ tx[o].pc # "begun"

\* No event has a number that was not drawn.
Numbered == \A v \in events : v.sequence <= sequence

\* One transaction at a time holds the row of a scope.
Locked ==
  \A o, q \in Operators : Holds(o) /\ Holds(q) /\ tx[o].scope = tx[q].scope => o = q

\* The number of an open activation is above those of its scope: it was drawn
\* under the lock, and nothing commits in the scope before the lock is released.
Newest ==
  \A o \in Operators : tx[o] # Nothing /\ tx[o].pc = "logged" =>
    /\ tx[o].number <= sequence
    /\ \A v \in EventsOf(tx[o].scope) : v.sequence < tx[o].number

\* An activation is of a stored bundle of its scope.
Chosen == \A o \in Operators : tx[o] # Nothing => Activatable(tx[o].bundle, tx[o].scope)

Activated(b, s) == Activatable(b, s) /\ \E v \in EventsOf(s) : v.bundle = b

ActiveIsLogged == \A s \in Scopes : activation[s] # Nothing => Activated(activation[s], s)

\* An evaluation goes on with the stored rules of a bundle that was activated,
\* also when another one has been activated since.
Loaded ==
  \A e \in Engines : engine[e] # Nothing =>
    /\ Activated(engine[e].bundle, engine[e].scope)
    /\ engine[e].rules = bundles[engine[e].bundle].rules

\* The versions of a row are numbers.
Types == PolicyTypeOK /\ IsFiniteSet(events)
Trail == Numbered /\ Locked /\ Newest /\ TrailEndsInActive
Records == Chosen /\ ActiveIsLogged /\ Loaded /\ DecisionIsReproducible
PolicyInv == Types /\ Trail /\ Records

-----------------------------------------------------------------------------
(* The first rule for a recipe *)

\* A set of positions that is not empty has a least one.
LEMMA LeastPosition ==
  ASSUME NEW T \in SUBSET Nat, T # {}
  PROVE  \E i \in T : \A j \in T : i <= j
<1>1. PICK i \in T : \A j \in T : ~(<<j, i>> \in OpToRel(<, Nat))
  BY NatLessThanWellFounded, WFMin, Zenon
<1>2. ASSUME NEW j \in T PROVE i <= j
  <2>1. <<j, i>> \notin {p \in Nat \X Nat : p[1] < p[2]}
    BY <1>1, Zenon DEF OpToRel
  <2>2. i \in Nat /\ j \in Nat
    BY Zenon
  <2>3. CASE j < i
    <3>1. <<j, i>> \in {p \in Nat \X Nat : p[1] < p[2]}
      BY Zenon, <2>2, <2>3
    <3> QED BY <2>1, <3>1, Zenon
  <2> QED BY <2>2, <2>3
<1> QED BY Zenon, <1>2

\* The rule that decides is the first one for the recipe, and is for it
\* (MatchingRule).
LEMMA FirstRule ==
  ASSUME NEW rules \in Documents, NEW recipe \in Recipes, Matches(rules, recipe) # {}
  PROVE  \E i \in 1..Len(rules) :
           /\ MatchingRule(rules, recipe) = rules[i]
           /\ rules[i] \in [recipe: Recipes, effect: Effects]
           /\ rules[i].recipe = recipe
           /\ \A j \in 1..(i - 1) : rules[j].recipe # recipe
<1> DEFINE Rule == [recipe: Recipes, effect: Effects]
           M == Matches(rules, recipe)
           i == CHOOSE k \in M : \A j \in M : k <= j
<1>1. rules \in Seq(Rule)
  BY PolicyAssumption, Zenon
<1> HIDE DEF Rule
<1>2. Len(rules) \in Nat /\ M \in SUBSET Nat /\ M \subseteq 1..Len(rules)
  BY <1>1 DEF Matches
<1>3. \E k \in M : \A j \in M : k <= j
  BY Zenon, <1>2, LeastPosition
<1>4. i \in M /\ \A j \in M : i <= j
  BY Zenon, <1>3
<1>5. MatchingRule(rules, recipe) = rules[i]
  BY Zenon DEF MatchingRule
<1> HIDE DEF i
<1>6. i \in 1..Len(rules) /\ rules[i].recipe = recipe
  BY Zenon, <1>4 DEF Matches
<1>7. rules[i] \in Rule
  BY <1>1, <1>6
<1>8. ASSUME NEW j \in 1..(i - 1) PROVE rules[j].recipe # recipe
  BY <1>2, <1>4, <1>6 DEF Matches
<1> QED BY <1>5, <1>6, <1>7, <1>8, Zenon DEF Rule

-----------------------------------------------------------------------------
(* Types *)

\* The number of committed events of a scope is a number.
LEMMA VersionIsNat ==
  ASSUME Types, NEW s \in Scopes
  PROVE  Cardinality(EventsOf(s)) \in Nat
<1>1. EventsOf(s) \in SUBSET events
  BY Zenon DEF EventsOf
<1>2. IsFiniteSet(EventsOf(s))
  BY <1>1, FS_Subset, Zenon DEF Types
<1> QED BY <1>2, FS_CardinalityType, Zenon

\* Every step of an operator or an engine keeps the types of the rows.
LEMMA TypeStep == PolicyInv /\ [PolicyNext]_policyVars => Types'
<1> SUFFICES ASSUME PolicyInv, [PolicyNext]_policyVars PROVE Types'
  BY Zenon
<1>0. Types /\ PolicyTypeOK /\ IsFiniteSet(events)
  BY Zenon DEF PolicyInv, Types
<1>1. CASE StoreBundle
  BY <1>0, <1>1 DEF StoreBundle, Types, PolicyTypeOK, Bundle
<1>2. ASSUME NEW o \in Operators, BeginActivation(o) PROVE Types'
  <2>1. PICK b \in Bundles, s \in Scopes :
          tx' = [tx EXCEPT ![o] = [pc |-> "begun", scope |-> s, bundle |-> b,
                                   seen |-> Cardinality(EventsOf(s)), number |-> 0]]
    BY <1>2, Zenon DEF BeginActivation
  <2>2. Cardinality(EventsOf(s)) \in Nat
    BY Zenon, <1>0, VersionIsNat
  <2> QED BY Zenon, <1>0, <1>2, <2>1, <2>2 DEF BeginActivation, Types, PolicyTypeOK, Activation
<1>3. ASSUME NEW o \in Operators, MoveActive(o) PROVE Types'
  BY <1>0, <1>3 DEF MoveActive, Types, PolicyTypeOK, Activation
<1>4. ASSUME NEW o \in Operators, LogActivation(o) PROVE Types'
  <2>1. PICK x \in Activation : x = tx[o]
    BY Zenon, <1>0, <1>4 DEF LogActivation, PolicyTypeOK
  <2>2. sequence + 1 \in Nat
    BY <1>0 DEF PolicyTypeOK
  <2>3. [x EXCEPT !.number = sequence + 1, !.pc = "logged"] \in Activation
    BY Zenon, <2>1, <2>2, ZenonT(30) DEF Activation
  <2> QED BY Zenon, <1>0, <1>4, <2>1, <2>2, <2>3 DEF LogActivation, Types, PolicyTypeOK
<1>5. ASSUME NEW o \in Operators, Commit(o) PROVE Types'
  <2>1. tx[o] \in Activation
    BY Zenon, <1>0, <1>5 DEF Commit, PolicyTypeOK
  <2>2. IsFiniteSet(events')
    BY <1>0, <1>5, FS_AddElement, Zenon DEF Commit
  <2>3. PolicyTypeOK'
    BY <1>0, <1>5, <2>1 DEF Commit, PolicyTypeOK, Activation, Event
  <2> QED BY <2>2, <2>3, Zenon DEF Types
<1>6. ASSUME NEW o \in Operators, Rollback(o) PROVE Types'
  BY Zenon, <1>0, <1>6 DEF Rollback, Types, PolicyTypeOK
<1>7. ASSUME NEW e \in Engines, LoadActiveBundle(e) PROVE Types'
  <2>1. PICK s \in Scopes, r \in Recipes :
          /\ activation[s] # Nothing
          /\ engine' = [engine EXCEPT ![e] = [scope |-> s, recipe |-> r, bundle |-> activation[s],
                                              rules |-> bundles[activation[s]].rules]]
    BY <1>7, Zenon DEF LoadActiveBundle
  <2>2. activation[s] \in Bundles /\ bundles[activation[s]] \in Bundle
    BY <1>0, <2>1 DEF PolicyTypeOK, PolicyInv, Records, ActiveIsLogged, Activated, Activatable
  <2> QED BY <1>0, <1>7, <2>1, <2>2 DEF LoadActiveBundle, Types, PolicyTypeOK, Evaluation, Bundle
<1>8. ASSUME NEW e \in Engines, RecordDecision(e) PROVE Types'
  <2>1. engine[e] \in Evaluation
    BY Zenon, <1>0, <1>8 DEF RecordDecision, PolicyTypeOK
  <2>2. CASE UNCHANGED decisions
    BY Zenon, <1>0, <1>8, <2>2 DEF RecordDecision, Types, PolicyTypeOK
  <2>3. CASE /\ Matches(engine[e].rules, engine[e].recipe) # {}
             /\ decisions' = decisions \cup
                  {[scope |-> engine[e].scope, recipe |-> engine[e].recipe,
                    bundle |-> engine[e].bundle,
                    effect |-> MatchingRule(engine[e].rules, engine[e].recipe).effect]}
    <3>1. MatchingRule(engine[e].rules, engine[e].recipe).effect \in Effects
      BY <2>1, <2>3, FirstRule DEF Evaluation
    <3> QED BY <1>0, <1>8, <2>1, <2>3, <3>1 DEF RecordDecision, Types, PolicyTypeOK, Evaluation, Decision
  <2> QED BY <1>8, <2>2, <2>3, Zenon DEF RecordDecision
<1>9. CASE UNCHANGED policyVars
  BY Zenon, <1>0, <1>9 DEF policyVars, Types, PolicyTypeOK
<1> QED BY <1>1, <1>2, <1>3, <1>4, <1>5, <1>6, <1>7, <1>8, <1>9, Zenon DEF PolicyNext

-----------------------------------------------------------------------------
(* The audit trail *)

\* Steps that leave the activation rows, the events, the numbers and the open
\* activations alone leave the trail alone.
LEMMA TrailStays ==
  ASSUME Trail, UNCHANGED <<activation, events, sequence, tx>>
  PROVE  Trail'
BY Zenon DEF Trail, Numbered, Locked, Newest, TrailEndsInActive, Holds, EventsOf

\* A transaction that has not logged, and holds no row it did not hold, keeps the
\* trail (BeginActivation and Rollback).
LEMMA TrailKeeps ==
  ASSUME Trail, PolicyTypeOK, NEW o \in Operators, UNCHANGED <<activation, events, sequence>>,
         \A q \in Operators \ {o} : tx'[q] = tx[q],
         tx'[o] = Nothing \/ tx'[o].pc = "begun"
  PROVE  Trail'
<1>1. Numbered' /\ TrailEndsInActive'
  BY Zenon DEF Trail, Numbered, TrailEndsInActive, EventsOf
<1>2. Locked'
  BY DEF Trail, Locked, Holds
<1>3. Newest'
  BY Zenon DEF Trail, Newest, EventsOf
<1> QED BY Zenon, <1>1, <1>2, <1>3 DEF Trail

\* The trail and the active rows agree at every step: numbers are drawn and rows
\* are moved under one lock (MoveActive, LogActivation, Commit).
LEMMA TrailStep == PolicyInv /\ [PolicyNext]_policyVars => Trail'
<1> SUFFICES ASSUME PolicyInv, [PolicyNext]_policyVars PROVE Trail'
  BY Zenon
<1>0. Trail /\ PolicyTypeOK
  BY Zenon DEF PolicyInv, Types
<1>1. CASE StoreBundle
  BY <1>0, <1>1, TrailStays, Zenon DEF StoreBundle
<1>2. ASSUME NEW o \in Operators, BeginActivation(o) PROVE Trail'
  <2>1. PICK b \in Bundles, s \in Scopes :
          tx' = [tx EXCEPT ![o] = [pc |-> "begun", scope |-> s, bundle |-> b,
                                   seen |-> Cardinality(EventsOf(s)), number |-> 0]]
    BY <1>2, Zenon DEF BeginActivation
  <2>2. tx'[o].pc = "begun" /\ \A q \in Operators \ {o} : tx'[q] = tx[q]
    BY Zenon, <1>0, <2>1 DEF PolicyTypeOK
  <2> QED BY Zenon, <1>0, <1>2, <2>2, TrailKeeps DEF BeginActivation
<1>3. ASSUME NEW o \in Operators, MoveActive(o) PROVE Trail'
  <2>0. tx[o] \in Activation
    BY Zenon, <1>0, <1>3 DEF MoveActive, PolicyTypeOK
  <2>1. /\ tx'[o].pc = "moved" /\ tx'[o].scope = tx[o].scope
        /\ \A q \in Operators \ {o} : tx'[q] = tx[q]
    BY Zenon, <1>0, <1>3, <2>0 DEF MoveActive, PolicyTypeOK, Activation
  <2>2. \A q \in Operators : Holds(q) => tx[q].scope # tx[o].scope
    BY Zenon, <1>3 DEF MoveActive, RowIsFree, Holds
  <2>3. Locked'
    BY <1>0, <2>1, <2>2 DEF Trail, Locked, Holds
  <2>4. Numbered' /\ TrailEndsInActive' /\ Newest'
    BY <1>0, <1>3, <2>1 DEF MoveActive, Trail, Numbered, TrailEndsInActive, Newest, EventsOf
  <2> QED BY Zenon, <2>3, <2>4 DEF Trail
<1>4. ASSUME NEW o \in Operators, LogActivation(o) PROVE Trail'
  <2>0. tx[o] \in Activation /\ sequence \in Nat /\ events \in SUBSET Event
    BY Zenon, <1>0, <1>4 DEF LogActivation, PolicyTypeOK
  <2>1. /\ tx'[o].pc = "logged" /\ tx'[o].scope = tx[o].scope /\ tx'[o].number = sequence + 1
        /\ \A q \in Operators \ {o} : tx'[q] = tx[q]
    BY Zenon, <1>0, <1>4, <2>0 DEF LogActivation, PolicyTypeOK, Activation
  <2>2. sequence' = sequence + 1 /\ UNCHANGED <<activation, events>> /\ Holds(o)
    BY Zenon, <1>4 DEF LogActivation, Holds
  <2>3. Locked'
    BY <1>0, <2>1, <2>2 DEF Trail, Locked, Holds
  <2>4. Numbered' /\ TrailEndsInActive'
    BY <1>0, <2>0, <2>2 DEF Trail, Numbered, TrailEndsInActive, EventsOf, Event
  <2>5. ASSUME NEW q \in Operators, tx'[q] # Nothing, tx'[q].pc = "logged"
        PROVE  /\ tx'[q].number <= sequence'
               /\ \A v \in EventsOf(tx[q].scope)' : v.sequence < tx'[q].number
    <3>1. CASE q = o
      BY <1>0, <2>0, <2>1, <2>2, <3>1 DEF Trail, Numbered, EventsOf, Event
    <3>2. CASE q # o
      <4>1. tx[q] \in Activation /\ tx'[q] = tx[q]
        BY Zenon, <1>0, <2>1, <2>5, <3>2 DEF PolicyTypeOK
      <4>2. tx[q].number <= sequence /\ \A v \in EventsOf(tx[q].scope) : v.sequence < tx[q].number
        BY Zenon, <1>0, <2>5, <4>1 DEF Trail, Newest
      <4>3. EventsOf(tx[q].scope)' = EventsOf(tx[q].scope)
        BY Zenon, <2>2, <4>1 DEF EventsOf
      <4>4. tx[q].number \in Nat
        BY Zenon, <4>1 DEF Activation
      <4> QED BY <2>0, <2>2, <4>1, <4>2, <4>3, <4>4
    <3> QED BY Zenon, <3>1, <3>2
  <2>6. Newest'
    BY Zenon, <2>5 DEF Newest
  <2> QED BY Zenon, <2>3, <2>4, <2>6 DEF Trail
<1>5. ASSUME NEW o \in Operators, Commit(o) PROVE Trail'
  <2>0. PICK x \in Activation : x = tx[o]
    BY Zenon, <1>0, <1>5 DEF Commit, PolicyTypeOK
  <2>1. PICK new : new = [sequence |-> x.number, scope |-> x.scope, bundle |-> x.bundle]
    BY Zenon
  <2>2. /\ x # Nothing /\ x.pc = "logged" /\ events' = events \cup {new} /\ UNCHANGED sequence
        /\ activation' = [activation EXCEPT ![x.scope] = x.bundle]
        /\ tx' = [tx EXCEPT ![o] = Nothing]
    BY Zenon, <1>5, <2>0, <2>1 DEF Commit
  <2>3. new.sequence = x.number /\ new.scope = x.scope /\ new.bundle = x.bundle /\ new \in Event
    BY Zenon, <2>0, <2>1 DEF Activation, Event
  <2>4. /\ x.scope \in Scopes /\ x.bundle \in Bundles /\ x.bundle # Nothing /\ x.number \in Nat
        /\ sequence \in Nat /\ events \in SUBSET Event
    BY Zenon, <1>0, <2>0, PolicyAssumption DEF PolicyTypeOK, Activation
  <2>5. tx'[o] = Nothing /\ \A q \in Operators \ {o} : tx'[q] = tx[q]
    BY Zenon, <1>0, <2>2 DEF PolicyTypeOK
  <2>6. x.number <= sequence /\ \A v \in EventsOf(x.scope) : v.sequence < x.number
    BY Zenon, <1>0, <2>0, <2>2 DEF Trail, Newest
  <2>7. Numbered'
    BY Zenon, <1>0, <2>2, <2>3, <2>6 DEF Trail, Numbered
  <2>8. Locked'
    BY Zenon, <1>0, <2>5 DEF Trail, Locked, Holds
  <2>9. ASSUME NEW q \in Operators, tx'[q] # Nothing, tx'[q].pc = "logged"
        PROVE  /\ tx'[q].number <= sequence'
               /\ \A v \in EventsOf(tx[q].scope)' : v.sequence < tx'[q].number
    <3>1. q # o /\ tx'[q] = tx[q]
      BY Zenon, <2>5, <2>9
    <3>2. tx[q].scope # x.scope
      BY Zenon, <1>0, <2>0, <2>2, <2>9, <3>1 DEF Trail, Locked, Holds
    <3>3. EventsOf(tx[q].scope)' = EventsOf(tx[q].scope)
      BY Zenon, <2>2, <2>3, <3>1, <3>2 DEF EventsOf
    <3> QED BY Zenon, <1>0, <2>2, <2>9, <3>1, <3>3 DEF Trail, Newest
  <2>10. ASSUME NEW s \in Scopes, s # x.scope
         PROVE  activation'[s] = activation[s] /\ EventsOf(s)' = EventsOf(s)
    BY Zenon, <1>0, <2>2, <2>3, <2>10 DEF PolicyTypeOK, EventsOf
  <2>11. activation'[x.scope] = x.bundle /\ EventsOf(x.scope)' = EventsOf(x.scope) \cup {new}
    BY Zenon, <1>0, <2>2, <2>3, <2>4 DEF PolicyTypeOK, EventsOf
  <2>12. ASSUME NEW v \in EventsOf(x.scope)',
                \A w \in EventsOf(x.scope)' : w.sequence <= v.sequence
         PROVE  v = new
    <3>1. x.number <= v.sequence
      BY Zenon, <2>3, <2>11, <2>12
    <3>2. v \in EventsOf(x.scope) => v.sequence < x.number /\ v.sequence \in Nat
      BY Zenon, <2>4, <2>6 DEF EventsOf, Event
    <3> QED BY <2>4, <2>11, <2>12, <3>1, <3>2
  <2>13. TrailEndsInActive'
    BY Zenon, <1>0, <2>3, <2>4, <2>10, <2>11, <2>12 DEF Trail, TrailEndsInActive
  <2>14. Newest'
    BY Zenon, <2>9 DEF Newest
  <2> QED BY Zenon, <2>7, <2>8, <2>13, <2>14 DEF Trail
<1>6. ASSUME NEW o \in Operators, Rollback(o) PROVE Trail'
  <2>1. tx'[o] = Nothing /\ \A q \in Operators \ {o} : tx'[q] = tx[q]
    BY Zenon, <1>0, <1>6 DEF Rollback, PolicyTypeOK
  <2> QED BY Zenon, <1>0, <1>6, <2>1, TrailKeeps DEF Rollback
<1>7. ASSUME NEW e \in Engines, LoadActiveBundle(e) PROVE Trail'
  BY <1>0, <1>7, TrailStays, Zenon DEF LoadActiveBundle
<1>8. ASSUME NEW e \in Engines, RecordDecision(e) PROVE Trail'
  BY <1>0, <1>8, TrailStays, Zenon DEF RecordDecision
<1>9. CASE UNCHANGED policyVars
  BY Zenon, <1>0, <1>9, TrailStays DEF policyVars
<1> QED BY <1>1, <1>2, <1>3, <1>4, <1>5, <1>6, <1>7, <1>8, <1>9, Zenon DEF PolicyNext

-----------------------------------------------------------------------------
(* The records *)

\* What was activated for a scope stays so: bundles are stored once and events
\* are never removed.
LEMMA ActivatedStays ==
  ASSUME PolicyTypeOK, PolicyNext, NEW b \in Bundles, NEW s \in Scopes
  PROVE  /\ Activatable(b, s) => (Activatable(b, s)' /\ bundles'[b] = bundles[b])
         /\ Activated(b, s) => Activated(b, s)'
<1>1. events \subseteq events'
  BY Zenon DEF PolicyNext, StoreBundle, BeginActivation, MoveActive, LogActivation, Commit, Rollback,
         LoadActiveBundle, RecordDecision
<1>2. bundles[b] # Nothing => bundles'[b] = bundles[b]
  <2>1. CASE StoreBundle
    BY Zenon, <2>1 DEF StoreBundle, PolicyTypeOK
  <2>2. CASE ~StoreBundle
    BY <2>2, Zenon DEF PolicyNext, BeginActivation, MoveActive, LogActivation, Commit, Rollback,
         LoadActiveBundle, RecordDecision
  <2> QED BY Zenon, <2>1, <2>2
<1>3. Activatable(b, s) => (Activatable(b, s)' /\ bundles'[b] = bundles[b])
  BY Zenon, <1>2 DEF Activatable
<1>4. EventsOf(s) \subseteq EventsOf(s)'
  BY Zenon, <1>1 DEF EventsOf
<1> QED BY <1>3, <1>4, Zenon DEF Activated

\* A decision taken by the first rule of an activated bundle can be reproduced.
LEMMA NewDecision ==
  ASSUME PolicyInv, NEW e \in Engines, engine[e] # Nothing,
         Matches(engine[e].rules, engine[e].recipe) # {},
         NEW d, d = [scope |-> engine[e].scope, recipe |-> engine[e].recipe,
                     bundle |-> engine[e].bundle,
                     effect |-> MatchingRule(engine[e].rules, engine[e].recipe).effect]
  PROVE  d \in Decision /\ Reproducible(d)
<1>1. engine[e] \in Evaluation
  BY Zenon DEF PolicyInv, Types, PolicyTypeOK
<1>2. PICK x \in Evaluation : x = engine[e]
  BY Zenon, <1>1
<1>3. /\ d.scope = x.scope /\ d.recipe = x.recipe /\ d.bundle = x.bundle
      /\ d.effect = MatchingRule(x.rules, x.recipe).effect
  BY Zenon, <1>2
<1>4. Activated(x.bundle, x.scope) /\ x.rules = bundles[x.bundle].rules
  BY Zenon, <1>2 DEF PolicyInv, Records, Loaded
<1>5. x.rules \in Documents /\ x.recipe \in Recipes
  BY Zenon, <1>2 DEF Evaluation
<1>6. PICK i \in 1..Len(x.rules) :
        /\ MatchingRule(x.rules, x.recipe) = x.rules[i]
        /\ x.rules[i] \in [recipe: Recipes, effect: Effects]
        /\ x.rules[i].recipe = x.recipe
        /\ \A j \in 1..(i - 1) : x.rules[j].recipe # x.recipe
  BY <1>2, <1>5, FirstRule
<1>7. x.rules[i] = [recipe |-> d.recipe, effect |-> d.effect]
  BY Zenon, <1>3, <1>6
<1>8. d \in Decision
  BY Zenon, <1>2, <1>3, <1>6 DEF Decision, Evaluation
<1>9. Reproducible(d)
  BY <1>3, <1>4, <1>6, <1>7 DEF Activated, Activatable, Reproducible
<1> QED BY Zenon, <1>8, <1>9

\* A recorded decision stays reproducible.
LEMMA ReproducibleStays ==
  ASSUME PolicyTypeOK, PolicyNext, NEW d \in Decision, Reproducible(d)
  PROVE  Reproducible(d)'
<1>1. d.bundle \in Bundles /\ d.scope \in Scopes
  BY Zenon DEF Decision
<1>2. Activated(d.bundle, d.scope)
  BY Zenon, <1>1 DEF Reproducible, Activated, Activatable
<1>3. bundles'[d.bundle] = bundles[d.bundle] /\ Activated(d.bundle, d.scope)'
  BY Zenon, <1>1, <1>2, ActivatedStays DEF Activated
<1> QED BY <1>2, <1>3, Zenon DEF Reproducible, Activated, Activatable

\* The open activations and evaluations, the active rows and the decisions rest
\* on stored and activated bundles at every step.
LEMMA RecordsStep == PolicyInv /\ PolicyNext => Records'
<1> SUFFICES ASSUME PolicyInv, PolicyNext PROVE Records'
  BY Zenon
<1>0. Records /\ PolicyTypeOK /\ PolicyTypeOK' /\ decisions \in SUBSET Decision
  BY Zenon, TypeStep DEF PolicyInv, Types, PolicyTypeOK
<1>1. ASSUME NEW o \in Operators, tx'[o] # Nothing
      PROVE  Activatable(tx[o].bundle, tx[o].scope)'
  <2>1. CASE tx[o] # Nothing /\ tx'[o].bundle = tx[o].bundle /\ tx'[o].scope = tx[o].scope
    <3>1. PICK b \in Bundles, s \in Scopes : b = tx[o].bundle /\ s = tx[o].scope
      BY Zenon, <1>0, <2>1 DEF PolicyTypeOK, Activation
    <3>2. Activatable(b, s)
      BY Zenon, <1>0, <2>1, <3>1 DEF Records, Chosen
    <3>3. Activatable(b, s)'
      BY Zenon, <1>0, <3>2, ActivatedStays
    <3> QED BY Zenon, <2>1, <3>1, <3>3 DEF Activatable
  <2>2. CASE \E q \in Operators : BeginActivation(q)
    <3>1. PICK q \in Operators : BeginActivation(q)
      BY Zenon, <2>2
    <3>2. CASE q = o
      BY <1>0, <3>1, <3>2 DEF BeginActivation, PolicyTypeOK, Activatable
    <3>3. CASE q # o
      BY Zenon, <1>0, <1>1, <2>1, <3>1, <3>3 DEF BeginActivation, PolicyTypeOK
    <3> QED BY Zenon, <3>2, <3>3
  <2>3. CASE \E q \in Operators : MoveActive(q) \/ LogActivation(q) \/ Commit(q) \/ Rollback(q)
    <3>1. PICK q \in Operators : MoveActive(q) \/ LogActivation(q) \/ Commit(q) \/ Rollback(q)
      BY Zenon, <2>3
    <3>2. CASE q # o
      <4>1. tx'[o] = tx[o]
        BY Zenon, <1>0, <3>1, <3>2 DEF MoveActive, LogActivation, Commit, Rollback, PolicyTypeOK
      <4> QED BY Zenon, <1>1, <2>1, <4>1
    <3>3. CASE q = o
      <4>1. PICK x \in Activation : x = tx[o]
        BY Zenon, <1>0, <3>1, <3>3 DEF MoveActive, LogActivation, Commit, Rollback, PolicyTypeOK
      <4>2. CASE MoveActive(o)
        BY Zenon, <1>0, <2>1, <4>1, <4>2 DEF MoveActive, PolicyTypeOK, Activation
      <4>3. CASE LogActivation(o)
        <5>1. tx'[o] = [x EXCEPT !.number = sequence + 1, !.pc = "logged"]
          BY Zenon, <1>0, <4>1, <4>3 DEF LogActivation, PolicyTypeOK
        <5>2. tx'[o].bundle = x.bundle /\ tx'[o].scope = x.scope
          BY Zenon, <4>1, <5>1 DEF Activation
        <5> QED BY Zenon, <2>1, <4>1, <4>3, <5>2 DEF LogActivation
      <4>4. CASE Commit(o) \/ Rollback(o)
        BY Zenon, <1>0, <1>1, <4>4 DEF Commit, Rollback, PolicyTypeOK
      <4> QED BY Zenon, <3>1, <3>3, <4>2, <4>3, <4>4
    <3> QED BY Zenon, <3>2, <3>3
  <2>4. CASE UNCHANGED tx
    BY Zenon, <1>1, <2>1, <2>4
  <2> QED BY <2>2, <2>3, <2>4, Zenon DEF PolicyNext, StoreBundle, LoadActiveBundle, RecordDecision
<1>2. ASSUME NEW s \in Scopes, activation'[s] # Nothing PROVE Activated(activation[s], s)'
  <2>1. CASE activation'[s] = activation[s]
    <3>1. PICK b \in Bundles : b = activation[s]
      BY Zenon, <1>0, <1>2, <2>1 DEF PolicyTypeOK
    <3>2. Activated(b, s)'
      BY Zenon, <1>0, <1>2, <2>1, <3>1, ActivatedStays DEF Records, ActiveIsLogged
    <3> QED BY Zenon, <2>1, <3>1, <3>2 DEF Activated, Activatable, EventsOf
  <2>2. CASE activation'[s] # activation[s]
    <3>1. PICK o \in Operators : Commit(o)
      BY <2>2, Zenon DEF PolicyNext, StoreBundle, BeginActivation, MoveActive, LogActivation, Rollback,
                         LoadActiveBundle, RecordDecision
    <3>2. PICK x \in Activation : x = tx[o]
      BY Zenon, <1>0, <3>1 DEF Commit, PolicyTypeOK
    <3>3. s = x.scope /\ activation'[s] = x.bundle
      BY Zenon, <1>0, <2>2, <3>1, <3>2 DEF Commit, PolicyTypeOK, Activation
    <3>4. x.bundle \in Bundles /\ Activatable(x.bundle, s)
      BY Zenon, <1>0, <3>1, <3>2, <3>3 DEF Commit, Records, Chosen, Activation
    <3>5. Activatable(x.bundle, s)'
      BY Zenon, <1>0, <3>4, ActivatedStays
    <3>6. \E v \in EventsOf(s)' : v.bundle = x.bundle
      <4>1. PICK v : v = [sequence |-> x.number, scope |-> x.scope, bundle |-> x.bundle]
        BY Zenon
      <4>2. v \in events' /\ v.scope = s /\ v.bundle = x.bundle
        BY Zenon, <3>1, <3>2, <3>3, <4>1 DEF Commit
      <4> QED BY <4>2, Zenon DEF EventsOf
    <3> QED BY Zenon, <3>3, <3>5, <3>6 DEF Activated, Activatable
  <2> QED BY Zenon, <2>1, <2>2
<1>3. ASSUME NEW e \in Engines, engine'[e] # Nothing
      PROVE  /\ Activated(engine[e].bundle, engine[e].scope)'
             /\ engine'[e].rules = bundles'[engine'[e].bundle].rules
  <2>1. CASE engine'[e] = engine[e]
    <3>1. PICK b \in Bundles, s \in Scopes : b = engine[e].bundle /\ s = engine[e].scope
      BY Zenon, <1>0, <1>3, <2>1 DEF PolicyTypeOK, Evaluation
    <3>2. Activated(b, s) /\ engine[e].rules = bundles[b].rules
      BY Zenon, <1>0, <1>3, <2>1, <3>1 DEF Records, Loaded
    <3>3. Activated(b, s)' /\ bundles'[b] = bundles[b]
      BY Zenon, <1>0, <3>2, ActivatedStays DEF Activated
    <3> QED BY Zenon, <2>1, <3>1, <3>2, <3>3 DEF Activated, Activatable, EventsOf
  <2>2. CASE engine'[e] # engine[e]
    <3>1. LoadActiveBundle(e)
      <4>1. PICK f \in Engines : LoadActiveBundle(f) \/ RecordDecision(f)
        BY <2>2, Zenon DEF PolicyNext, StoreBundle, BeginActivation, MoveActive, LogActivation, Commit,
                           Rollback
      <4>2. ~RecordDecision(f) /\ f = e
        BY Zenon, <1>0, <1>3, <2>2, <4>1 DEF RecordDecision, LoadActiveBundle, PolicyTypeOK
      <4> QED BY Zenon, <4>1, <4>2
    <3>2. PICK s \in Scopes, r \in Recipes :
            /\ activation[s] # Nothing
            /\ engine' = [engine EXCEPT ![e] = [scope |-> s, recipe |-> r, bundle |-> activation[s],
                                                rules |-> bundles[activation[s]].rules]]
      BY <3>1, Zenon DEF LoadActiveBundle
    <3>3. PICK b \in Bundles : b = activation[s]
      BY Zenon, <1>0, <3>2 DEF PolicyTypeOK
    <3>4. Activated(b, s)' /\ bundles' = bundles
      BY Zenon, <1>0, <3>1, <3>2, <3>3, ActivatedStays DEF LoadActiveBundle, Records, ActiveIsLogged
    <3>5. engine'[e].scope = s /\ engine'[e].bundle = b /\ engine'[e].rules = bundles[b].rules
      BY Zenon, <1>0, <3>2, <3>3 DEF PolicyTypeOK
    <3> QED BY Zenon, <3>4, <3>5 DEF Activated, Activatable, EventsOf
  <2> QED BY Zenon, <2>1, <2>2
<1>4. ASSUME NEW d \in decisions' PROVE Reproducible(d)'
  <2>1. CASE d \in decisions
    <3>1. Reproducible(d) /\ d \in Decision
      BY Zenon, <1>0, <2>1 DEF Records, DecisionIsReproducible
    <3> QED BY Zenon, <1>0, <3>1, ReproducibleStays
  <2>2. CASE d \notin decisions
    <3>1. PICK e \in Engines : RecordDecision(e)
      BY <2>2, Zenon DEF PolicyNext, StoreBundle, BeginActivation, MoveActive, LogActivation, Commit,
                         Rollback, LoadActiveBundle
    <3>2. d \in Decision /\ Reproducible(d)
      BY Zenon, <2>2, <3>1, NewDecision DEF RecordDecision
    <3> QED BY Zenon, <1>0, <3>2, ReproducibleStays
  <2> QED BY Zenon, <2>1, <2>2
<1>5. Chosen' /\ ActiveIsLogged'
  BY Zenon, <1>1, <1>2 DEF Chosen, ActiveIsLogged
<1>6. Loaded' /\ DecisionIsReproducible'
  BY Zenon, <1>3, <1>4 DEF Loaded, DecisionIsReproducible
<1> QED BY Zenon, <1>5, <1>6 DEF Records

-----------------------------------------------------------------------------
(* Theorems *)

\* The invariant holds at the start and is preserved by every step.
THEOREM PolicyInvariant == PolicySpec => []PolicyInv
<1>1. PolicyInit => PolicyInv
  <2> SUFFICES ASSUME PolicyInit PROVE PolicyInv
    BY Zenon
  <2>1. Types
    BY Zenon, FS_EmptySet DEF PolicyInit, Types, PolicyTypeOK
  <2>2. Trail
    BY Zenon DEF PolicyInit, Trail, Numbered, Locked, Holds, Newest, TrailEndsInActive, EventsOf
  <2>3. Records
    BY Zenon DEF PolicyInit, Records, Chosen, ActiveIsLogged, Loaded, DecisionIsReproducible
  <2> QED BY Zenon, <2>1, <2>2, <2>3 DEF PolicyInv
<1>2. PolicyInv /\ [PolicyNext]_policyVars => PolicyInv'
  <2>1. PolicyInv /\ UNCHANGED policyVars => Records'
    BY DEF PolicyInv, Records, Chosen, ActiveIsLogged, Loaded, DecisionIsReproducible, policyVars,
           Activated, Activatable, Reproducible, EventsOf
  <2> QED BY Zenon, <2>1, TypeStep, TrailStep, RecordsStep DEF PolicyInv
<1> QED BY <1>1, <1>2, PTL DEF PolicySpec

\* The audit trail ends in the active bundle of every scope, for any number of
\* operators that activate at the same time (ActivateBundle).
THEOREM TrailTellsActive == PolicySpec => []TrailEndsInActive
<1>1. PolicyInv => TrailEndsInActive
  BY Zenon DEF PolicyInv, Trail
<1> QED BY <1>1, PolicyInvariant, PTL

\* Every decision can be reproduced from its record, for all rule lists and however
\* evaluations and activations interleave (Engine.Evaluate).
THEOREM DecisionsReproduce == PolicySpec => []DecisionIsReproducible
<1>1. PolicyInv => DecisionIsReproducible
  BY Zenon DEF PolicyInv, Records
<1> QED BY <1>1, PolicyInvariant, PTL

\* Events and decisions are only ever added, and a stored bundle is never replaced.
THEOREM RecordsAreKept ==
  PolicySpec => [][/\ events \subseteq events' /\ decisions \subseteq decisions'
             /\ \A b \in Bundles : bundles[b] # Nothing => bundles'[b] = bundles[b]]_policyVars
<1>1. PolicyInv /\ [PolicyNext]_policyVars =>
        [/\ events \subseteq events' /\ decisions \subseteq decisions'
         /\ \A b \in Bundles : bundles[b] # Nothing => bundles'[b] = bundles[b]]_policyVars
  <2> SUFFICES ASSUME PolicyInv, PolicyNext
      PROVE  /\ events \subseteq events' /\ decisions \subseteq decisions'
             /\ \A b \in Bundles : bundles[b] # Nothing => bundles'[b] = bundles[b]
    BY Zenon DEF policyVars
  <2>1. events \subseteq events' /\ decisions \subseteq decisions'
    BY Zenon DEF PolicyNext, StoreBundle, BeginActivation, MoveActive, LogActivation, Commit, Rollback,
           LoadActiveBundle, RecordDecision
  <2>2. ASSUME NEW b \in Bundles, bundles[b] # Nothing PROVE bundles'[b] = bundles[b]
    <3>1. PolicyTypeOK /\ bundles[b].scope \in Scopes
      BY Zenon, <2>2 DEF PolicyInv, Types, PolicyTypeOK, Bundle
    <3>2. Activatable(b, bundles[b].scope)
      BY Zenon, <2>2 DEF Activatable
    <3> QED BY Zenon, <3>1, <3>2, ActivatedStays
  <2> QED BY Zenon, <2>1, <2>2
<1> QED BY <1>1, PolicyInvariant, PTL DEF PolicySpec

-----------------------------------------------------------------------------
(* Approval grants: the inductive invariant *)

\* A use refers to a grant that exists, and a snapshot holds only committed uses.
ReferencesHold ==
  /\ IsFiniteSet(uses)
  /\ \A u \in uses : grants[u.grant] # Absent
  /\ \A c \in Clients : consuming[c] # Absent => consuming[c].uses \subseteq uses

ApprovalInv == ApprovalTypeOK /\ ReferencesHold /\ UsesAreCounted /\ GrantedIsRecorded

-----------------------------------------------------------------------------
(* Consume *)

\* What a fresh consumption adds: one row under a free key, and one to the counter
\* of the row of the snapshot, which is the current one.
Fresh(x) ==
  LET r == x.request IN
  /\ Usable(x) /\ KeyIsFree(r)
  /\ grants' = [grants EXCEPT ![r.grant] =
       [x.grant EXCEPT !.used = @ + 1, !.version = @ + 1]]
  /\ uses' = uses \cup {[id |-> r.id, grant |-> r.grant, task |-> r.task,
                         version |-> x.grant.version + 1]}

\* A fresh consumption keeps the types of both tables.
LEMMA FreshTypes ==
  ASSUME ApprovalInv, NEW x \in Snapshot, Serialised(x), Fresh(x)
  PROVE  /\ grants' \in [Grants -> Grant \cup {Absent}]
         /\ uses' \in SUBSET Use
         /\ grants'[x.request.grant] \in Grant
<1> DEFINE r == x.request
           new == [x.grant EXCEPT !.used = @ + 1, !.version = @ + 1]
<1>1. r \in Request /\ r.grant \in Grants /\ x.grant \in Grant
  BY Zenon DEF Snapshot, Request
<1>2. new \in Grant
  <2> DEFINE g == x.grant
  <2>1. g \in Grant /\ g.used + 1 \in Nat /\ g.version + 1 \in Nat
    BY <1>1 DEF Grant
  <2> HIDE DEF g
  <2>2. [g EXCEPT !.used = @ + 1, !.version = @ + 1] \in Grant
    BY Zenon, <2>1 DEF Grant
  <2> QED
    BY Zenon, <2>2 DEF g
<1>3. [id |-> r.id, grant |-> r.grant, task |-> r.task, version |-> x.grant.version + 1] \in Use
  BY <1>1 DEF Request, Use, Grant
<1> QED
  BY Zenon, <1>1, <1>2, <1>3 DEF Fresh, ApprovalInv, ApprovalTypeOK

\* A fresh consumption keeps every counter equal to the number of recorded uses.
LEMMA FreshIsCounted ==
  ASSUME ApprovalInv, NEW x \in Snapshot, Serialised(x), Fresh(x)
  PROVE  UsesAreCounted' /\ IsFiniteSet(uses')
<1> DEFINE r == x.request
           n == [id |-> r.id, grant |-> r.grant, task |-> r.task, version |-> x.grant.version + 1]
<1>1. r \in Request /\ r.grant \in Grants /\ x.grant \in Grant
  BY Zenon DEF Snapshot, Request
<1>2. grants[r.grant] = x.grant /\ grants[r.grant] # Absent
  BY Zenon, <1>1, AbsentAssumption DEF Serialised
<1>3. n \notin uses /\ uses' = uses \cup {n} /\ n.grant = r.grant
  BY Zenon DEF Fresh, KeyIsFree
<1>4. IsFiniteSet(uses) /\ IsFiniteSet(uses')
  BY Zenon, <1>3, FS_AddElement DEF ApprovalInv, ReferencesHold
<1>5. ASSUME NEW g \in Grants, grants'[g] # Absent
      PROVE  /\ Cardinality(UsesOf(g)') = grants'[g].used
             /\ grants'[g].used <= grants'[g].max
             /\ grants'[g].version = grants'[g].used + 1
  <2>1. CASE g = r.grant
    <3>1. UsesOf(g)' = UsesOf(g) \cup {n} /\ n \notin UsesOf(g)
      BY Zenon, <1>3, <2>1 DEF UsesOf
    <3>2. IsFiniteSet(UsesOf(g))
      BY Zenon, <1>4, FS_Subset DEF UsesOf
    <3>3. Cardinality(UsesOf(g)') = Cardinality(UsesOf(g)) + 1
      BY Zenon, <3>1, <3>2, FS_AddElement
    <3>4. Cardinality(UsesOf(g)) = x.grant.used /\ x.grant.version = x.grant.used + 1
      BY Zenon, <1>2, <2>1 DEF ApprovalInv, UsesAreCounted
    <3>5. grants'[g] = [x.grant EXCEPT !.used = @ + 1, !.version = @ + 1]
      BY Zenon, <1>1, <2>1 DEF Fresh, ApprovalInv, ApprovalTypeOK
    <3>6. /\ grants'[g].used = x.grant.used + 1 /\ grants'[g].max = x.grant.max
          /\ grants'[g].version = x.grant.version + 1
          /\ x.grant.used \in Nat /\ x.grant.max \in Nat /\ x.grant.version \in Nat
      BY Zenon, <1>1, <3>5 DEF Grant
    <3>7. x.grant.used < x.grant.max
      BY Zenon DEF Fresh, Usable
    <3> QED
      BY <3>3, <3>4, <3>6, <3>7
  <2>2. CASE g # r.grant
    <3>1. UsesOf(g)' = UsesOf(g)
      BY Zenon, <1>3, <2>2 DEF UsesOf
    <3>2. grants'[g] = grants[g]
      BY Zenon, <2>2 DEF Fresh, ApprovalInv, ApprovalTypeOK
    <3> QED
      BY Zenon, <1>5, <3>1, <3>2 DEF ApprovalInv, UsesAreCounted
  <2> QED
    BY Zenon, <2>1, <2>2
<1> QED
  BY Zenon, <1>4, <1>5 DEF UsesAreCounted

-----------------------------------------------------------------------------
(* Steps *)

\* The initial tables are empty.
LEMMA ApprovalInitHolds == ApprovalInit => ApprovalInv
<1> SUFFICES ASSUME ApprovalInit PROVE ApprovalInv
  BY Zenon
<1>1. ApprovalTypeOK
  BY Zenon DEF ApprovalInit, ApprovalTypeOK
<1>2. ReferencesHold
  BY Zenon, FS_EmptySet DEF ApprovalInit, ReferencesHold
<1>3. UsesAreCounted /\ GrantedIsRecorded
  BY Zenon DEF ApprovalInit, UsesAreCounted, GrantedIsRecorded
<1> QED
  BY Zenon, <1>1, <1>2, <1>3 DEF ApprovalInv

\* Creating a grant adds a row without uses.
LEMMA CreateHolds ==
  ASSUME ApprovalInv, NEW g \in Grants, Create(g)
  PROVE  ApprovalInv'
<1>1. PICK b \in Bindings, m \in Limits, e \in 1..MaxClock :
        grants' = [grants EXCEPT ![g] =
          [binding |-> b, max |-> m, used |-> 0, version |-> 1, expires |-> e]]
  BY Zenon DEF Create
<1> DEFINE new == [binding |-> b, max |-> m, used |-> 0, version |-> 1, expires |-> e]
<1>2. new \in Grant /\ new.used = 0 /\ new.version = 1 /\ new.max = m /\ m \in Nat
  BY ApprovalAssumption DEF Grant
<1>3. grants[g] = Absent /\ UNCHANGED <<clock, uses, consuming, told>>
  BY Zenon DEF Create
<1>4. grants'[g] = new /\ \A h \in Grants \ {g} : grants'[h] = grants[h]
  BY Zenon, <1>1 DEF ApprovalInv, ApprovalTypeOK
<1>5. ApprovalTypeOK'
  BY Zenon, <1>1, <1>2, <1>3 DEF ApprovalInv, ApprovalTypeOK
<1>6. ReferencesHold'
  <2>1. \A u \in uses : u.grant \in Grants
    BY Zenon DEF ApprovalInv, ApprovalTypeOK, Use
  <2> QED
    BY Zenon, <1>2, <1>3, <1>4, <2>1, AbsentAssumption DEF ApprovalInv, ReferencesHold
<1>7. UsesAreCounted'
  <2>1. \A h \in Grants : UsesOf(h)' = UsesOf(h)
    BY Zenon, <1>3 DEF UsesOf
  <2>2. UsesOf(g) = {}
    BY Zenon, <1>3 DEF ApprovalInv, ReferencesHold, UsesOf
  <2>3. Cardinality(UsesOf(g)) = 0
    BY Zenon, <2>2, FS_EmptySet
  <2> QED
    BY <1>2, <1>4, <2>1, <2>3 DEF ApprovalInv, UsesAreCounted
<1>8. GrantedIsRecorded'
  BY Zenon, <1>3 DEF ApprovalInv, GrantedIsRecorded
<1> QED
  BY Zenon, <1>5, <1>6, <1>7, <1>8 DEF ApprovalInv

\* Steps that change neither table nor what callers know keep the invariant if
\* the snapshots of open transactions stay sound.
LEMMA TablesUnchanged ==
  ASSUME ApprovalInv, UNCHANGED <<grants, uses, told>>, clock' \in Nat,
         consuming' \in [Clients -> Snapshot \cup {Absent}],
         \A c \in Clients : consuming'[c] # Absent => consuming'[c].uses \subseteq uses
  PROVE  ApprovalInv'
<1>1. ApprovalTypeOK' /\ ReferencesHold'
  BY Zenon DEF ApprovalInv, ApprovalTypeOK, ReferencesHold
<1>2. UsesAreCounted' /\ GrantedIsRecorded'
  BY Zenon DEF ApprovalInv, UsesAreCounted, GrantedIsRecorded, UsesOf
<1> QED
  BY Zenon, <1>1, <1>2 DEF ApprovalInv

\* A consumption ends its transaction and is either a repetition of a recorded use
\* or a fresh one.
LEMMA ConsumeHolds ==
  ASSUME ApprovalInv, NEW c \in Clients, Consume(c)
  PROVE  ApprovalInv'
<1> DEFINE x == consuming[c]
           r == x.request
<1>1. /\ x \in Snapshot /\ Serialised(x)
      /\ UNCHANGED clock /\ consuming' = [consuming EXCEPT ![c] = Absent]
  BY Zenon DEF Consume, ApprovalInv, ApprovalTypeOK
<1>2. r \in Request
  BY Zenon, <1>1 DEF Snapshot
<1>3. told' \subseteq told \cup {r}
  BY Zenon DEF Consume, Answer
<1>4. consuming' \in [Clients -> Snapshot \cup {Absent}] /\ clock' \in Nat /\ told' \in SUBSET Request
  BY Zenon, <1>1, <1>2, <1>3 DEF ApprovalInv, ApprovalTypeOK
<1>5. uses \subseteq uses' =>
        \A d \in Clients : consuming'[d] # Absent => consuming'[d].uses \subseteq uses'
  <2> SUFFICES ASSUME uses \subseteq uses', NEW d \in Clients, consuming'[d] # Absent
               PROVE  consuming'[d].uses \subseteq uses'
    BY Zenon
  <2>1. d # c /\ consuming'[d] = consuming[d]
    BY Zenon, <1>1 DEF ApprovalInv, ApprovalTypeOK
  <2> QED
    BY Zenon, <2>1 DEF ApprovalInv, ReferencesHold
<1>6. CASE Idempotent(x) /\ UNCHANGED <<grants, uses>>
  <2>1. \E u \in uses : u.id = r.id /\ u.grant = r.grant /\ u.task = r.task
    BY Zenon, <1>1, <1>6 DEF Idempotent, Existing, SameUse, ApprovalInv, ReferencesHold, Consume
  <2>2. ApprovalTypeOK' /\ ReferencesHold'
    BY Zenon, <1>4, <1>5, <1>6 DEF ApprovalInv, ApprovalTypeOK, ReferencesHold
  <2>3. UsesAreCounted'
    BY Zenon, <1>6 DEF ApprovalInv, UsesAreCounted, UsesOf
  <2>4. GrantedIsRecorded'
    BY Zenon, <1>3, <1>6, <2>1 DEF ApprovalInv, GrantedIsRecorded
  <2> QED
    BY Zenon, <2>2, <2>3, <2>4 DEF ApprovalInv
<1>7. CASE Fresh(x)
  <2> DEFINE n == [id |-> r.id, grant |-> r.grant, task |-> r.task, version |-> x.grant.version + 1]
  <2>1. uses' = uses \cup {n} /\ n.id = r.id /\ n.grant = r.grant /\ n.task = r.task
    BY Zenon, <1>7 DEF Fresh
  <2>2. ApprovalTypeOK'
    BY Zenon, <1>1, <1>4, <1>7, FreshTypes DEF ApprovalTypeOK
  <2>3. UsesAreCounted' /\ IsFiniteSet(uses')
    BY Zenon, <1>1, <1>7, FreshIsCounted
  <2>4. \A u \in uses' : grants'[u.grant] # Absent
    <3>1. grants'[r.grant] # Absent
      BY Zenon, <1>1, <1>7, FreshTypes, AbsentAssumption
    <3>2. \A g \in Grants : g # r.grant => grants'[g] = grants[g]
      BY Zenon, <1>7 DEF Fresh, ApprovalInv, ApprovalTypeOK
    <3>3. \A u \in uses : u.grant \in Grants /\ grants[u.grant] # Absent
      BY Zenon DEF ApprovalInv, ApprovalTypeOK, Use, ReferencesHold
    <3> QED
      BY Zenon, <2>1, <3>1, <3>2, <3>3
  <2>5. ReferencesHold'
    BY Zenon, <1>5, <2>1, <2>3, <2>4 DEF ReferencesHold
  <2>6. GrantedIsRecorded'
    <3>1. \A u \in uses : u.id # r.id /\ ~(u.grant = r.grant /\ u.task = r.task)
      BY Zenon, <1>7 DEF Fresh, KeyIsFree
    <3>2. \A q \in told' : \E u \in uses' : u.id = q.id /\ u.grant = q.grant /\ u.task = q.task
      BY Zenon, <1>3, <2>1 DEF ApprovalInv, GrantedIsRecorded
    <3>3. \A u, v \in uses' : u.id = v.id \/ (u.grant = v.grant /\ u.task = v.task) => u = v
      BY <2>1, <3>1 DEF ApprovalInv, GrantedIsRecorded
    <3> QED
      BY Zenon, <3>2, <3>3 DEF GrantedIsRecorded
  <2> QED
    BY Zenon, <2>2, <2>3, <2>5, <2>6 DEF ApprovalInv
<1> QED
  BY Zenon, <1>6, <1>7 DEF Consume, Fresh

\* Every step keeps the inductive invariant.
LEMMA ApprovalNextHolds == ApprovalInv /\ [ApprovalNext]_approvalVars => ApprovalInv'
<1> SUFFICES ASSUME ApprovalInv, [ApprovalNext]_approvalVars PROVE ApprovalInv'
  BY Zenon
<1>1. CASE Tick
  BY <1>1, TablesUnchanged DEF Tick, ApprovalInv, ApprovalTypeOK, ReferencesHold
<1>2. ASSUME NEW g \in Grants, Create(g) PROVE ApprovalInv'
  BY Zenon, <1>2, CreateHolds
<1>3. ASSUME NEW c \in Clients, BeginConsume(c) PROVE ApprovalInv'
  <2>1. PICK r \in Request :
          /\ grants[r.grant] # Absent
          /\ consuming' = [consuming EXCEPT ![c] =
               [request |-> r, now |-> clock, grant |-> grants[r.grant], uses |-> uses]]
    BY Zenon, <1>3 DEF BeginConsume
  <2> DEFINE s == [request |-> r, now |-> clock, grant |-> grants[r.grant], uses |-> uses]
  <2>2. s \in Snapshot /\ s.uses = uses
    BY Zenon, <2>1 DEF ApprovalInv, ApprovalTypeOK, Snapshot, Request
  <2>3. consuming' \in [Clients -> Snapshot \cup {Absent}]
    BY Zenon, <2>1, <2>2 DEF ApprovalInv, ApprovalTypeOK
  <2>4. \A d \in Clients : consuming'[d] # Absent => consuming'[d].uses \subseteq uses
    BY Zenon, <2>1, <2>2 DEF ApprovalInv, ApprovalTypeOK, ReferencesHold
  <2> QED
    BY Zenon, <1>3, <2>3, <2>4, TablesUnchanged DEF BeginConsume, ApprovalInv, ApprovalTypeOK
<1>4. ASSUME NEW c \in Clients, Consume(c) PROVE ApprovalInv'
  BY Zenon, <1>4, ConsumeHolds
<1>5. ASSUME NEW c \in Clients, RollbackConsume(c) PROVE ApprovalInv'
  <2>1. consuming' \in [Clients -> Snapshot \cup {Absent}]
    BY Zenon, <1>5 DEF RollbackConsume, ApprovalInv, ApprovalTypeOK
  <2>2. \A d \in Clients : consuming'[d] # Absent => consuming'[d].uses \subseteq uses
    BY Zenon, <1>5 DEF RollbackConsume, ApprovalInv, ApprovalTypeOK, ReferencesHold
  <2> QED
    BY Zenon, <1>5, <2>1, <2>2, TablesUnchanged DEF RollbackConsume, ApprovalInv, ApprovalTypeOK
<1>6. CASE UNCHANGED approvalVars
  BY Zenon, <1>6, TablesUnchanged DEF approvalVars, ApprovalInv, ApprovalTypeOK, ReferencesHold
<1> QED
  BY Zenon, <1>1, <1>2, <1>3, <1>4, <1>5, <1>6 DEF ApprovalNext

-----------------------------------------------------------------------------
(* Theorems *)

\* The inductive invariant holds in every reachable state.
LEMMA ApprovalInvariance == ApprovalSpec => []ApprovalInv
BY ApprovalInitHolds, ApprovalNextHolds, PTL DEF ApprovalSpec

\* Every variable of the approval model keeps its type.
THEOREM ApprovalTypes == ApprovalSpec => []ApprovalTypeOK
<1>1. ApprovalInv => ApprovalTypeOK
  BY Zenon DEF ApprovalInv
<1> QED
  BY ApprovalInvariance, <1>1, PTL

\* However many consumers race, retry and lose answers, the counter of a grant is
\* the number of its recorded uses and stays within its limit.
THEOREM Counted == ApprovalSpec => []UsesAreCounted
<1>1. ApprovalInv => UsesAreCounted
  BY Zenon DEF ApprovalInv
<1> QED
  BY ApprovalInvariance, <1>1, PTL

\* A caller that was told of a use has it recorded once, under its own identifier,
\* grant and task.
THEOREM Recorded == ApprovalSpec => []GrantedIsRecorded
<1>1. ApprovalInv => GrantedIsRecorded
  BY Zenon DEF ApprovalInv
<1> QED
  BY ApprovalInvariance, <1>1, PTL

-----------------------------------------------------------------------------
(* Database grants: the inductive invariant of a rollout *)

Holding == {"check", "apply", "unlock", "failing"}

\* The files of r before its version n are the first ones of the ledger.
Follows(r, n) == \A i \in 1..(n - 1) : i <= Len(ledger) /\ ledger[i] = Build[r][i]

\* A replica between lock and unlock holds the lock, and what it has checked or
\* applied so far is recorded.
InMigration(r) ==
  /\ pc[r] \in Holding => lock = r
  /\ pc[r] \in {"check", "apply", "unlock"} => Follows(r, version[r])
  /\ pc[r] = "apply" => version[r] = Len(ledger) + 1 /\ version[r] <= Len(Build[r])
  /\ pc[r] = "unlock" => version[r] = Len(Build[r]) + 1
  /\ pc[r] = "migrated" => Follows(r, Len(Build[r]) + 1)
  /\ pc[r] \in {"failing", "failed"} => r \in faults \/ Diverges(r)

MigrationInv == TypeOK /\ schema = ledger /\ \A r \in Replicas : InMigration(r)

\* What a steady replica has read is still so.
InAudit(r) ==
  r \in steady =>
    /\ audit[r] = "sequences" => seen[r] = effective \cap OfTables
    /\ audit[r] = "verified" => effective = Manifest[r]

AuditInv ==
  /\ DOMAIN audit = Replicas /\ DOMAIN seen = Replicas
  /\ \A r \in Replicas : InAudit(r)

\* Only serve has goroutines; the listener belongs to the server goroutine, and
\* once the shutdown goroutine has returned no request is left without a timeout.
ProcessInv ==
  /\ stage # "serve" => running = {}
  /\ stage = "serve" /\ ~closing => "shutdown" \in running
  /\ listening => "server" \in running /\ ~closing
  /\ "shutdown" \notin running => active = {} \/ timedOut
  /\ stage \in {"config", "database"} => database = "unopened" /\ nats = "unopened"
  /\ stage = "delivery" => nats = "unopened"
  /\ database = "released" => stage = "stopped"
  /\ nats = "released" => stage \in {"close", "stopped"}
  /\ stage = "close" => nats # "open"
  /\ stage = "stopped" => database # "open" /\ nats # "open"
  /\ stage \in {"drain", "close", "stopped"} => exit # None
  /\ exit # None => stage \in {"drain", "close", "stopped"}
  /\ firstError = None /\ signalled => cause = "signal"
  /\ firstError = "canceled" => cause = "signal"
  /\ exit = 0 => cause = "signal"

-----------------------------------------------------------------------------
(* The ledger grows *)

\* A record of the ledger stays where it is when another is appended.
LEMMA AppendKeeps ==
  ASSUME NEW e \in Contents, ledger \in Seq(Contents), ledger' = Append(ledger, e)
  PROVE  /\ Len(ledger') = Len(ledger) + 1
         /\ ledger'[Len(ledger) + 1] = e
         /\ \A i \in 1..Len(ledger) : ledger'[i] = ledger[i]
OBVIOUS

\* What a build has in common with the ledger, and where it differs, stays so.
LEMMA GrowthKeeps ==
  ASSUME TypeOK, NEW r \in Replicas, NEW n \in Nat, NEW e \in Contents,
         ledger' = Append(ledger, e)
  PROVE  /\ Follows(r, n) => Follows(r, n)'
         /\ Diverges(r) => Diverges(r)'
<1>1. ledger \in Seq(Contents) /\ Len(ledger) \in Nat
  BY DEF TypeOK
<1>2. /\ Len(ledger') = Len(ledger) + 1
      /\ \A i \in 1..Len(ledger) : ledger'[i] = ledger[i]
  BY Zenon, <1>1, AppendKeeps
<1>3. ASSUME Follows(r, n) PROVE Follows(r, n)'
  BY <1>1, <1>2, <1>3 DEF Follows
<1>4. ASSUME Diverges(r) PROVE Diverges(r)'
  <2>1. PICK i \in 1..Len(Build[r]) : i <= Len(ledger) /\ ledger[i] # Build[r][i]
    BY Zenon, <1>4 DEF Diverges
  <2>2. Len(Build[r]) \in Nat /\ i \in 1..Len(ledger)
    BY <1>1, <2>1, BuildAssumption
  <2> QED
    BY <1>1, <1>2, <2>1, <2>2 DEF Diverges
<1> QED
  BY Zenon, <1>3, <1>4

\* A step of one replica leaves the others where they are: it takes the lock of
\* nobody, and appends to the ledger only with the lock.
LEMMA OthersKeep ==
  ASSUME MigrationInv, NEW r \in Replicas, NEW q \in Replicas, q # r,
         pc'[q] = pc[q], version'[q] = version[q], q \in faults => q \in faults',
         lock = q => lock' = q,
         \/ UNCHANGED ledger
         \/ lock = r /\ \E e \in Contents : ledger' = Append(ledger, e)
  PROVE  InMigration(q)'
<1>1. InMigration(q) /\ TypeOK
  BY Zenon DEF MigrationInv
<1>2. Len(Build[q]) + 1 \in Nat
  BY BuildAssumption
<1>3. CASE UNCHANGED ledger
  BY Zenon, <1>1, <1>3 DEF InMigration, Follows, Diverges
<1>4. CASE lock = r /\ \E e \in Contents : ledger' = Append(ledger, e)
  <2>1. pc[q] \notin Holding
    BY Zenon, <1>1, <1>4 DEF InMigration
  <2>2. /\ Follows(q, Len(Build[q]) + 1) => Follows(q, Len(Build[q]) + 1)'
        /\ Diverges(q) => Diverges(q)'
    BY Zenon, <1>1, <1>2, <1>4, GrowthKeeps
  <2> QED
    BY Zenon, <1>1, <2>1, <2>2 DEF InMigration, Holding
<1> QED
  BY Zenon, <1>3, <1>4

-----------------------------------------------------------------------------
(* Migration *)

\* Taking the lock starts a check that has compared nothing yet.
LEMMA AcquireHolds ==
  ASSUME MigrationInv, NEW r \in Replicas, Acquire(r)
  PROVE  MigrationInv'
<1>1. /\ lock = None /\ lock' = r /\ UNCHANGED <<schema, ledger, faults>>
      /\ pc' = [pc EXCEPT ![r] = "check"] /\ version' = [version EXCEPT ![r] = 1]
  BY Zenon DEF Acquire, LockIsFree, Goto
<1>2. TypeOK'
  BY <1>1, BuildAssumption DEF MigrationInv, TypeOK, PCs
<1>3. ASSUME NEW q \in Replicas PROVE InMigration(q)'
  <2>1. CASE q = r
    <3>1. pc'[r] = "check" /\ version'[r] = 1
      BY Zenon, <1>1 DEF MigrationInv, TypeOK
    <3> QED
      BY <1>1, <2>1, <3>1 DEF InMigration, Holding, Follows
  <2>2. CASE q # r
    <3>1. pc'[q] = pc[q] /\ version'[q] = version[q] /\ lock # q
      BY Zenon, <1>1, <2>2, BuildAssumption DEF MigrationInv, TypeOK
    <3> QED
      BY Zenon, <1>1, <2>2, <3>1, OthersKeep
  <2> QED
    BY Zenon, <2>1, <2>2
<1> QED
  BY Zenon, <1>1, <1>2, <1>3 DEF MigrationInv

\* A recorded file is compared, and the next one is applied or all are done.
LEMMA CheckFileHolds ==
  ASSUME MigrationInv, NEW r \in Replicas, CheckFile(r)
  PROVE  MigrationInv'
<1> DEFINE v == version[r]
<1>1. /\ pc[r] = "check" /\ UNCHANGED <<lock, schema, ledger, faults>>
      /\ lock = r /\ Follows(r, v)
      /\ v \in 1..(Len(Build[r]) + 1) /\ v \in Nat /\ Len(ledger) \in Nat /\ Len(Build[r]) \in Nat
  BY BuildAssumption DEF CheckFile, MigrationInv, InMigration, Holding, TypeOK
<1>2. \/ v > Len(Build[r]) /\ pc' = [pc EXCEPT ![r] = "unlock"] /\ UNCHANGED version
      \/ /\ v <= Len(Build[r]) /\ v <= Len(ledger) /\ Agrees(r)
         /\ version' = [version EXCEPT ![r] = v + 1] /\ UNCHANGED pc
      \/ /\ v <= Len(Build[r]) /\ v <= Len(ledger) /\ ~Agrees(r)
         /\ pc' = [pc EXCEPT ![r] = "failing"] /\ UNCHANGED version
      \/ /\ v <= Len(Build[r]) /\ v > Len(ledger)
         /\ pc' = [pc EXCEPT ![r] = "apply"] /\ UNCHANGED version
  BY Zenon DEF CheckFile, Goto
<1>3. TypeOK'
  <2>1. pc' \in [Replicas -> PCs]
    BY Zenon, <1>2 DEF MigrationInv, TypeOK, PCs
  <2>2. version' \in [Replicas -> Nat] /\ version'[r] \in 1..(Len(Build[r]) + 1)
    BY <1>1, <1>2 DEF MigrationInv, TypeOK
  <2>3. \A q \in Replicas \ {r} : version'[q] = version[q]
    BY Zenon, <1>2 DEF MigrationInv, TypeOK
  <2> QED
    BY Zenon, <1>1, <2>1, <2>2, <2>3 DEF MigrationInv, TypeOK
<1>4. pc'[r] \in Holding => lock' = r
  BY Zenon, <1>1
<1>5. InMigration(r)'
  <2>1. CASE v > Len(Build[r]) /\ pc' = [pc EXCEPT ![r] = "unlock"] /\ UNCHANGED version
    <3>1. pc'[r] = "unlock" /\ version'[r] = Len(Build[r]) + 1 /\ Follows(r, version[r])'
      BY <1>1, <2>1 DEF MigrationInv, TypeOK, Follows
    <3> QED
      BY Zenon, <1>4, <3>1 DEF InMigration
  <2>2. CASE /\ v <= Len(Build[r]) /\ v <= Len(ledger) /\ Agrees(r)
             /\ version' = [version EXCEPT ![r] = v + 1] /\ UNCHANGED pc
    <3>1. pc'[r] = "check" /\ version'[r] = v + 1
      BY Zenon, <1>1, <2>2 DEF MigrationInv, TypeOK
    <3>2. Follows(r, version[r])'
      <4>1. v <= Len(ledger) /\ ledger[v] = Build[r][v]
        BY Zenon, <2>2 DEF Agrees
      <4>2. \A i \in 1..v : i \in 1..(v - 1) \/ i = v
        BY <1>1
      <4>3. \A i \in 1..v : i <= Len(ledger) /\ ledger[i] = Build[r][i]
        BY Zenon, <1>1, <4>1, <4>2 DEF Follows
      <4>4. version'[r] - 1 = v
        BY <1>1, <3>1
      <4>5. ledger' = ledger
        BY Zenon, <1>1
      <4> QED
        BY Zenon, <4>3, <4>4, <4>5 DEF Follows
    <3> QED
      BY Zenon, <1>4, <3>1, <3>2 DEF InMigration
  <2>3. CASE /\ v <= Len(Build[r]) /\ v <= Len(ledger) /\ ~Agrees(r)
             /\ pc' = [pc EXCEPT ![r] = "failing"] /\ UNCHANGED version
    <3>1. pc'[r] = "failing"
      BY Zenon, <2>3 DEF MigrationInv, TypeOK
    <3>2. Diverges(r)'
      BY <1>1, <2>3 DEF Diverges, Agrees
    <3> QED
      BY Zenon, <1>4, <3>1, <3>2 DEF InMigration
  <2>4. CASE /\ v <= Len(Build[r]) /\ v > Len(ledger)
             /\ pc' = [pc EXCEPT ![r] = "apply"] /\ UNCHANGED version
    <3>1. pc'[r] = "apply" /\ version'[r] = v /\ Follows(r, version[r])'
      BY Zenon, <1>1, <2>4 DEF MigrationInv, TypeOK, Follows
    <3>2. v = Len(ledger') + 1
      <4>1. v - 1 <= Len(ledger)
        BY <1>1 DEF Follows
      <4> QED
        BY <1>1, <2>4, <4>1
    <3> QED
      BY Zenon, <1>4, <2>4, <3>1, <3>2 DEF InMigration
  <2> QED
    BY Zenon, <1>2, <2>1, <2>2, <2>3, <2>4
<1>6. ASSUME NEW q \in Replicas, q # r PROVE InMigration(q)'
  <2>1. pc'[q] = pc[q] /\ version'[q] = version[q]
    BY Zenon, <1>2, <1>6 DEF MigrationInv, TypeOK
  <2> QED
    BY Zenon, <1>1, <1>6, <2>1, OthersKeep
<1> QED
  BY Zenon, <1>1, <1>3, <1>5, <1>6 DEF MigrationInv

\* A transaction appends the next file to schema and ledger, or fails as a whole.
LEMMA ApplyFileHolds ==
  ASSUME MigrationInv, NEW r \in Replicas, ApplyFile(r)
  PROVE  MigrationInv'
<1> DEFINE v == version[r]
           e == Build[r][v]
<1>1. /\ pc[r] = "apply" /\ UNCHANGED <<lock, version>> /\ lock = r
      /\ Follows(r, v) /\ v = Len(ledger) + 1 /\ v <= Len(Build[r])
      /\ v \in Nat /\ v \in 1..(Len(Build[r]) + 1) /\ Len(ledger) \in Nat
  BY DEF ApplyFile, MigrationInv, InMigration, Holding, TypeOK
<1>2. Build[r] \in Seq(Contents) /\ Len(Build[r]) \in Nat /\ e \in Contents
  BY <1>1, BuildAssumption
<1>3. ASSUME NEW q \in Replicas, q # r, pc'[q] = pc[q], faults \subseteq faults',
             UNCHANGED ledger \/ ledger' = Append(ledger, e)
      PROVE  InMigration(q)'
  <2>1. version'[q] = version[q]
    BY Zenon, <1>1
  <2> QED
    BY Zenon, <1>1, <1>2, <1>3, <2>1, OthersKeep
<1>4. CASE /\ schema' = Append(schema, e) /\ ledger' = Append(ledger, e)
           /\ pc' = [pc EXCEPT ![r] = "check"] /\ UNCHANGED faults
  <2>1. TypeOK' /\ schema' = ledger'
    BY <1>1, <1>2, <1>4 DEF MigrationInv, TypeOK, PCs
  <2>2. pc'[r] = "check" /\ \A q \in Replicas \ {r} : pc'[q] = pc[q]
    BY Zenon, <1>4 DEF MigrationInv, TypeOK
  <2>3. InMigration(r)'
    <3>1. Follows(r, v)'
      BY Zenon, <1>1, <1>2, <1>4, GrowthKeeps DEF MigrationInv
    <3> QED
      BY Zenon, <1>1, <2>2, <3>1 DEF InMigration
  <2> QED
    BY Zenon, <1>3, <1>4, <2>1, <2>2, <2>3 DEF MigrationInv
<1>5. CASE /\ pc' = [pc EXCEPT ![r] = "failing"] /\ UNCHANGED <<schema, ledger>>
           /\ faults' = IF v <= Len(ledger) THEN faults ELSE faults \cup {r}
  <2>1. faults' = faults \cup {r}
    BY <1>1, <1>5
  <2>2. TypeOK' /\ schema' = ledger'
    BY Zenon, <1>1, <1>5, <2>1 DEF MigrationInv, TypeOK, PCs
  <2>3. pc'[r] = "failing" /\ \A q \in Replicas \ {r} : pc'[q] = pc[q]
    BY Zenon, <1>5 DEF MigrationInv, TypeOK
  <2>4. InMigration(r)'
    BY Zenon, <1>1, <2>1, <2>3 DEF InMigration
  <2> QED
    BY Zenon, <1>3, <1>5, <2>1, <2>2, <2>3, <2>4 DEF MigrationInv
<1> QED
  BY Zenon, <1>4, <1>5 DEF ApplyFile, Goto

\* A return gives up the lock, if it was held, with the verdict reached before.
LEMMA ReturnHolds ==
  ASSUME MigrationInv, NEW r \in Replicas, NEW p \in {"migrated", "failed"}, Return(r, p),
         UNCHANGED <<schema, ledger>>, lock' = None \/ lock' = lock,
         \A q \in Replicas : lock = q /\ q # r => lock' = q,
         faults' \in SUBSET Replicas, faults \subseteq faults',
         p = "migrated" => Follows(r, Len(Build[r]) + 1),
         p = "failed" => r \in faults' \/ Diverges(r)
  PROVE  MigrationInv'
<1>1. pc' = [pc EXCEPT ![r] = p] /\ version' = [version EXCEPT ![r] = 1]
  BY Zenon DEF Return, Goto
<1>2. TypeOK'
  BY <1>1, BuildAssumption DEF MigrationInv, TypeOK, PCs
<1>3. InMigration(r)'
  <2>1. pc'[r] = p
    BY Zenon, <1>1 DEF MigrationInv, TypeOK
  <2> QED
    BY Zenon, <2>1 DEF InMigration, Holding, Follows, Diverges
<1>4. ASSUME NEW q \in Replicas, q # r PROVE InMigration(q)'
  <2>1. pc'[q] = pc[q] /\ version'[q] = version[q]
    BY Zenon, <1>1, <1>4 DEF MigrationInv, TypeOK
  <2> QED
    BY Zenon, <1>4, <2>1, OthersKeep
<1> QED
  BY Zenon, <1>2, <1>3, <1>4 DEF MigrationInv

\* Every step of Apply, and the loss of its session, keeps the invariant.
LEMMA MigrateHolds ==
  ASSUME MigrationInv, NEW r \in Replicas, Step(r) \/ SessionLost(r)
  PROVE  MigrationInv'
<1>1. TypeOK /\ InMigration(r)
  BY Zenon DEF MigrationInv
<1>2. CASE Unlock(r)
  <2>1. CASE pc[r] = "unlock"
    BY Zenon, <1>1, <1>2, <2>1, ReturnHolds DEF Unlock, InMigration, Holding, TypeOK
  <2>2. CASE pc[r] = "failing"
    BY Zenon, <1>1, <1>2, <2>2, ReturnHolds DEF Unlock, InMigration, Holding, TypeOK
  <2> QED
    BY Zenon, <1>2, <2>1, <2>2 DEF Unlock
<1>3. CASE SessionLost(r)
  BY Zenon, <1>1, <1>3, ReturnHolds DEF SessionLost, TypeOK
<1> QED
  BY Zenon, <1>2, <1>3, AcquireHolds, CheckFileHolds, ApplyFileHolds DEF Step

\* A replica that is started again waits for the lock and holds nothing.
LEMMA BeginHolds ==
  ASSUME MigrationInv, NEW r \in Replicas, Begin(r)
  PROVE  MigrationInv'
<1>1. /\ pc' = [pc EXCEPT ![r] = "start"] /\ faults' = faults \ {r}
      /\ UNCHANGED <<lock, schema, ledger, version>>
  BY Zenon DEF Begin, Goto
<1>2. TypeOK'
  BY Zenon, <1>1 DEF MigrationInv, TypeOK, PCs
<1>3. InMigration(r)'
  <2>1. pc'[r] = "start"
    BY Zenon, <1>1 DEF MigrationInv, TypeOK
  <2> QED
    BY Zenon, <2>1 DEF InMigration, Holding
<1>4. ASSUME NEW q \in Replicas, q # r PROVE InMigration(q)'
  <2>1. pc'[q] = pc[q]
    BY Zenon, <1>1, <1>4 DEF MigrationInv, TypeOK
  <2> QED
    BY Zenon, <1>1, <1>4, <2>1, OthersKeep
<1> QED
  BY Zenon, <1>1, <1>2, <1>3, <1>4 DEF MigrationInv

-----------------------------------------------------------------------------
(* Audit *)

\* A verdict on what is still so is exact.
LEMMA ExactVerdict ==
  ASSUME NEW r \in Replicas, seen[r] = effective \cap OfTables, VerifyControlPlane(r)
  PROVE  effective = Manifest[r]
BY Zenon DEF VerifyControlPlane, ValidateObjectGrants

\* Every step keeps what steady replicas have read and concluded.
LEMMA AuditHolds ==
  ASSUME AuditInv, RolloutNext
  PROVE  AuditInv'
<1>1. CASE ChangeGrant
  BY Zenon, <1>1 DEF ChangeGrant, AuditInv, InAudit
<1>2. CASE OpenFails \/ RunSelf
  BY Zenon, <1>2 DEF OpenFails, RunSelf, authority, AuditInv, InAudit
<1>3. ASSUME NEW r \in Replicas, Migrate(r) \/ LoseSession(r) PROVE AuditInv'
  BY Zenon, <1>3 DEF Migrate, LoseSession, authority, AuditInv, InAudit
<1>4. ASSUME NEW r \in Replicas, OpenRuntime(r) PROVE AuditInv'
  BY Zenon, <1>4 DEF OpenRuntime, AuditInv, InAudit
<1>5. ASSUME NEW r \in Replicas, InspectTableGrants(r) PROVE AuditInv'
  BY Zenon, <1>5 DEF InspectTableGrants, AuditInv, InAudit
<1>6. ASSUME NEW r \in Replicas, InspectSequenceGrants(r) PROVE AuditInv'
  <2>1. /\ audit[r] = "sequences" /\ UNCHANGED effective /\ steady' \subseteq steady
        /\ DOMAIN audit' = Replicas /\ DOMAIN seen' = Replicas
        /\ \A q \in Replicas \ {r} : audit'[q] = audit[q] /\ seen'[q] = seen[q]
        /\ audit'[r] # "sequences"
        /\ audit'[r] = "verified" => VerifyControlPlane(r)
    BY Zenon, <1>6 DEF InspectSequenceGrants, AuditInv
  <2>2. r \in steady' /\ audit'[r] = "verified" => effective = Manifest[r]
    BY Zenon, <2>1, ExactVerdict DEF AuditInv, InAudit
  <2> QED
    BY Zenon, <2>1, <2>2 DEF AuditInv, InAudit
<1>7. ASSUME NEW r \in Replicas, AuditFails(r) PROVE AuditInv'
  BY Zenon, <1>7 DEF AuditFails, AuditInv, InAudit
<1>8. ASSUME NEW r \in Replicas, Restart(r) PROVE AuditInv'
  BY Zenon, <1>8 DEF Restart, Begin, AuditInv, InAudit
<1> QED
  BY Zenon, <1>1, <1>2, <1>3, <1>4, <1>5, <1>6, <1>7, <1>8 DEF RolloutNext, Opens

-----------------------------------------------------------------------------
(* The process *)

\* Every step of the process keeps its invariant.
LEMMA ProcessHolds ==
  ASSUME ProcessInv, Process!Next
  PROVE  ProcessInv'
<1> USE RolloutAssumption DEF ProcessInv
<1>1. CASE Process!Signal
  BY Zenon, <1>1 DEF Process!Signal
<1>2. CASE Process!LoadConfig
  BY <1>2 DEF Process!LoadConfig
<1>3. CASE Process!OpenDatabase
  BY <1>3 DEF Process!OpenDatabase
<1>4. CASE Process!OpenDelivery
  BY <1>4 DEF Process!OpenDelivery
<1>5. CASE Process!BuildApplication
  BY <1>5 DEF Process!BuildApplication, Process!Goroutines, Process!Runners
<1>6. CASE Process!Listen
  BY Zenon, <1>6 DEF Process!Listen
<1>7. CASE Process!ListenFails
  BY <1>7 DEF Process!ListenFails, Process!Record, Process!Cancelled
<1>8. CASE Process!Accept
  BY Zenon, <1>8 DEF Process!Accept
<1>9. CASE Process!Respond
  BY Zenon, <1>9 DEF Process!Respond
<1>10. CASE Process!BeginShutdown
  BY Zenon, <1>10 DEF Process!BeginShutdown
<1>11. CASE Process!ServerReturns
  BY Zenon, <1>11 DEF Process!ServerReturns
<1>12. CASE Process!ShutdownReturns
  BY Zenon, <1>12 DEF Process!ShutdownReturns, Process!Record
<1>13. CASE Process!ServeReturns
  BY <1>13 DEF Process!ServeReturns, Process!AllReturned
<1>14. CASE Process!Drain
  BY Zenon, <1>14 DEF Process!Drain
<1>15. CASE Process!CloseDatabase
  BY Zenon, <1>15 DEF Process!CloseDatabase
<1>16. ASSUME NEW g \in Process!Runners, Process!RunnerReturns(g) PROVE ProcessInv'
  BY Zenon, <1>16 DEF Process!RunnerReturns, Process!Record, Process!Cancelled, Process!Runners
<1> QED
  BY Zenon, <1>1, <1>2, <1>3, <1>4, <1>5, <1>6, <1>7, <1>8, <1>9, <1>10, <1>11, <1>12, <1>13,
     <1>14, <1>15, <1>16 DEF Process!Next, Process!Boot, Process!Stop

-----------------------------------------------------------------------------
(* Theorems *)

RolloutInv == MigrationInv /\ AuditInv /\ ProcessInv

\* Nothing is locked, migrated, audited or running at first.
LEMMA InitHolds == RolloutInit => RolloutInv
<1> SUFFICES ASSUME RolloutInit PROVE RolloutInv
  BY Zenon
<1>1. TypeOK
  BY BuildAssumption DEF RolloutInit, Init, TypeOK, PCs
<1>2. MigrationInv
  BY Zenon, <1>1 DEF RolloutInit, Init, MigrationInv, InMigration, Holding
<1>3. AuditInv
  BY Zenon DEF RolloutInit, AuditInv, InAudit
<1>4. ProcessInv
  BY RolloutAssumption DEF RolloutInit, Process!Init, ProcessInv
<1> QED
  BY Zenon, <1>2, <1>3, <1>4 DEF RolloutInv

\* Every step is one of a migration, or leaves the migration alone or begins it
\* again; the same of the process.
LEMMA NextHolds == RolloutInv /\ [RolloutNext]_rolloutVars => RolloutInv'
<1> SUFFICES ASSUME RolloutInv, [RolloutNext]_rolloutVars PROVE RolloutInv'
  BY Zenon
<1>1. MigrationInv /\ AuditInv /\ ProcessInv
  BY Zenon DEF RolloutInv
<1>2. UNCHANGED <<lock, schema, ledger, pc, version>> /\ faults' \in SUBSET Replicas
        /\ faults \subseteq faults' => MigrationInv'
  BY <1>1 DEF MigrationInv, InMigration, TypeOK, Follows, Diverges
<1>3. UNCHANGED process => ProcessInv'
  BY <1>1 DEF process, ProcessInv
<1>4. CASE UNCHANGED rolloutVars
  <2>1. UNCHANGED <<lock, schema, ledger, pc, version, faults>> /\ UNCHANGED process
        /\ UNCHANGED <<effective, audit, seen, steady>>
    BY Zenon, <1>4 DEF rolloutVars, vars, authority
  <2>2. MigrationInv' /\ ProcessInv'
    BY Zenon, <1>1, <1>2, <1>3, <2>1 DEF MigrationInv, TypeOK
  <2>3. AuditInv'
    BY Zenon, <1>1, <2>1 DEF AuditInv, InAudit
  <2> QED
    BY Zenon, <2>2, <2>3 DEF RolloutInv
<1>5. CASE RolloutNext
  <2>1. AuditInv'
    BY Zenon, <1>1, <1>5, AuditHolds
  <2>2. faults \in SUBSET Replicas
    BY Zenon, <1>1 DEF MigrationInv, TypeOK
  <2>3. CASE ChangeGrant
    BY Zenon, <1>2, <1>3, <2>1, <2>2, <2>3 DEF ChangeGrant, vars, RolloutInv
  <2>4. CASE OpenFails
    <3>1. ProcessInv'
      BY Zenon, <1>1, <2>4, ProcessHolds DEF OpenFails, Process!Next, Process!Boot
    <3> QED
      BY Zenon, <1>2, <2>1, <2>2, <2>4, <3>1 DEF OpenFails, vars, RolloutInv
  <2>5. CASE RunSelf
    BY Zenon, <1>1, <1>2, <2>1, <2>2, <2>5, ProcessHolds DEF RunSelf, vars, RolloutInv
  <2>6. ASSUME NEW r \in Replicas, Migrate(r) \/ LoseSession(r) PROVE RolloutInv'
    BY Zenon, <1>1, <1>3, <2>1, <2>6, MigrateHolds DEF Migrate, LoseSession, RolloutInv
  <2>7. ASSUME NEW r \in Replicas, OpenRuntime(r) \/ AuditFails(r) PROVE RolloutInv'
    <3>1. UNCHANGED <<lock, schema, ledger, pc, version>> /\ UNCHANGED process
          /\ (faults' = faults \/ faults' = faults \cup {r})
      BY Zenon, <2>7 DEF OpenRuntime, AuditFails
    <3> QED
      BY Zenon, <1>2, <1>3, <2>1, <2>2, <2>7, <3>1 DEF RolloutInv
  <2>8. ASSUME NEW r \in Replicas, InspectTableGrants(r) PROVE RolloutInv'
    BY Zenon, <1>2, <1>3, <2>1, <2>2, <2>8 DEF InspectTableGrants, vars, RolloutInv
  <2>9. ASSUME NEW r \in Replicas, InspectSequenceGrants(r) PROVE RolloutInv'
    <3>1. Process!OpenDatabase \/ UNCHANGED process
      BY Zenon, <2>9 DEF InspectSequenceGrants
    <3>2. ProcessInv'
      BY Zenon, <1>1, <1>3, <3>1, ProcessHolds DEF Process!Next, Process!Boot
    <3> QED
      BY Zenon, <1>2, <2>1, <2>2, <2>9, <3>2 DEF InspectSequenceGrants, vars, RolloutInv
  <2>10. ASSUME NEW r \in Replicas, Restart(r) PROVE RolloutInv'
    <3>1. StartProcess \/ UNCHANGED process
      BY Zenon, <2>10 DEF Restart
    <3>2. ProcessInv'
      BY <1>3, <3>1, RolloutAssumption DEF StartProcess, ProcessInv
    <3> QED
      BY Zenon, <1>1, <2>1, <2>10, <3>2, BeginHolds DEF Restart, RolloutInv
  <2> QED
    BY Zenon, <1>5, <2>3, <2>4, <2>5, <2>6, <2>7, <2>8, <2>9, <2>10 DEF RolloutNext, Opens
<1> QED
  BY Zenon, <1>4, <1>5

\* The inductive invariant holds in every reachable state.
LEMMA RolloutInvariance == RolloutSpec => []RolloutInv
BY InitHolds, NextHolds, PTL DEF RolloutSpec

\* Sequences with the same members are the same.
LEMMA SameFiles ==
  ASSUME NEW S, NEW s \in Seq(S), NEW t \in Seq(S), Len(s) = Len(t), \A i \in 1..Len(s) : s[i] = t[i]
  PROVE  s = t
OBVIOUS

\* Whatever builds start at the same time and lose their sessions, a replica gets
\* past its migration only on a schema that begins with its own files.
THEOREM Migrated == RolloutSpec => []StartsOnItsSchema
<1>1. RolloutInv => StartsOnItsSchema
  <2> SUFFICES ASSUME RolloutInv, NEW r \in Replicas, pc[r] = "migrated"
               PROVE  Len(Build[r]) <= Len(ledger) /\ SubSeq(ledger, 1, Len(Build[r])) = Build[r]
    BY Zenon DEF RolloutInv, MigrationInv, StartsOnItsSchema
  <2>1. /\ Follows(r, Len(Build[r]) + 1) /\ ledger \in Seq(Contents) /\ Len(ledger) \in Nat
        /\ Build[r] \in Seq(Contents) /\ Len(Build[r]) \in Nat
    BY BuildAssumption DEF RolloutInv, MigrationInv, InMigration, TypeOK
  <2>2. Len(Build[r]) <= Len(ledger) /\ \A i \in 1..Len(Build[r]) : ledger[i] = Build[r][i]
    BY <2>1 DEF Follows
  <2>3. /\ SubSeq(ledger, 1, Len(Build[r])) \in Seq(Contents)
        /\ Len(SubSeq(ledger, 1, Len(Build[r]))) = Len(Build[r])
        /\ \A i \in 1..Len(Build[r]) : SubSeq(ledger, 1, Len(Build[r]))[i] = ledger[i]
    BY <2>1, <2>2
  <2> QED
    BY Zenon, <2>1, <2>2, <2>3, SameFiles
<1> QED
  BY RolloutInvariance, <1>1, PTL

\* A replica whose migration fails has lost its session or a statement, or its
\* build diverges from the ledger; never is it the doing of a concurrent replica.
THEOREM Independent == RolloutSpec => []NobodyFailsForOthers
<1>1. RolloutInv => NobodyFailsForOthers
  BY Zenon DEF RolloutInv, MigrationInv, InMigration, NobodyFailsForOthers
<1> QED
  BY RolloutInvariance, <1>1, PTL

\* An audit that no change interrupted grants exactly the manifest, although it
\* reads tables and sequences in two queries.
THEOREM Exact == RolloutSpec => []AuthorityIsExact
<1>1. RolloutInv => AuthorityIsExact
  BY Zenon DEF RolloutInv, AuditInv, InAudit, AuthorityIsExact
<1> QED
  BY RolloutInvariance, <1>1, PTL

\* The process releases its connections after the last goroutine and request.
THEOREM Released == RolloutSpec => []ReleasedAfterUse
<1>1. RolloutInv => ReleasedAfterUse
  BY Zenon DEF RolloutInv, ProcessInv, ReleasedAfterUse, Process!ReleasedAfterUse
<1> QED
  BY RolloutInvariance, <1>1, PTL

\* The exit code of a stopped process tells a requested stop from a failure.
THEOREM ExitCode == RolloutSpec => []ExitTellsCause
<1>1. RolloutInv => ExitTellsCause
  BY Zenon DEF RolloutInv, ProcessInv, ExitTellsCause, Process!ExitTellsCause
<1> QED
  BY RolloutInvariance, <1>1, PTL
=============================================================================
