-------------------------------- MODULE Policy --------------------------------
(***************************************************************************)
(* Signed policy bundles (internal/policy): versions are stored once, one  *)
(* of them is active per scope, and every evaluation is recorded with the  *)
(* bundle that it used.  ActivateBundle moves the active row and appends   *)
(* an audit event, numbered by a sequence that is outside the transaction. *)
(* Evaluate loads the active bundle and records its decision later, in     *)
(* statements of their own.                                                *)
(***************************************************************************)
EXTENDS Naturals, FiniteSets, Sequences

CONSTANTS
  Bundles,     \* bundle identifier and version
  Scopes, Recipes,
  Documents,   \* rule lists: sequences of [recipe, effect]
  Operators, Engines,
  MaxEvents, MaxDecisions, Nothing

Effects == {"allow", "approval", "deny"}

ASSUME PolicyAssumption ==
  /\ Documents \subseteq Seq([recipe: Recipes, effect: Effects])
  /\ MaxEvents \in Nat /\ MaxDecisions \in Nat
  /\ Nothing \notin Bundles

VARIABLES
  bundles,   \* broker_policy_bundles
  activation, \* broker_policy_activations
  events,    \* broker_policy_activation_events
  sequence,  \* the sequence that numbers events
  decisions, \* broker_policy_decisions
  tx,        \* open transactions of ActivateBundle
  engine     \* open calls of Evaluate

policyVars == <<bundles, activation, events, sequence, decisions, tx, engine>>

-----------------------------------------------------------------------------
(* Types and initial state *)

Bundle == [scope: Scopes, rules: Documents]
Event == [sequence: Nat, scope: Scopes, bundle: Bundles]
Decision == [scope: Scopes, recipe: Recipes, bundle: Bundles, effect: Effects]
Activation == [pc: {"begun", "moved", "logged"}, scope: Scopes, bundle: Bundles,
               seen: Nat, number: Nat]
Evaluation == [scope: Scopes, recipe: Recipes, bundle: Bundles, rules: Documents]

\* Every variable keeps the type of the rows and values it models.
PolicyTypeOK ==
  /\ bundles \in [Bundles -> Bundle \cup {Nothing}]
  /\ activation \in [Scopes -> Bundles \cup {Nothing}]
  /\ events \in SUBSET Event
  /\ sequence \in Nat
  /\ decisions \in SUBSET Decision
  /\ tx \in [Operators -> Activation \cup {Nothing}]
  /\ engine \in [Engines -> Evaluation \cup {Nothing}]

PolicyInit ==
  /\ bundles = [b \in Bundles |-> Nothing]
  /\ activation = [s \in Scopes |-> Nothing]
  /\ events = {}
  /\ sequence = 0
  /\ decisions = {}
  /\ tx = [o \in Operators |-> Nothing]
  /\ engine = [e \in Engines |-> Nothing]

-----------------------------------------------------------------------------
(* Storing and activating *)

\* ON CONFLICT DO NOTHING: a stored version is never replaced.
StoreBundle ==
  /\ \E b \in Bundles, s \in Scopes, d \in Documents :
       /\ bundles[b] = Nothing
       /\ d # << >>
       /\ bundles' = [bundles EXCEPT ![b] = [scope |-> s, rules |-> d]]
  /\ UNCHANGED <<activation, events, sequence, decisions, tx, engine>>

Activatable(b, s) == bundles[b] # Nothing /\ bundles[b].scope = s

\* The committed activations of a scope: their number is the row's version.
EventsOf(s) == {v \in events : v.scope = s}

\* BeginTx and the lookup of the bundle, which fixes the snapshot.
BeginActivation(o) ==
  /\ tx[o] = Nothing
  /\ sequence < MaxEvents
  /\ \E b \in Bundles, s \in Scopes :
       /\ Activatable(b, s)
       /\ tx' = [tx EXCEPT ![o] = [pc |-> "begun", scope |-> s, bundle |-> b,
                                   seen |-> Cardinality(EventsOf(s)), number |-> 0]]
  /\ UNCHANGED <<bundles, activation, events, sequence, decisions, engine>>

\* Mutant of RowIsFree: the upsert does not wait for the lock of the row.
RowNeverLocked(s) == TRUE

\* No other transaction has updated the row of the scope.
RowIsFree(s) == \A o \in Operators : tx[o] # Nothing /\ tx[o].pc # "begun" => tx[o].scope # s

\* The upsert takes the lock of the scope's row; SERIALIZABLE refuses it if the
\* row changed since the snapshot.
MoveActive(o) ==
  /\ tx[o] # Nothing /\ tx[o].pc = "begun"
  /\ RowIsFree(tx[o].scope)
  /\ Cardinality(EventsOf(tx[o].scope)) = tx[o].seen
  /\ tx' = [tx EXCEPT ![o].pc = "moved"]
  /\ UNCHANGED <<bundles, activation, events, sequence, decisions, engine>>

\* The event takes the next sequence number while the row is locked.
LogActivation(o) ==
  /\ tx[o] # Nothing /\ tx[o].pc = "moved"
  /\ sequence < MaxEvents
  /\ sequence' = sequence + 1
  /\ tx' = [tx EXCEPT ![o] = [@ EXCEPT !.number = sequence + 1, !.pc = "logged"]]
  /\ UNCHANGED <<bundles, activation, events, decisions, engine>>

Commit(o) ==
  LET x == tx[o] IN
  /\ x # Nothing /\ x.pc = "logged"
  /\ activation' = [activation EXCEPT ![x.scope] = x.bundle]
  /\ events' = events \cup {[sequence |-> x.number, scope |-> x.scope, bundle |-> x.bundle]}
  /\ tx' = [tx EXCEPT ![o] = Nothing]
  /\ UNCHANGED <<bundles, sequence, decisions, engine>>

\* A statement fails or the operator dies; a sequence number taken is lost.
Rollback(o) ==
  /\ tx[o] # Nothing
  /\ tx' = [tx EXCEPT ![o] = Nothing]
  /\ UNCHANGED <<bundles, activation, events, sequence, decisions, engine>>

-----------------------------------------------------------------------------
(* Evaluating *)

\* Evaluate up to the verified bundle: ErrNoActiveBundle ends the call.
LoadActiveBundle(e) ==
  /\ engine[e] = Nothing
  /\ \E s \in Scopes, r \in Recipes :
       /\ activation[s] # Nothing
       /\ engine' = [engine EXCEPT ![e] =
            [scope |-> s, recipe |-> r, bundle |-> activation[s], rules |-> bundles[activation[s]].rules]]
  /\ UNCHANGED <<bundles, activation, events, sequence, decisions, tx>>

Matches(rules, recipe) == {i \in 1..Len(rules) : rules[i].recipe = recipe}

\* Mutant of MatchingRule: a later rule overrides.
LastMatchingRule(rules, recipe) ==
  rules[CHOOSE i \in Matches(rules, recipe) : \A j \in Matches(rules, recipe) : j <= i]

\* The first rule for the recipe.
MatchingRule(rules, recipe) ==
  rules[CHOOSE i \in Matches(rules, recipe) : \A j \in Matches(rules, recipe) : i <= j]

\* The rule is applied and the decision inserted, or ErrNoMatchingRule or a
\* failed insert ends the call without one.
RecordDecision(e) ==
  LET x == engine[e] IN
  /\ x # Nothing
  /\ \/ /\ Matches(x.rules, x.recipe) # {}
        /\ Cardinality(decisions) < MaxDecisions
        /\ decisions' = decisions \cup
             {[scope |-> x.scope, recipe |-> x.recipe, bundle |-> x.bundle,
               effect |-> MatchingRule(x.rules, x.recipe).effect]}
     \/ UNCHANGED decisions
  /\ engine' = [engine EXCEPT ![e] = Nothing]
  /\ UNCHANGED <<bundles, activation, events, sequence, tx>>

-----------------------------------------------------------------------------
(* Specification *)

PolicyNext ==
  \/ StoreBundle
  \/ \E o \in Operators : BeginActivation(o) \/ MoveActive(o) \/ LogActivation(o)
                          \/ Commit(o) \/ Rollback(o)
  \/ \E e \in Engines : LoadActiveBundle(e) \/ RecordDecision(e)

PolicySpec == PolicyInit /\ [][PolicyNext]_policyVars

-----------------------------------------------------------------------------
(* Properties *)

\* The audit trail tells which bundle is active: it is the one of the scope's
\* event with the highest number, although numbers are taken before commits.
TrailEndsInActive ==
  \A s \in Scopes :
    /\ activation[s] = Nothing <=> EventsOf(s) = {}
    /\ \A v \in EventsOf(s) :
         (\A w \in EventsOf(s) : w.sequence <= v.sequence) => v.bundle = activation[s]

\* The bundle that a decision names was activated for its scope and belongs to the
\* scope, and no rule for the recipe precedes one with the recorded effect.
Reproducible(d) ==
  /\ \E v \in EventsOf(d.scope) : v.bundle = d.bundle
  /\ Activatable(d.bundle, d.scope)
  /\ LET rules == bundles[d.bundle].rules IN
     \E i \in 1..Len(rules) :
       /\ rules[i] = [recipe |-> d.recipe, effect |-> d.effect]
       /\ \A j \in 1..(i - 1) : rules[j].recipe # d.recipe

\* A decision can be reproduced from its record for ever, whatever is stored and
\* activated later (Engine.Evaluate and the decision repository).
DecisionIsReproducible == \A d \in decisions : Reproducible(d)
=============================================================================
