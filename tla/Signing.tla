------------------------------- MODULE Signing -------------------------------
(***************************************************************************)
(* Signature sets (internal/cryptosign) over opaque signing providers      *)
(* (internal/keyprovider).  A manager signs with the current key of each   *)
(* of its providers; a set records the key references it was made with.    *)
(* Keys are rotated while signers run, and a deployment is restarted with  *)
(* another manager when it migrates to a new algorithm.                    *)
(***************************************************************************)
EXTENDS Naturals, FiniteSets

CONSTANTS
  Providers,
  Algorithm,  \* of each provider
  KeyRefs,       \* immutable key references
  Managers    \* configurations a deployment is started with

Algorithms == {Algorithm[p] : p \in Providers}

\* NewManager refuses a configuration without providers, or with a minimum that they
\* cannot meet.  That each required algorithm is that of some provider is assumed.
ASSUME ManagerAssumption ==
  \A m \in Managers :
    /\ m.providers \in SUBSET Providers /\ m.providers # {} /\ IsFiniteSet(m.providers)
    /\ m.minimum \in 1..Cardinality(m.providers)
    /\ m.required \in SUBSET Algorithms

VARIABLES
  keyring,  \* of each provider: its current key, and all keys it holds
  manager   \* the running configuration

signingVars == <<keyring, manager>>

Entry == [algorithm: Algorithms, key: KeyRefs]

SigningTypeOK ==
  /\ keyring \in [Providers -> [current: KeyRefs, keys: SUBSET KeyRefs]]
  /\ manager \in Managers

SigningInit ==
  /\ keyring \in [Providers -> {[current |-> k, keys |-> {k}] : k \in KeyRefs}]
  /\ manager \in Managers

\* Mutant of Rotate: the replaced key is dropped.
RotateDropping(p) ==
  /\ \E k \in KeyRefs \ keyring[p].keys :
       keyring' = [keyring EXCEPT ![p] = [current |-> k, keys |-> {k}]]
  /\ UNCHANGED manager

\* Ed25519Keyring.Rotate: a reference is used once, and old keys are kept.
Rotate(p) ==
  /\ \E k \in KeyRefs \ keyring[p].keys :
       keyring' = [keyring EXCEPT ![p] = [current |-> k, keys |-> @.keys \cup {k}]]
  /\ UNCHANGED manager

\* The deployment is restarted with another NewManager.
Configure ==
  /\ \E m \in Managers \ {manager} : manager' = m
  /\ UNCHANGED keyring

\* CurrentSigningKey, then Sign with that reference.
CurrentEntry(p) == [algorithm |-> Algorithm[p], key |-> keyring[p].current]

\* Every entry verifies with the key of its reference, held by some provider.
EntryVerifies(e) ==
  \E p \in manager.providers : Algorithm[p] = e.algorithm /\ e.key \in keyring[p].keys

PolicySatisfied(set) ==
  /\ Cardinality(set) >= manager.minimum
  /\ \A a \in manager.required : \E e \in set : e.algorithm = a

Verifies(set) ==
  /\ set # {}
  /\ \A e \in set : EntryVerifies(e)
  /\ PolicySatisfied(set)
=============================================================================
