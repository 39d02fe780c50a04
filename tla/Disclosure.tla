------------------------------ MODULE Disclosure ------------------------------
(***************************************************************************)
(* Disclosure of evidence (internal/disclosure, internal/retrieval): a     *)
(* decision permits one actor some fields of one piece of evidence until   *)
(* it expires; each delivery leaves one signed receipt, and the caller's   *)
(* request identifier makes a retried delivery idempotent.  The decision,  *)
(* the lookup, the signatures and the insert are separate steps of a call, *)
(* between which other calls, key rotations and restarts happen.           *)
(***************************************************************************)
EXTENDS Signing

CONSTANTS
  Actors, Evidence, Fields, Redactions,
  Tainted,       \* the fields whose values devices control
  DecisionIDs, Requests, Calls,
  MaxClock, Absent

ASSUME DisclosureAssumption == Tainted \subseteq Fields /\ MaxClock \in Nat

VARIABLES
  clock,
  decisions, \* broker_disclosure_decisions
  receipts,  \* broker_disclosure_receipts
  call,      \* open calls of RetrieveNormalised
  released   \* history: payloads handed to callers, when, and the receipt returned

disclosureVars == <<keyring, manager, clock, decisions, receipts, call, released>>

-----------------------------------------------------------------------------
(* Types and initial state *)

DecisionUntil(times) ==
  [actor: Actors, evidence: Evidence, permitted: SUBSET Fields,
   redactions: SUBSET Redactions, taint: BOOLEAN, expires: times]
Decision == DecisionUntil(Nat)

\* What sameDelivery compares: the values of fields, and with them the payload
\* digest and the taint of the receipt, follow from the evidence and the fields.
Delivery == [actor: Actors, request: Requests, decision: DecisionIDs, evidence: Evidence,
             fields: SUBSET Fields, redactions: SUBSET Redactions]
Receipt == [delivery: Delivery, at: Nat, signatures: SUBSET Entry]
Call == [pc: {"validate", "lookup", "sign", "insert"}, delivery: Delivery, now: Nat,
         pending: SUBSET Providers, signatures: SUBSET Entry]

\* Every variable keeps the type of the rows and values it models.
DisclosureTypeOK ==
  /\ SigningTypeOK
  /\ clock \in Nat
  /\ decisions \in [DecisionIDs -> Decision \cup {Absent}]
  /\ receipts \in SUBSET Receipt
  /\ call \in [Calls -> Call \cup {Absent}]
  /\ released \in SUBSET [delivery: Delivery, at: Nat, receipt: Receipt]

DisclosureInit ==
  /\ SigningInit
  /\ clock = 0
  /\ decisions = [d \in DecisionIDs |-> Absent]
  /\ receipts = {}
  /\ call = [c \in Calls |-> Absent]
  /\ released = {}

ClockAdvances ==
  /\ clock < MaxClock
  /\ clock' = clock + 1
  /\ UNCHANGED <<signingVars, decisions, receipts, call, released>>

-----------------------------------------------------------------------------
(* Decisions *)

\* EvaluateContext: a fresh identifier, a positive lifetime.
Evaluate(d) ==
  /\ decisions[d] = Absent
  /\ \E x \in DecisionUntil((clock + 1)..(MaxClock + 1)) :
       /\ x.permitted # {}
       /\ decisions' = [decisions EXCEPT ![d] = x]
  /\ UNCHANGED <<signingVars, clock, receipts, call, released>>

-----------------------------------------------------------------------------
(* Deliveries *)

Become(c, x) == call' = [call EXCEPT ![c] = x]

\* RetrieveNormalised up to the clock reading of DeliverContextWithTaint.
Ask(c) ==
  /\ call[c] = Absent
  /\ \E x \in Delivery :
       /\ x.fields # {}
       /\ Become(c, [pc |-> "validate", delivery |-> x, now |-> clock,
                     pending |-> {}, signatures |-> {}])
  /\ UNCHANGED <<signingVars, clock, decisions, receipts, released>>

\* validateDelivery, validateTaintedFields and the policy on taint.
Permits(d, x, now) ==
  /\ now < d.expires
  /\ d.actor = x.actor /\ d.evidence = x.evidence
  /\ x.fields \subseteq d.permitted
  /\ d.redactions \subseteq x.redactions
  /\ x.fields \cap Tainted # {} => d.taint

Allowed(c) ==
  LET d == decisions[call[c].delivery.decision] IN
  d # Absent /\ Permits(d, call[c].delivery, call[c].now)

Validate(c) ==
  /\ call[c] # Absent /\ call[c].pc = "validate" /\ Allowed(c)
  /\ Become(c, [call[c] EXCEPT !.pc = "lookup"])
  /\ UNCHANGED <<signingVars, clock, decisions, receipts, released>>

Refuse(c) ==
  /\ call[c] # Absent /\ call[c].pc = "validate" /\ ~Allowed(c)
  /\ Become(c, Absent)
  /\ UNCHANGED <<signingVars, clock, decisions, receipts, released>>

\* GetReceiptByRequest.
ByRequest(x) == {r \in receipts : r.delivery.actor = x.actor /\ r.delivery.request = x.request}

\* The payload and the stored receipt reach the caller, or are lost.
Return(c, r) ==
  /\ Become(c, Absent)
  /\ \/ released' = released \cup {[delivery |-> call[c].delivery, at |-> call[c].now, receipt |-> r]}
     \/ UNCHANGED released

SameDelivery(r, x) == r.delivery = x

\* persistReceipt: a receipt of this request is returned if it is of the same
\* delivery (else ErrReceiptConflict) and still verifies.
Lookup(c) ==
  LET x == call[c].delivery IN
  /\ call[c] # Absent /\ call[c].pc = "lookup"
  /\ \/ /\ ByRequest(x) = {}
        /\ Become(c, [call[c] EXCEPT !.pc = "sign", !.pending = manager.providers])
        /\ UNCHANGED released
     \/ \E r \in ByRequest(x) :
          IF SameDelivery(r, x) /\ Verifies(r.signatures)
            THEN Return(c, r)
            ELSE Become(c, Absent) /\ UNCHANGED released
  /\ UNCHANGED <<signingVars, clock, decisions, receipts>>

\* Manager.Sign, provider by provider; two equal entries are refused.
SignWith(c, p) ==
  /\ call[c] # Absent /\ call[c].pc = "sign" /\ p \in call[c].pending
  /\ IF CurrentEntry(p) \in call[c].signatures
       THEN Become(c, Absent)
       ELSE Become(c, [call[c] EXCEPT !.pending = @ \ {p},
                                      !.signatures = @ \cup {CurrentEntry(p)}])
  /\ UNCHANGED <<signingVars, clock, decisions, receipts, released>>

\* The signed set must satisfy the policy of the manager that made it.
Signed(c) ==
  /\ call[c] # Absent /\ call[c].pc = "sign" /\ call[c].pending = {}
  /\ IF PolicySatisfied(call[c].signatures)
       THEN Become(c, [call[c] EXCEPT !.pc = "insert"])
       ELSE Become(c, Absent)
  /\ UNCHANGED <<signingVars, clock, decisions, receipts, released>>

\* Mutant of Conflicts: the unique request index is missing.
ConflictsNever(x) == FALSE

\* ON CONFLICT DO NOTHING on UNIQUE (tenant, actor, request).
Conflicts(x) == ByRequest(x) # {}

\* CreateReceipt: inserted, or the winner's receipt if it is the same delivery.
CreateReceipt(c) ==
  LET x == call[c].delivery
      new == [delivery |-> x, at |-> call[c].now, signatures |-> call[c].signatures] IN
  /\ call[c] # Absent /\ call[c].pc = "insert"
  /\ \/ ~Conflicts(x) /\ receipts' = receipts \cup {new} /\ Return(c, new)
     \/ /\ Conflicts(x)
        /\ \E r \in ByRequest(x) :
             IF SameDelivery(r, x) THEN Return(c, r)
                                   ELSE Become(c, Absent) /\ UNCHANGED released
        /\ UNCHANGED receipts
  /\ UNCHANGED <<signingVars, clock, decisions>>

\* A dependency fails, or the process of the call dies.
Abandon(c) ==
  /\ call[c] # Absent
  /\ Become(c, Absent)
  /\ UNCHANGED <<signingVars, clock, decisions, receipts, released>>

-----------------------------------------------------------------------------
(* Keys and restarts *)

RotateKey ==
  /\ \E p \in Providers : Rotate(p)
  /\ UNCHANGED <<clock, decisions, receipts, call, released>>

\* A restart ends the open calls.
Restart ==
  /\ Configure
  /\ call' = [c \in Calls |-> Absent]
  /\ UNCHANGED <<clock, decisions, receipts, released>>

-----------------------------------------------------------------------------
(* Specification *)

DisclosureNext ==
  \/ ClockAdvances \/ RotateKey \/ Restart
  \/ \E d \in DecisionIDs : Evaluate(d)
  \/ \E c \in Calls :
       \/ Ask(c) \/ Validate(c) \/ Refuse(c) \/ Lookup(c)
       \/ \E p \in Providers : SignWith(c, p)
       \/ Signed(c) \/ CreateReceipt(c) \/ Abandon(c)

DisclosureSpec == DisclosureInit /\ [][DisclosureNext]_disclosureVars

-----------------------------------------------------------------------------
(* Properties *)

\* What a caller was given is what the audit trail says: the receipt returned is
\* stored, it is the only one of the actor's request, it describes exactly the
\* delivered payload, and its decision allowed that, both at the time of the receipt
\* and at that of the call: also for the loser of a race, for a retry, and for a retry
\* after the decision has expired, which gets nothing (validateDelivery precedes the
\* lookup of persistReceipt).
ReleasedIsReceipted ==
  \A x \in released :
    LET d == decisions[x.delivery.decision] IN
    /\ ByRequest(x.delivery) = {x.receipt}
    /\ x.receipt.delivery = x.delivery
    /\ d # Absent
    /\ d.actor = x.delivery.actor /\ d.evidence = x.delivery.evidence
    /\ x.at < d.expires /\ x.receipt.at < d.expires
    /\ x.delivery.fields \subseteq d.permitted /\ d.redactions \subseteq x.delivery.redactions
    /\ d.taint \/ x.delivery.fields \cap Tainted = {}

\* docs/key-rotation.md: "Records created before rotation continue to verify for
\* their full retention period": stored receipts verify under the running manager,
\* whose minimum and required algorithms may have changed, its providers not.
ReceiptsKeepVerifying == \A r \in receipts : Verifies(r.signatures)
=============================================================================
