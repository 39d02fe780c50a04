---------------------------- MODULE EvidenceProofs ----------------------------
(***************************************************************************)
(* From the device to the store.  For any attempts, payloads, writers,     *)
(* administrators and deadlines: metadata is complete, the ledger is the   *)
(* history of the lifecycle, and deletion waits for every deadline and     *)
(* hold.  For any adapters, scripts and bounds: a payload that Execute     *)
(* returns is the whole answer of the device.                              *)
(***************************************************************************)
EXTENDS Artefacts, Transport, TLAPS

\* A writer that has stored its object finds it there, and its parent is recorded.
WritersAreSound ==
  \A w \in Writers : writer[w] # None =>
    /\ HasParent(writer[w].artefact)
    /\ writer[w].stored => ObjectKey(writer[w].artefact) \in objects

\* A command names a row, and its time is not after the clock.
CommandsAreSound ==
  \A d \in Admins : admin[d] # None => admin[d].artefact \in Rows /\ admin[d].now <= clock

\* Nothing is recorded of an artefact without a row, deadlines only grow, and they
\* have passed for what is no longer active.
DeadlinesGrow ==
  \A a \in Artefact :
    /\ a \notin Rows => Entries(a) = {}
    /\ a \in Rows =>
         LET c == lifecycle[a].condition IN
         /\ lifecycle[a].version > 0
         /\ \A e \in Entries(a) : e.next.retain <= c.retain
         /\ c.state # "active" => c.retain <= clock
         /\ c.state = "deleted" => ~c.hold

IInv ==
  /\ TypeOK /\ WritersAreSound /\ CommandsAreSound /\ DeadlinesGrow
  /\ MetadataIsComplete /\ LedgerIsHistory

-----------------------------------------------------------------------------
(* What a lifecycle action does *)

\* A permitted action lengthens deadlines or keeps them, ends the active state only
\* after them, and deletes nothing that is held.
LEMMA ActionIsSound ==
  ASSUME NEW c \in Condition, NEW x \in Command, Permitted(c, x)
  PROVE  /\ Applied(c, x) \in Condition
         /\ c.retain <= Applied(c, x).retain
         /\ Applied(c, x).state # "active" =>
              /\ Applied(c, x).retain = c.retain
              /\ c.state # "active" \/ c.retain <= x.now
         /\ Applied(c, x).state = "deleted" => ~Applied(c, x).hold
<1>1. /\ x.deadline \in Nat /\ x.now \in Nat /\ x.action \in Actions
      /\ c.retain \in Nat /\ c.hold \in BOOLEAN /\ c.state \in {"active", "pending_deletion", "deleted"}
  BY Zenon DEF Command, Condition
<1>2. CASE x.action = "retain"
  <2>1. Applied(c, x) = [c EXCEPT !.retain = x.deadline] /\ MayRetain(c, x)
    BY Zenon, <1>2 DEF Applied, Permitted
  <2> QED
    BY <1>1, <2>1 DEF MayRetain, Condition
<1>3. CASE x.action = "place_hold"
  <2> DEFINE n == [c EXCEPT !.hold = TRUE]
  <2>1. Applied(c, x) = n /\ c.state # "deleted"
    BY Zenon, <1>3 DEF Applied, Permitted, MayPlaceHold
  <2>2. n \in Condition
    BY Zenon DEF Condition
  <2>3. n.state = c.state /\ n.retain = c.retain
    BY Zenon DEF Condition
  <2> HIDE DEF n
  <2> QED
    BY <1>1, <2>1, <2>2, <2>3
<1>4. CASE x.action = "release_hold"
  <2> DEFINE n == [c EXCEPT !.hold = FALSE]
  <2>1. Applied(c, x) = n /\ c.state # "deleted"
    BY Zenon, <1>4 DEF Applied, Permitted, MayReleaseHold
  <2>2. n \in Condition
    BY Zenon DEF Condition
  <2>3. n.state = c.state /\ n.retain = c.retain
    BY Zenon DEF Condition
  <2> HIDE DEF n
  <2> QED
    BY <1>1, <2>1, <2>2, <2>3
<1>5. CASE x.action = "request_deletion"
  <2>1. Applied(c, x) = [c EXCEPT !.state = "pending_deletion"] /\ MayRequestDeletion(c, x)
    BY Zenon, <1>5 DEF Applied, Permitted
  <2> QED
    BY <1>1, <2>1 DEF MayRequestDeletion, Condition
<1>6. CASE x.action = "confirm_deletion"
  <2>1. Applied(c, x) = [c EXCEPT !.state = "deleted"] /\ MayConfirmDeletion(c)
    BY Zenon, <1>6 DEF Applied, Permitted
  <2> QED
    BY <1>1, <2>1 DEF MayConfirmDeletion, Condition
<1> QED
  BY Zenon, <1>1, <1>2, <1>3, <1>4, <1>5, <1>6 DEF Actions

-----------------------------------------------------------------------------
(* Steps that leave the database alone *)

\* Clock, object store, writers and commands may go on while the rows stay.
LEMMA RowsUnchanged ==
  ASSUME IInv, UNCHANGED <<metadata, lifecycle, ledger>>, clock' \in Nat, clock <= clock',
         objects \subseteq objects', TypeOK', WritersAreSound', CommandsAreSound'
  PROVE  IInv'
<1>1. Rows' = Rows /\ \A a \in Artefact : Entries(a)' = Entries(a)
  BY Zenon DEF Rows, Entries
<1>2. MetadataIsComplete' /\ LedgerIsHistory'
  BY Zenon, <1>1 DEF IInv, MetadataIsComplete, LedgerIsHistory, Rows, Entries
<1>3. DeadlinesGrow'
  <2>1. \A a \in Rows : lifecycle[a] \in Lifecycle
    BY Zenon DEF IInv, TypeOK, MetadataIsComplete, Rows
  <2>2. \A a \in Rows : lifecycle[a].condition.retain \in Nat /\ clock \in Nat
    BY Zenon, <2>1 DEF Lifecycle, Condition, IInv, TypeOK
  <2> QED
    BY <1>1, <2>2 DEF IInv, DeadlinesGrow, Rows
<1> QED
  BY Zenon, <1>2, <1>3 DEF IInv

\* A writer's record keeps its artefact when its object is stored.
LEMMA WriteStored ==
  ASSUME NEW x \in Write
  PROVE  /\ [x EXCEPT !.stored = TRUE] \in Write
         /\ [x EXCEPT !.stored = TRUE].artefact = x.artefact
<1>1. [x EXCEPT !.stored = TRUE] \in Write
  BY Zenon DEF Write
<1>2. [x EXCEPT !.stored = TRUE].artefact = x.artefact
  BY Zenon DEF Write
<1> QED
  BY Zenon, <1>1, <1>2

\* An object has the class and the digest of its artefact.
LEMMA ObjectKeyType ==
  ASSUME NEW a \in Artefact
  PROVE  ObjectKey(a) \in [class: {"captured", "sanitised"}, digest: Payloads]
BY Zenon DEF Artefact, Captured, Sanitised, ObjectKey

\* Put checks the parent and remembers the artefact.
LEMMA PutHolds ==
  ASSUME IInv, NEW w \in Writers, Put(w)
  PROVE  IInv'
<1>1. PICK a \in Artefact, stamp \in Stamps :
        /\ HasParent(a)
        /\ writer' = [writer EXCEPT ![w] = [artefact |-> a, stamp |-> stamp, stored |-> FALSE]]
  BY Zenon DEF Put
<1> DEFINE n == [artefact |-> a, stamp |-> stamp, stored |-> FALSE]
<1>2. n \in Write
  BY Zenon DEF Write
<1>3. n.artefact = a /\ ~n.stored
  BY Zenon
<1> HIDE DEF n
<1>4. UNCHANGED <<clock, objects, metadata, lifecycle, ledger, admin>>
  BY Zenon DEF Put
<1>5. /\ writer' \in [Writers -> Write \cup {None}] /\ writer'[w] = n
      /\ \A v \in Writers \ {w} : writer'[v] = writer[v]
  BY Zenon, <1>1, <1>2 DEF IInv, TypeOK, n
<1>6. TypeOK' /\ CommandsAreSound'
  BY Zenon, <1>4, <1>5 DEF IInv, TypeOK, CommandsAreSound, Rows
<1>7. WritersAreSound'
  BY Zenon, <1>1, <1>3, <1>4, <1>5 DEF IInv, WritersAreSound, HasParent, Rows
<1> QED
  BY <1>4, <1>6, <1>7, RowsUnchanged DEF IInv, TypeOK

\* An upload stores the object, or finds it missing and gives up.
LEMMA PutIfAbsentHolds ==
  ASSUME IInv, NEW w \in Writers, PutIfAbsent(w)
  PROVE  IInv'
<1> DEFINE x == writer[w]
<1>1. x \in Write /\ UNCHANGED <<clock, metadata, lifecycle, ledger, admin>>
  BY Zenon DEF PutIfAbsent, IInv, TypeOK
<1>2. x.artefact \in Artefact /\ HasParent(x.artefact)
  BY Zenon, <1>1 DEF Write, IInv, WritersAreSound, PutIfAbsent
<1>3. CASE /\ objects' = objects \cup {ObjectKey(x.artefact)}
           /\ writer' = [writer EXCEPT ![w].stored = TRUE]
  <2> DEFINE n == [x EXCEPT !.stored = TRUE]
  <2>1. n \in Write /\ n.artefact = x.artefact
    BY Zenon, <1>1, WriteStored
  <2>2. writer' = [writer EXCEPT ![w] = n]
    BY Zenon, <1>3
  <2> HIDE DEF n
  <2>3. /\ writer' \in [Writers -> Write \cup {None}] /\ writer'[w] = n
        /\ \A v \in Writers \ {w} : writer'[v] = writer[v]
    BY Zenon, <2>1, <2>2 DEF IInv, TypeOK
  <2>4. TypeOK' /\ CommandsAreSound'
    BY Zenon, <1>1, <1>2, <1>3, <2>3, ObjectKeyType DEF IInv, TypeOK, CommandsAreSound, Rows
  <2>5. WritersAreSound'
    BY <1>1, <1>2, <1>3, <2>1, <2>3 DEF IInv, WritersAreSound, HasParent, Rows
  <2> QED
    BY <1>1, <1>3, <2>4, <2>5, RowsUnchanged DEF IInv, TypeOK
<1>4. CASE writer' = [writer EXCEPT ![w] = None] /\ UNCHANGED objects
  <2>1. TypeOK' /\ CommandsAreSound'
    BY Zenon, <1>1, <1>4 DEF IInv, TypeOK, CommandsAreSound, Rows
  <2>2. WritersAreSound'
    BY Zenon, <1>1, <1>4 DEF IInv, TypeOK, WritersAreSound, HasParent, Rows
  <2> QED
    BY <1>1, <1>4, <2>1, <2>2, RowsUnchanged DEF IInv, TypeOK
<1> QED
  BY Zenon, <1>3, <1>4 DEF PutIfAbsent

\* A writer that fails leaves its object and nothing else.
LEMMA WriterEnds ==
  ASSUME IInv, NEW w \in Writers, writer' = [writer EXCEPT ![w] = None],
         UNCHANGED <<clock, objects, metadata, lifecycle, ledger, admin>>
  PROVE  IInv'
<1>1. TypeOK' /\ CommandsAreSound'
  BY Zenon DEF IInv, TypeOK, CommandsAreSound, Rows
<1>2. WritersAreSound'
  BY Zenon DEF IInv, TypeOK, WritersAreSound, HasParent, Rows
<1> QED
  BY <1>1, <1>2, RowsUnchanged DEF IInv, TypeOK

\* A command carries the version that was read.
LEMMA DecideHolds ==
  ASSUME IInv, NEW d \in Admins, Decide(d)
  PROVE  IInv'
<1>1. PICK a \in Rows, action \in Actions, deadline \in Deadlines \cup {0} :
        admin' = [admin EXCEPT ![d] =
          [artefact |-> a, expected |-> lifecycle[a].version, action |-> action,
           deadline |-> deadline, now |-> 0, begun |-> FALSE]]
  BY Zenon DEF Decide
<1> DEFINE n == [artefact |-> a, expected |-> lifecycle[a].version, action |-> action,
                 deadline |-> deadline, now |-> 0, begun |-> FALSE]
<1>2. a \in Artefact /\ lifecycle[a].version \in Nat /\ deadline \in Nat
  BY ArtefactAssumption DEF IInv, TypeOK, MetadataIsComplete, Rows, Lifecycle
<1>3. n \in Command
  BY <1>2, Zenon DEF Command
<1>4. n.artefact = a /\ n.now = 0
  BY Zenon
<1> HIDE DEF n
<1>5. UNCHANGED <<clock, objects, metadata, lifecycle, ledger, writer>>
  BY Zenon DEF Decide
<1>6. /\ admin' \in [Admins -> Command \cup {None}] /\ admin'[d] = n
      /\ \A b \in Admins \ {d} : admin'[b] = admin[b]
  BY Zenon, <1>1, <1>3 DEF IInv, TypeOK, n
<1>7. TypeOK' /\ WritersAreSound'
  BY Zenon, <1>5, <1>6 DEF IInv, TypeOK, WritersAreSound, HasParent, Rows
<1>8. CommandsAreSound'
  BY <1>4, <1>5, <1>6 DEF IInv, TypeOK, CommandsAreSound, Rows
<1> QED
  BY <1>5, <1>7, <1>8, RowsUnchanged DEF IInv, TypeOK

\* BeginTx gives the command the time of the clock.
LEMMA BeginHolds ==
  ASSUME IInv, NEW d \in Admins, Begin(d)
  PROVE  IInv'
<1> DEFINE x == admin[d]
           n == [x EXCEPT !.now = clock, !.begun = TRUE]
<1>1. /\ x \in Command /\ x.artefact \in Rows /\ clock \in Nat /\ admin' = [admin EXCEPT ![d] = n]
      /\ UNCHANGED <<clock, objects, metadata, lifecycle, ledger, writer>>
  BY Zenon DEF Begin, IInv, TypeOK, CommandsAreSound
<1>2. n \in Command
  BY <1>1, Zenon DEF Command
<1>3. n.artefact = x.artefact /\ n.now = clock
  BY <1>1, Zenon DEF Command
<1> HIDE DEF n
<1>4. /\ admin' \in [Admins -> Command \cup {None}] /\ admin'[d] = n
      /\ \A b \in Admins \ {d} : admin'[b] = admin[b]
  BY Zenon, <1>1, <1>2 DEF IInv, TypeOK
<1>5. TypeOK' /\ WritersAreSound'
  BY Zenon, <1>1, <1>4 DEF IInv, TypeOK, WritersAreSound, HasParent, Rows
<1>6. CommandsAreSound'
  BY <1>1, <1>3, <1>4 DEF IInv, TypeOK, CommandsAreSound, Rows
<1> QED
  BY <1>1, <1>5, <1>6, RowsUnchanged DEF IInv, TypeOK

-----------------------------------------------------------------------------
(* Steps that write rows *)

Entry == [artefact: Artefact, version: Nat, action: Actions \cup {"created"},
          previous: Condition \cup {None}, next: Condition]

\* The first entry of an artefact is its whole history.
LEMMA CreateMetadataHolds ==
  ASSUME IInv, NEW w \in Writers, CreateMetadata(w)
  PROVE  IInv'
<1> DEFINE x == writer[w]
<1>1. /\ x \in Write /\ x.stored /\ writer' = [writer EXCEPT ![w] = None]
      /\ UNCHANGED <<clock, objects, admin>>
  BY Zenon DEF CreateMetadata, IInv, TypeOK
<1>2. PICK a \in Artefact : a = x.artefact /\ x.stamp \in Stamps
  BY Zenon, <1>1 DEF Write
<1> DEFINE first == [condition |-> NewCondition, version |-> 1]
           e == [artefact |-> a, version |-> 1, action |-> "created",
                 previous |-> None, next |-> NewCondition]
<1>3. HasParent(a) /\ ObjectKey(a) \in objects
  BY Zenon, <1>1, <1>2 DEF IInv, WritersAreSound, CreateMetadata
<1>4. CASE UNCHANGED <<metadata, lifecycle, ledger>>
  BY Zenon, <1>1, <1>4, WriterEnds
<1>5. CASE /\ metadata[a] = None /\ metadata' = [metadata EXCEPT ![a] = x.stamp]
           /\ lifecycle' = [lifecycle EXCEPT ![a] = first] /\ ledger' = ledger \cup {e}
  <2>1. NewCondition \in Condition /\ NewCondition.retain = 0 /\ NewCondition.state = "active"
    BY Zenon DEF NewCondition, Condition
  <2>2. first \in Lifecycle /\ first.version = 1 /\ first.condition = NewCondition
    BY Zenon, <2>1 DEF Lifecycle
  <2>3. e \in Entry /\ e.artefact = a /\ e.version = 1 /\ e.next = NewCondition
    BY Zenon, <1>2, <2>1 DEF Entry
  <2> HIDE DEF first, e
  <2>4. /\ metadata' \in [Artefact -> Stamps \cup {None}] /\ metadata'[a] # None
        /\ \A b \in Artefact \ {a} : metadata'[b] = metadata[b]
    BY Zenon, <1>2, <1>5, NoneAssumption DEF IInv, TypeOK
  <2>5. /\ lifecycle' \in [Artefact -> Lifecycle \cup {None}] /\ lifecycle'[a] = first /\ first # None
        /\ \A b \in Artefact \ {a} : lifecycle'[b] = lifecycle[b]
    BY Zenon, <1>2, <1>5, <2>2, NoneAssumption DEF IInv, TypeOK
  <2>6. writer' \in [Writers -> Write \cup {None}]
    BY Zenon, <1>1 DEF IInv, TypeOK
  <2>7. TypeOK'
    BY Zenon, <1>1, <1>5, <2>3, <2>4, <2>5, <2>6 DEF IInv, TypeOK, Entry
  <2>8. a \notin Rows /\ Rows' = Rows \cup {a} /\ Rows \subseteq Artefact
    BY <1>2, <1>5, <2>4 DEF Rows
  <2>9. Entries(a) = {} /\ Entries(a)' = {e}
    BY Zenon, <1>2, <1>5, <2>3, <2>8 DEF IInv, DeadlinesGrow, Entries
  <2>10. ASSUME NEW b \in Artefact, b # a PROVE Entries(b)' = Entries(b)
    BY Zenon, <1>5, <2>3, <2>10 DEF Entries
  <2>11. WritersAreSound'
    BY Zenon, <1>1, <2>8 DEF IInv, TypeOK, WritersAreSound, HasParent
  <2>12. CommandsAreSound'
    BY Zenon, <1>1, <2>8 DEF IInv, CommandsAreSound
  <2>13. MetadataIsComplete'
    <3>1. a \in Sanitised => a.parent \in Rows'
      BY Zenon, <1>3, <2>8 DEF HasParent, Sanitised
    <3>2. ObjectKey(a) \in objects'
      BY Zenon, <1>1, <1>3
    <3> QED
      BY Zenon, <1>1, <2>5, <2>8, <3>1, <3>2 DEF IInv, MetadataIsComplete
  <2>14. ASSUME NEW b \in Rows'
         PROVE  /\ {f.version : f \in Entries(b)'} = 1..lifecycle'[b].version
                /\ \A f, g \in Entries(b)' :
                     /\ f.version = g.version => f = g
                     /\ g.version = f.version + 1 => g.previous = f.next
                /\ \A f \in Entries(b)' :
                     f.version = lifecycle'[b].version => f.next = lifecycle'[b].condition
    <3>1. CASE b = a
      BY <2>2, <2>3, <2>5, <2>9, <3>1
    <3>2. CASE b # a
      BY <2>5, <2>8, <2>10, <3>2 DEF IInv, LedgerIsHistory
    <3> QED
      BY Zenon, <3>1, <3>2
  <2>15. LedgerIsHistory'
    BY Zenon, <2>14 DEF LedgerIsHistory
  <2>16. DeadlinesGrow'
    <3>1. ASSUME NEW b \in Artefact, b \notin Rows' PROVE Entries(b)' = {}
      BY Zenon, <2>8, <2>10, <3>1 DEF IInv, DeadlinesGrow
    <3>2. ASSUME NEW b \in Rows
          PROVE  lifecycle'[b] = lifecycle[b] /\ Entries(b)' = Entries(b)
      BY Zenon, <2>5, <2>8, <2>10, <3>2
    <3>3. /\ lifecycle'[a].version > 0 /\ lifecycle'[a].condition.state = "active"
          /\ \A f \in Entries(a)' : f.next.retain <= lifecycle'[a].condition.retain
      BY <2>1, <2>2, <2>3, <2>5, <2>9
    <3> QED
      BY Zenon, <1>1, <2>8, <3>1, <3>2, <3>3 DEF IInv, DeadlinesGrow
  <2> QED
    BY Zenon, <2>7, <2>11, <2>12, <2>13, <2>15, <2>16 DEF IInv
<1> QED
  BY Zenon, <1>2, <1>4, <1>5 DEF CreateMetadata

\* A command whose version is current adds the entry that follows the last one.
LEMMA ApplyHolds ==
  ASSUME IInv, NEW d \in Admins, ApplyLifecycle(d)
  PROVE  IInv'
<1> DEFINE x == admin[d]
<1>1. /\ x \in Command /\ admin' = [admin EXCEPT ![d] = None] /\ x.artefact \in Rows
      /\ x.now <= clock /\ clock \in Nat
      /\ UNCHANGED <<clock, objects, metadata, writer>>
  BY Zenon DEF ApplyLifecycle, IInv, TypeOK, CommandsAreSound
<1>2. PICK a \in Rows : a = x.artefact
  BY Zenon, <1>1
<1> DEFINE old == lifecycle[a]
           c == old.condition
           n == Applied(c, x)
           row == [condition |-> n, version |-> x.expected + 1]
           e == [artefact |-> a, version |-> x.expected + 1, action |-> x.action,
                 previous |-> c, next |-> n]
<1>3. a \in Artefact /\ x.expected \in Nat /\ x.action \in Actions /\ x.now \in Nat
  BY Zenon, <1>1, <1>2 DEF Command, Rows
<1>4. old \in Lifecycle /\ c \in Condition /\ c.retain \in Nat
  BY Zenon, <1>1, <1>3 DEF IInv, TypeOK, MetadataIsComplete, Lifecycle, Condition
<1>5. Rows' = Rows /\ Rows \subseteq Artefact
  BY Zenon, <1>1 DEF Rows
<1>6. admin' \in [Admins -> Command \cup {None}] /\ CommandsAreSound'
  BY Zenon, <1>1, <1>5 DEF IInv, TypeOK, CommandsAreSound
<1>7. WritersAreSound'
  BY Zenon, <1>1, <1>5 DEF IInv, WritersAreSound, HasParent
<1>8. CASE UNCHANGED <<lifecycle, ledger>>
  <2>1. TypeOK'
    BY Zenon, <1>1, <1>6, <1>8 DEF IInv, TypeOK
  <2> QED
    BY <1>1, <1>6, <1>7, <1>8, <2>1, RowsUnchanged
<1>9. CASE /\ Current(x) /\ Permitted(c, x) /\ lifecycle' = [lifecycle EXCEPT ![a] = row]
           /\ ledger' = ledger \cup {e}
  <2> DEFINE v == old.version
  <2>1. v = x.expected /\ v \in Nat
    BY Zenon, <1>2, <1>3, <1>9 DEF Current
  <2>2. /\ n \in Condition /\ n.retain \in Nat /\ c.retain <= n.retain
        /\ n.state # "active" => n.retain = c.retain /\ (c.state # "active" \/ c.retain <= x.now)
        /\ n.state = "deleted" => ~n.hold
    <3>1. /\ n \in Condition /\ c.retain <= n.retain
          /\ n.state # "active" => n.retain = c.retain /\ (c.state # "active" \/ c.retain <= x.now)
          /\ n.state = "deleted" => ~n.hold
      BY Zenon, <1>1, <1>4, <1>9, ActionIsSound
    <3> QED
      BY Zenon, <3>1 DEF Condition
  <2> HIDE DEF n
  <2>3. row \in Lifecycle /\ row.version = v + 1 /\ row.condition = n /\ row # None
    BY <2>1, <2>2, NoneAssumption DEF Lifecycle
  <2>4. /\ e \in Entry /\ e.artefact = a /\ e.version = v + 1 /\ e.next = n /\ e.previous = c
    BY <1>3, <1>4, <2>1, <2>2 DEF Entry
  <2> HIDE DEF row, e
  <2>5. /\ lifecycle' \in [Artefact -> Lifecycle \cup {None}] /\ lifecycle'[a] = row
        /\ \A b \in Artefact \ {a} : lifecycle'[b] = lifecycle[b]
    BY Zenon, <1>3, <1>9, <2>3 DEF IInv, TypeOK
  <2>6. TypeOK'
    BY Zenon, <1>1, <1>6, <1>9, <2>4, <2>5 DEF IInv, TypeOK, Entry
  <2>7. Entries(a)' = Entries(a) \cup {e}
    BY Zenon, <1>9, <2>4 DEF Entries
  <2>8. ASSUME NEW b \in Artefact, b # a PROVE Entries(b)' = Entries(b)
    BY Zenon, <1>9, <2>4, <2>8 DEF Entries
  <2>9. MetadataIsComplete'
    BY Zenon, <1>1, <1>3, <1>5, <2>3, <2>5 DEF IInv, MetadataIsComplete
  <2>10. /\ {f.version : f \in Entries(a)} = 1..v
         /\ \A f \in Entries(a) : f.version = v => f.next = c
         /\ \A f, g \in Entries(a) :
              /\ f.version = g.version => f = g
              /\ g.version = f.version + 1 => g.previous = f.next
    BY Zenon, <1>1 DEF IInv, LedgerIsHistory
  <2>11. \A f \in Entries(a) : f.version \in 1..v
    BY Zenon, <2>10
  <2>12. {f.version : f \in Entries(a)'} = 1..(v + 1)
    <3>1. {f.version : f \in Entries(a)'} = {f.version : f \in Entries(a)} \cup {v + 1}
      BY Zenon, <2>4, <2>7
    <3> QED
      BY <2>1, <2>10, <3>1
  <2>13. ASSUME NEW f \in Entries(a)', NEW g \in Entries(a)'
         PROVE  /\ f.version = g.version => f = g
                /\ g.version = f.version + 1 => g.previous = f.next
    <3>1. CASE f \in Entries(a) /\ g \in Entries(a)
      BY Zenon, <2>10, <3>1
    <3>2. CASE f \in Entries(a) /\ g = e
      BY <2>1, <2>4, <2>10, <2>11, <3>2
    <3>3. CASE f = e /\ g \in Entries(a)
      BY <2>1, <2>4, <2>11, <3>3
    <3>4. CASE f = e /\ g = e
      BY <2>1, <2>4, <3>4
    <3> QED
      BY Zenon, <2>7, <3>1, <3>2, <3>3, <3>4
  <2>14. \A f \in Entries(a)' : f.version = v + 1 => f.next = n
    BY <2>1, <2>4, <2>7, <2>11
  <2>15. ASSUME NEW b \in Rows'
         PROVE  /\ {f.version : f \in Entries(b)'} = 1..lifecycle'[b].version
                /\ \A f, g \in Entries(b)' :
                     /\ f.version = g.version => f = g
                     /\ g.version = f.version + 1 => g.previous = f.next
                /\ \A f \in Entries(b)' :
                     f.version = lifecycle'[b].version => f.next = lifecycle'[b].condition
    <3>1. CASE b = a
      BY Zenon, <2>3, <2>5, <2>12, <2>13, <2>14, <3>1
    <3>2. CASE b # a
      BY <1>5, <2>5, <2>8, <3>2 DEF IInv, LedgerIsHistory
    <3> QED
      BY Zenon, <3>1, <3>2
  <2>16. LedgerIsHistory'
    BY Zenon, <2>15 DEF LedgerIsHistory
  <2>17. DeadlinesGrow'
    <3>1. ASSUME NEW b \in Artefact, b # a
          PROVE  lifecycle'[b] = lifecycle[b] /\ Entries(b)' = Entries(b)
      BY Zenon, <2>5, <2>8, <3>1
    <3>2. \A f \in Entries(a) : f.next.retain \in Nat /\ f.next.retain <= c.retain
      BY Zenon, <1>1, <1>3 DEF IInv, TypeOK, Entries, Condition, DeadlinesGrow
    <3>3. c.state # "active" => c.retain <= clock
      BY Zenon, <1>1, <1>3 DEF IInv, DeadlinesGrow
    <3>4. /\ lifecycle'[a].version > 0
          /\ \A f \in Entries(a)' : f.next.retain <= lifecycle'[a].condition.retain
          /\ lifecycle'[a].condition.state # "active" => lifecycle'[a].condition.retain <= clock
          /\ lifecycle'[a].condition.state = "deleted" => ~lifecycle'[a].condition.hold
      <4>1. lifecycle'[a].condition = n /\ lifecycle'[a].version = v + 1
        BY Zenon, <2>3, <2>5
      <4>2. n.state # "active" => n.retain <= clock
        BY <1>1, <1>3, <1>4, <2>2, <3>3
      <4>3. \A f \in Entries(a)' : f.next.retain <= n.retain
        BY <1>4, <2>2, <2>4, <2>7, <3>2
      <4> QED
        BY <2>1, <2>2, <4>1, <4>2, <4>3
    <3> QED
      BY Zenon, <1>1, <1>5, <3>1, <3>4 DEF IInv, DeadlinesGrow
  <2> QED
    BY Zenon, <1>6, <1>7, <2>6, <2>9, <2>16, <2>17 DEF IInv
<1> QED
  BY Zenon, <1>2, <1>8, <1>9 DEF ApplyLifecycle

-----------------------------------------------------------------------------
(* Theorems *)

\* Nothing is stored at first.
LEMMA InitHolds == Init => IInv
<1> SUFFICES ASSUME Init PROVE IInv
  BY Zenon
<1>1. TypeOK
  BY Zenon DEF Init, TypeOK
<1>2. Rows = {} /\ \A a \in Artefact : Entries(a) = {}
  BY Zenon DEF Init, Rows, Entries
<1>3. WritersAreSound /\ CommandsAreSound
  BY Zenon DEF Init, WritersAreSound, CommandsAreSound
<1>4. DeadlinesGrow /\ MetadataIsComplete /\ LedgerIsHistory
  BY Zenon, <1>2 DEF Init, DeadlinesGrow, MetadataIsComplete, LedgerIsHistory
<1> QED
  BY Zenon, <1>1, <1>3, <1>4 DEF IInv

\* Every step keeps the inductive invariant.
LEMMA NextHolds == IInv /\ [Next]_vars => IInv'
<1> SUFFICES ASSUME IInv, [Next]_vars PROVE IInv'
  BY Zenon
<1>1. CASE Tick
  <2>1. clock \in Nat /\ clock' = clock + 1 /\ UNCHANGED <<objects, metadata, lifecycle, ledger, writer, admin>>
    BY Zenon, <1>1 DEF Tick, IInv, TypeOK
  <2>2. TypeOK' /\ WritersAreSound'
    BY <2>1 DEF IInv, TypeOK, WritersAreSound, HasParent, Rows
  <2>3. CommandsAreSound'
    <3>1. \A d \in Admins : admin[d] # None => admin[d].now \in Nat
      BY Zenon DEF IInv, TypeOK, Command
    <3> QED
      BY <2>1, <3>1 DEF IInv, CommandsAreSound, Rows
  <2> QED
    BY <2>1, <2>2, <2>3, RowsUnchanged
<1>2. ASSUME NEW w \in Writers, WriterFails(w) PROVE IInv'
  BY Zenon, <1>2, WriterEnds DEF WriterFails
<1>3. CASE UNCHANGED vars
  <2>1. UNCHANGED <<clock, objects, metadata, lifecycle, ledger, writer, admin>>
    BY Zenon, <1>3 DEF vars
  <2>2. TypeOK' /\ WritersAreSound' /\ CommandsAreSound'
    BY Zenon, <2>1 DEF IInv, TypeOK, WritersAreSound, CommandsAreSound, HasParent, Rows
  <2> QED
    BY <2>1, <2>2, RowsUnchanged DEF IInv, TypeOK
<1> QED
  BY Zenon, <1>1, <1>2, <1>3, PutHolds, PutIfAbsentHolds, CreateMetadataHolds, DecideHolds, BeginHolds,
     ApplyHolds DEF Next

\* The inductive invariant holds in every reachable state.
LEMMA Invariance == Spec => []IInv
BY InitHolds, NextHolds, PTL DEF Spec

\* A metadata row has its object, its lifecycle and its parent, whatever fails
\* between the object store and the database.
THEOREM Complete == Spec => []MetadataIsComplete
<1>1. IInv => MetadataIsComplete
  BY Zenon DEF IInv
<1> QED
  BY Invariance, <1>1, PTL

\* The ledger is the history of the lifecycle row for any number of administrators
\* with versions read earlier.
THEOREM History == Spec => []LedgerIsHistory
<1>1. IInv => LedgerIsHistory
  BY Zenon DEF IInv
<1> QED
  BY Invariance, <1>1, PTL

\* No artefact leaves the active state before all its deadlines, or is deleted
\* under a hold.
THEOREM Waits == Spec => []DeletionWaits
<1>1. IInv => DeletionWaits
  <2> SUFFICES ASSUME IInv, NEW a \in Rows
               PROVE  LET c == lifecycle[a].condition IN
                      /\ c.state # "active" => \A e \in Entries(a) : e.next.retain <= clock
                      /\ c.state = "deleted" => ~c.hold
    BY Zenon DEF DeletionWaits
  <2>1. a \in Artefact /\ clock \in Nat
    BY Zenon DEF Rows, IInv, TypeOK
  <2>2. lifecycle[a].condition.retain \in Nat
    BY Zenon, <2>1 DEF IInv, TypeOK, MetadataIsComplete, Lifecycle, Condition
  <2>3. \A e \in Entries(a) : e.next.retain \in Nat
    BY Zenon DEF IInv, TypeOK, Entries, Condition
  <2> QED
    BY <2>1, <2>2, <2>3 DEF IInv, DeadlinesGrow
<1> QED
  BY Invariance, <1>1, PTL

-----------------------------------------------------------------------------
(* Captures are complete: the inductive invariant *)

\* The stages at which the goroutines of readSSHCommand may exist.
Late == {"collect", "wait", "close", "returned"}
OnlySSHReads ==
  /\ stage \in {"collect", "wait"} => protocol = "ssh"
  /\ stage \notin Late \/ protocol # "ssh" =>
       waiter = "idle" /\ \A s \in Streams : reader[s].state = "idle"

\* The exit status is the command's, and comes after the output where a device
\* orders them so.
StatusIsLast ==
  /\ status # Absent => status = script.exit /\ (script.exitLast => AllArrived)
  /\ waiter = "ok" => status = "ok"

\* A reader that is done is over the limit, or has all that will ever arrive.
ReadersFinish ==
  \A s \in Streams :
    reader[s].state = "done" =>
      reader[s].got > MaximumBytes \/ (reader[s].got = arrived[s] /\ StreamEnded)

\* Results are those of finished readers, and those taken are within the limits.
ResultsAreFinal ==
  /\ \A s \in results : reader[s].state = "done"
  /\ \A s \in taken : reader[s].state = "done" /\ reader[s].got <= MaximumBytes
  /\ stage = "wait" => /\ taken = Streams
                       /\ reader["stdout"].got + reader["stderr"].got <= MaximumBytes

TransportInv ==
  /\ TransportTypeOK /\ Relevant(protocol, script)
  /\ OnlySSHReads /\ StatusIsLast /\ ReadersFinish /\ ResultsAreFinal
  /\ CapturedIsComplete

-----------------------------------------------------------------------------
(* Captures are complete: the steps *)

\* Most steps of the call only move its stage or its connection: the goroutines stay
\* where they are, and a connection that is gone stays gone once they exist.
Moves ==
  /\ UNCHANGED <<protocol, script, wire, goroutines, captured>>
  /\ stage' \in Stages /\ socket' \in {"none", "open", "dead", "closed"}
  /\ bounded' \in BOOLEAN /\ due' \in BOOLEAN /\ cancelled' \in BOOLEAN
  /\ stage' \in {"collect", "wait"} => stage' = stage
  /\ stage \in Late => stage' \in Late
  /\ stage # "dial" /\ StreamEnded => StreamEnded'

\* A step that moves between stages without touching a stream keeps the invariant.
LEMMA MovesStep ==
  ASSUME TransportInv, Moves
  PROVE  TransportInv'
<1> USE DEF TransportInv, Moves, wire, goroutines
<1>1. TransportTypeOK'
  BY Zenon DEF TransportTypeOK
<1>2. OnlySSHReads'
  BY Zenon DEF OnlySSHReads
<1>3. StatusIsLast'
  BY Zenon DEF StatusIsLast, AllArrived, Total
<1>4. ReadersFinish'
  <2> SUFFICES ASSUME NEW s \in Streams, reader[s].state = "done"
               PROVE  reader[s].got > MaximumBytes \/ (reader[s].got = arrived[s] /\ StreamEnded')
    BY Zenon DEF ReadersFinish
  <2>1. stage # "dial"
    BY Zenon DEF OnlySSHReads, Late
  <2> QED
    BY Zenon, <2>1 DEF ReadersFinish
<1>5. ResultsAreFinal'
  BY Zenon DEF ResultsAreFinal
<1>6. Relevant(protocol, script)' /\ CapturedIsComplete'
  BY Zenon DEF Relevant, CapturedIsComplete
<1> QED
  BY Zenon, <1>1, <1>2, <1>3, <1>4, <1>5, <1>6

\* The end of the context or of the connection is such a step.
LEMMA ContextMoves ==
  ASSUME TransportInv, Deadline \/ Cancel \/ Lose
  PROVE  Moves
<1> USE DEF TransportInv, TransportTypeOK, Moves, StreamEnded, wire
<1>1. CASE Deadline
  BY Zenon, <1>1 DEF Deadline
<1>2. CASE Cancel
  BY Zenon, <1>2 DEF Cancel
<1>3. CASE Lose
  BY Zenon, <1>3 DEF Lose
<1> QED
  BY Zenon, <1>1, <1>2, <1>3

\* So is every step of setting up a session.
LEMMA SetupMoves ==
  ASSUME TransportInv,
         \/ Validate \/ Resolve \/ Dial \/ DialFails \/ SetDeadline \/ Handshake
         \/ NextHelloByte \/ Hello \/ Refused \/ WriteRPC
  PROVE  Moves
<1> USE DEF TransportInv, TransportTypeOK, Stages, Moves, StreamEnded, Goto, Setup, Late, wire
<1>1. CASE Validate \/ Resolve \/ DialFails \/ Handshake \/ Hello
  BY <1>1 DEF Validate, Resolve, DialFails, Handshake, Hello
<1>2. CASE Dial
  BY Zenon, <1>2 DEF Dial
<1>3. CASE SetDeadline
  BY Zenon, <1>3 DEF SetDeadline
<1>4. CASE Refused
  BY Zenon, <1>4 DEF Refused, SessionFailsAt, Abandon, GiveUp
<1>5. CASE WriteRPC
  BY Zenon, <1>5 DEF WriteRPC
<1>6. CASE NextHelloByte
  BY Zenon, <1>6 DEF NextHelloByte, GiveUp
<1> QED
  BY Zenon, <1>1, <1>2, <1>3, <1>4, <1>5, <1>6

\* So is a failure.
LEMMA FailMoves ==
  ASSUME TransportInv, NEW from, Fail(from)
  PROVE  Moves
BY Zenon DEF TransportInv, TransportTypeOK, Stages, Moves, StreamEnded, Goto, Fail, Late, wire

\* A step that ends the reading with a payload.
LEMMA ReturnStep ==
  ASSUME TransportInv, NEW from, NEW size \in 0..MaximumBytes, Return(from, size),
         script.exitLast => /\ size = script.stdout /\ size + script.stderr <= MaximumBytes
                            /\ script.exit = "ok" /\ script.reply = "bound"
  PROVE  TransportInv'
<1> USE DEF TransportInv, Return, Goto, wire, goroutines
<1>1. TransportTypeOK'
  BY Zenon DEF TransportTypeOK, Stages
<1>2. OnlySSHReads'
  BY Zenon DEF OnlySSHReads, Late
<1>3. StatusIsLast' /\ ReadersFinish' /\ ResultsAreFinal'
  BY Zenon DEF StatusIsLast, AllArrived, Total, ReadersFinish, StreamEnded, ResultsAreFinal
<1>4. Relevant(protocol, script)' /\ CapturedIsComplete'
  BY Zenon DEF Relevant, CapturedIsComplete
<1> QED
  BY Zenon, <1>1, <1>2, <1>3, <1>4

\* SSH and gNMI return what they read.
LEMMA ReturnSteps ==
  ASSUME TransportInv, AwaitStatus \/ Get
  PROVE  TransportInv'
<1>1. CASE AwaitStatus
  <2>1. CASE waiter = "ok"
    <3>1. stage = "wait" /\ Return("wait", reader["stdout"].got)
      BY Zenon, <1>1, <2>1 DEF AwaitStatus, AwaitStatusAs
    <3>2. /\ protocol = "ssh" /\ status = script.exit /\ status = "ok"
          /\ script.exitLast => AllArrived
      BY Zenon, <2>1, <3>1, TransportAssumption DEF TransportInv, OnlySSHReads, StatusIsLast
    <3>3. \A s \in Streams : reader[s].state = "done" /\ reader[s].got <= MaximumBytes
      BY Zenon, <3>1 DEF TransportInv, ResultsAreFinal
    <3>4. \A s \in Streams : reader[s].got \in Nat /\ arrived[s] \in Nat
      BY TransportAssumption DEF TransportInv, TransportTypeOK
    <3>5. \A s \in Streams : reader[s].got = arrived[s]
      BY <3>3, <3>4, TransportAssumption DEF TransportInv, ReadersFinish
    <3>6. script.exitLast => /\ reader["stdout"].got = script.stdout
                             /\ reader["stderr"].got = script.stderr
      BY Zenon, <3>2, <3>5 DEF AllArrived, Total, Streams
    <3>7. reader["stdout"].got + reader["stderr"].got <= MaximumBytes
      BY Zenon, <3>1 DEF TransportInv, ResultsAreFinal
    <3>8. script.reply = "bound"
      BY Zenon, <3>2 DEF TransportInv, Relevant
    <3>9. reader["stdout"].got \in 0..MaximumBytes
      BY <3>3, <3>4, TransportAssumption DEF Streams
    <3> QED
      BY Zenon, <3>1, <3>2, <3>6, <3>7, <3>8, <3>9, ReturnStep
  <2>2. CASE waiter # "ok"
    BY Zenon, <1>1, <2>2, FailMoves, MovesStep DEF AwaitStatus, AwaitStatusAs
  <2> QED
    BY Zenon, <2>1, <2>2
<1>2. CASE Get
  <2>1. CASE script.exit = "ok" /\ script.stdout <= MaximumBytes
    <3>1. script.stdout \in 0..MaximumBytes
      BY <2>1, TransportAssumption DEF TransportInv, TransportTypeOK, Script
    <3>2. script.stderr = 0 /\ script.reply = "bound"
      BY Zenon, <1>2 DEF Get, TransportInv, Relevant
    <3> QED
      BY <1>2, <2>1, <3>1, <3>2, ReturnStep, TransportAssumption DEF Get
  <2>2. CASE ~(script.exit = "ok" /\ script.stdout <= MaximumBytes)
    BY Zenon, <1>2, <2>2, FailMoves, MovesStep DEF Get
  <2> QED
    BY Zenon, <2>1, <2>2
<1> QED
  BY Zenon, <1>1, <1>2

\* NETCONF reads its reply and returns it.
LEMMA ReplyStep ==
  ASSUME TransportInv, NextReplyByte \/ ReadReply
  PROVE  TransportInv'
<1> DEFINE got == reader["stdout"].got
<1>0. /\ stage \in {"reply", "replyByte"} /\ protocol = "netconf" /\ "stdout" \in Streams
      /\ got \in Nat /\ Total("stdout") = script.stdout + 1 /\ script.stdout \in Nat
      /\ arrived["stdout"] \in 0..(MaxOutput + 1)
      /\ reader \in [Streams -> [state: {"idle", "reading", "done"}, got: 0..(MaxOutput + 1)]]
  BY TransportAssumption DEF NextReplyByte, ReadReply, TransportInv, TransportTypeOK, Script, Streams, Total
<1>1. CASE Fail("reply") \/ Fail("replyByte")
  BY Zenon, <1>1, FailMoves, MovesStep
<1>2. CASE /\ ~(got > NETCONFBound) /\ got = Total("stdout") /\ script.reply = "bound"
           /\ Return("reply", PayloadSize(got))
  <2>1. PayloadSize(got) = script.stdout
    BY <1>0, <1>2 DEF PayloadSize
  <2>2. script.stdout \in 0..MaximumBytes
    BY <1>0, <1>2, TransportAssumption DEF NETCONFBound
  <2>3. script.stderr = 0 /\ script.exit = "ok"
    BY Zenon, <1>0 DEF TransportInv, Relevant
  <2> QED
    BY <1>2, <2>1, <2>2, <2>3, ReturnStep, TransportAssumption
<1>3. CASE Goto("reply", "replyByte") /\ UNCHANGED <<socket, bounded>> /\ Setup
  <2>1. Moves
    BY Zenon, <1>3 DEF TransportInv, TransportTypeOK, Stages, Moves, StreamEnded, Goto, Setup, Late, wire
  <2> QED
    BY Zenon, <2>1, MovesStep
<1>4. CASE /\ got < arrived["stdout"] /\ Goto("replyByte", "reply")
           /\ reader' = [reader EXCEPT !["stdout"].got = @ + 1]
           /\ UNCHANGED <<protocol, script, socket, bounded, due, cancelled, wire,
                          results, taken, waiter, captured>>
  <2>1. /\ \A s \in Streams : reader'[s].state = reader[s].state
        /\ reader' \in [Streams -> [state: {"idle", "reading", "done"}, got: 0..(MaxOutput + 1)]]
    BY <1>0, <1>4, TransportAssumption
  <2>2. TransportTypeOK'
    BY Zenon, <1>4, <2>1 DEF TransportInv, TransportTypeOK, Goto, Stages, wire
  <2>3. \A s \in Streams : reader[s].state = "idle"
    BY Zenon, <1>0 DEF TransportInv, OnlySSHReads
  <2>4. OnlySSHReads' /\ StatusIsLast' /\ ReadersFinish'
    BY Zenon, <1>4, <2>1, <2>3 DEF TransportInv, OnlySSHReads, StatusIsLast, ReadersFinish, AllArrived,
                            Total, Goto, Late, wire
  <2>5. results = {} /\ taken = {}
    BY Zenon, <2>3 DEF TransportInv, ResultsAreFinal, TransportTypeOK
  <2>6. ResultsAreFinal'
    BY Zenon, <1>4, <2>5 DEF ResultsAreFinal, Goto
  <2>7. Relevant(protocol, script)' /\ CapturedIsComplete'
    BY Zenon, <1>4 DEF TransportInv, Relevant, CapturedIsComplete
  <2> QED
    BY Zenon, <2>2, <2>4, <2>6, <2>7 DEF TransportInv
<1> QED
  BY Zenon, <1>1, <1>2, <1>3, <1>4 DEF NextReplyByte, ReadReply

\* The device sends its output and its status.
LEMMA DeviceStep ==
  ASSUME TransportInv, Device
  PROVE  TransportInv'
<1> USE DEF TransportInv, wire, goroutines
<1>1. CASE Lose
  BY Zenon, <1>1, ContextMoves, MovesStep
<1>2. ASSUME NEW s \in Streams, Arrive(s) PROVE TransportInv'
  <2>1. /\ ~StreamEnded /\ arrived[s] < Total(s) /\ arrived' = [arrived EXCEPT ![s] = @ + 1]
        /\ UNCHANGED <<protocol, script, stage, socket, bounded, due, cancelled, status, ended,
                       reader, results, taken, waiter, captured>>
    BY Zenon, <1>2 DEF Arrive, Receiving, StreamEnded
  <2>2. Total(s) \in 0..(MaxOutput + 1)
    BY TransportAssumption DEF TransportTypeOK, Script, Total, Streams
  <2>3. arrived' \in [Streams -> 0..(MaxOutput + 1)]
    BY <2>1, <2>2, TransportAssumption DEF TransportTypeOK
  <2>4. TransportTypeOK'
    BY Zenon, <2>1, <2>3 DEF TransportTypeOK
  <2>5. StatusIsLast'
    <3>1. ~AllArrived
      BY <2>1, <2>2, TransportAssumption DEF AllArrived, TransportTypeOK
    <3> QED
      BY Zenon, <2>1, <3>1 DEF StatusIsLast
  <2>6. ReadersFinish'
    BY Zenon, <2>1 DEF ReadersFinish
  <2>7. OnlySSHReads' /\ ResultsAreFinal'
    BY Zenon, <2>1 DEF OnlySSHReads, ResultsAreFinal
  <2>8. Relevant(protocol, script)' /\ CapturedIsComplete'
    BY Zenon, <2>1 DEF Relevant, CapturedIsComplete
  <2> QED
    BY Zenon, <2>4, <2>5, <2>6, <2>7, <2>8
<1>3. CASE ArriveStatus \/ ChannelClosed
  <2>1. /\ UNCHANGED <<protocol, script, stage, socket, bounded, due, cancelled, arrived, reader,
                       results, taken, waiter, captured>>
        /\ status' \in {"ok", "failed", Absent} /\ ended' \in BOOLEAN
        /\ StreamEnded => StreamEnded'
        /\ status' = status
           \/ (status = Absent /\ status' = script.exit /\ (script.exitLast => AllArrived))
    <3> USE DEF StreamEnded, TransportTypeOK
    <3>1. CASE ArriveStatus
      <4>1. script.exit \in {"ok", "failed"}
        BY Zenon DEF Script
      <4> QED
        BY Zenon, <3>1, <4>1 DEF ArriveStatus
    <3>2. CASE ChannelClosed
      BY Zenon, <3>2 DEF ChannelClosed
    <3> QED
      BY ONLY <1>3, <3>1, <3>2
  <2>2. TransportTypeOK'
    BY Zenon, <2>1 DEF TransportTypeOK
  <2>3. StatusIsLast'
    BY Zenon, <2>1, TransportAssumption DEF StatusIsLast, AllArrived, Total
  <2>4. ReadersFinish'
    BY Zenon, <2>1 DEF ReadersFinish
  <2>5. OnlySSHReads' /\ ResultsAreFinal'
    BY Zenon, <2>1 DEF OnlySSHReads, ResultsAreFinal
  <2>6. Relevant(protocol, script)' /\ CapturedIsComplete'
    BY Zenon, <2>1 DEF Relevant, CapturedIsComplete
  <2> QED
    BY Zenon, <2>2, <2>3, <2>4, <2>5, <2>6
<1> QED
  BY Zenon, <1>1, <1>2, <1>3 DEF Device

\* The goroutines of readSSHCommand, from their start to their results.
LEMMA ReadersStep ==
  ASSUME TransportInv, Session \/ Goroutines
  PROVE  TransportInv'
<1> USE DEF TransportInv, wire, goroutines
<1> DEFINE Readers == [Streams -> [state: {"idle", "reading", "done"}, got: 0..(MaxOutput + 1)]]
<1>0. reader \in Readers
  BY Zenon DEF TransportTypeOK
<1>1. CASE Session /\ protocol # "ssh"
  <2>1. Moves
    BY Zenon, <1>1 DEF Session, Moves, Goto, TransportTypeOK, Stages, StreamEnded, Late
  <2> QED
    BY Zenon, <2>1, MovesStep
<1>2. CASE Session /\ protocol = "ssh"
  <2>1. /\ UNCHANGED <<protocol, script, socket, bounded, due, cancelled, wire, results, taken,
                       captured>>
        /\ stage = "session" /\ stage' = "collect" /\ waiter' = "waiting"
        /\ reader' = [s \in Streams |-> [state |-> "reading", got |-> 0]]
    BY Zenon, <1>2 DEF Session, Goto
  <2>2. reader' \in Readers
    BY <2>1, TransportAssumption
  <2>3. TransportTypeOK'
    BY Zenon, <2>1, <2>2 DEF TransportTypeOK, Stages
  <2>4. results = {} /\ taken = {}
    BY Zenon, <2>1 DEF OnlySSHReads, ResultsAreFinal, TransportTypeOK, Late
  <2>5. OnlySSHReads' /\ ReadersFinish' /\ ResultsAreFinal'
    BY Zenon, <1>2, <2>1, <2>4 DEF OnlySSHReads, Late, ReadersFinish, ResultsAreFinal
  <2>6. StatusIsLast'
    BY Zenon, <2>1 DEF StatusIsLast, AllArrived, Total
  <2>7. Relevant(protocol, script)' /\ CapturedIsComplete'
    BY Zenon, <2>1 DEF Relevant, CapturedIsComplete
  <2> QED
    BY Zenon, <2>3, <2>5, <2>6, <2>7
<1>3. ASSUME NEW s \in Streams, Read(s) PROVE TransportInv'
  <2>1. /\ reader[s].state = "reading" /\ reader[s].got < arrived[s]
        /\ UNCHANGED <<protocol, script, stage, socket, bounded, due, cancelled, wire, results,
                       taken, waiter, captured>>
        /\ reader' = [reader EXCEPT ![s].got = @ + 1]
    BY Zenon, <1>3 DEF Read
  <2>2. /\ \A t \in Streams : reader'[t].state = reader[t].state
        /\ \A t \in Streams : reader[t].state # "reading" => reader'[t] = reader[t]
        /\ reader' \in Readers
    BY <1>0, <2>1, TransportAssumption DEF TransportTypeOK
  <2>3. TransportTypeOK'
    BY Zenon, <2>1, <2>2 DEF TransportTypeOK
  <2>4. OnlySSHReads' /\ ReadersFinish'
    BY Zenon, <2>1, <2>2 DEF OnlySSHReads, ReadersFinish, StreamEnded
  <2>5. \A t \in results \cup taken : t \in Streams /\ reader'[t] = reader[t]
    BY Zenon, <2>2 DEF ResultsAreFinal, TransportTypeOK
  <2>6. ResultsAreFinal'
    BY Zenon, <2>1, <2>5 DEF ResultsAreFinal, Streams
  <2>7. protocol = "ssh"
    BY Zenon, <2>1 DEF OnlySSHReads
  <2>8. StatusIsLast'
    BY Zenon, <2>1, <2>7 DEF StatusIsLast, AllArrived, Total
  <2>9. Relevant(protocol, script)' /\ CapturedIsComplete'
    BY Zenon, <2>1 DEF Relevant, CapturedIsComplete
  <2> QED
    BY Zenon, <2>3, <2>4, <2>6, <2>8, <2>9
<1>4. ASSUME NEW s \in Streams, Report(s) PROVE TransportInv'
  <2>1. /\ reader[s].state = "reading"
        /\ reader[s].got > MaximumBytes \/ (reader[s].got = arrived[s] /\ StreamEnded)
        /\ UNCHANGED <<protocol, script, stage, socket, bounded, due, cancelled, wire, taken,
                       waiter, captured>>
        /\ reader' = [reader EXCEPT ![s].state = "done"] /\ results' = results \cup {s}
    BY Zenon, <1>4 DEF Report
  <2>2. /\ \A t \in Streams : reader'[t].got = reader[t].got
        /\ \A t \in Streams : reader'[t].state = IF t = s THEN "done" ELSE reader[t].state
        /\ reader' \in Readers
    BY Zenon, <1>0, <2>1
  <2>3. TransportTypeOK'
    BY Zenon, <2>1, <2>2 DEF TransportTypeOK
  <2>4. OnlySSHReads' /\ ReadersFinish'
    BY Zenon, <2>1, <2>2 DEF OnlySSHReads, ReadersFinish, StreamEnded
  <2>5. ResultsAreFinal'
    BY Zenon, <2>1, <2>2 DEF ResultsAreFinal, TransportTypeOK, Streams
  <2>6. StatusIsLast'
    BY Zenon, <2>1, <2>2 DEF StatusIsLast, AllArrived, Total, Streams
  <2>7. Relevant(protocol, script)' /\ CapturedIsComplete'
    BY Zenon, <2>1 DEF Relevant, CapturedIsComplete
  <2> QED
    BY Zenon, <2>3, <2>4, <2>5, <2>6, <2>7
<1>5. CASE WaitReturns
  <2>1. /\ UNCHANGED <<protocol, script, stage, socket, bounded, due, cancelled, wire, reader,
                       results, taken, captured>>
        /\ waiter = "waiting" /\ waiter' = IF status = "ok" THEN "ok" ELSE "failed"
    BY Zenon, <1>5 DEF WaitReturns
  <2>2. TransportTypeOK'
    BY Zenon, <2>1 DEF TransportTypeOK
  <2>3. OnlySSHReads' /\ StatusIsLast'
    BY Zenon, <2>1 DEF OnlySSHReads, StatusIsLast, AllArrived, Total
  <2>4. ReadersFinish' /\ ResultsAreFinal'
    BY Zenon, <2>1 DEF ReadersFinish, StreamEnded, ResultsAreFinal
  <2>5. Relevant(protocol, script)' /\ CapturedIsComplete'
    BY Zenon, <2>1 DEF Relevant, CapturedIsComplete
  <2> QED
    BY Zenon, <2>2, <2>3, <2>4, <2>5
<1> QED
  BY Zenon, <1>1, <1>2, <1>3, <1>4, <1>5 DEF Goroutines

\* The result of one reader is taken.
LEMMA CollectStep ==
  ASSUME TransportInv, NEW s \in Streams, Collect(s)
  PROVE  TransportInv'
<1> USE DEF TransportInv, wire
<1>1. /\ UNCHANGED <<protocol, script, socket, bounded, due, cancelled, wire, reader, waiter,
                     captured>>
      /\ stage = "collect" /\ stage' \in {"collect", "wait", "close"} /\ s \in results
      /\ results' \subseteq results
      /\ taken' = taken \/ (taken' = taken \cup {s} /\ ~(reader[s].got > MaximumBytes))
      /\ stage' = "wait" =>
           taken' = Streams /\ ~(reader["stdout"].got + reader["stderr"].got > MaximumBytes)
  BY Zenon DEF Collect
<1>2. \A t \in Streams : reader[t].got \in Nat
  BY TransportAssumption DEF TransportTypeOK
<1>3. TransportTypeOK'
  BY <1>1 DEF TransportTypeOK, Stages
<1>4. OnlySSHReads'
  BY Zenon, <1>1 DEF OnlySSHReads, Late
<1>5. ResultsAreFinal'
  <2>1. \A t \in results' : reader'[t].state = "done"
    BY Zenon, <1>1 DEF ResultsAreFinal
  <2>2. \A t \in taken' : reader'[t].state = "done" /\ reader'[t].got <= MaximumBytes
    BY <1>1, <1>2, TransportAssumption DEF ResultsAreFinal
  <2>3. stage' = "wait" => /\ taken' = Streams
                           /\ reader'["stdout"].got + reader'["stderr"].got <= MaximumBytes
    BY <1>1, <1>2, TransportAssumption DEF Streams
  <2> QED
    BY Zenon, <2>1, <2>2, <2>3 DEF ResultsAreFinal
<1>6. StatusIsLast' /\ ReadersFinish'
  BY Zenon, <1>1 DEF StatusIsLast, AllArrived, Total, ReadersFinish, StreamEnded
<1>7. Relevant(protocol, script)' /\ CapturedIsComplete'
  BY Zenon, <1>1 DEF Relevant, CapturedIsComplete
<1> QED
  BY Zenon, <1>3, <1>4, <1>5, <1>6, <1>7

\* The session is closed, or the stub answers.
LEMMA EndStep ==
  ASSUME TransportInv, Close \/ StubExecute
  PROVE  TransportInv'
<1> USE DEF TransportInv, wire, goroutines
<1>1. /\ UNCHANGED <<protocol, script, bounded, due, cancelled, wire, goroutines>>
      /\ stage' = "returned" /\ socket' \in {"none", "open", "dead", "closed"}
      /\ StreamEnded => StreamEnded'
  BY DEF Close, StubExecute, Goto, StreamEnded, TransportTypeOK
<1>2. \/ captured' \in {captured, Absent}
      \/ protocol = "stub" /\ captured' = script.stdout /\ ~(script.stdout > MaximumBytes)
  BY Zenon DEF Close, StubExecute
<1>3. script.stdout \in Nat
  BY TransportAssumption DEF TransportTypeOK, Script
<1>4. captured' \in 0..MaximumBytes \cup {Absent}
  BY <1>2, <1>3, TransportAssumption DEF TransportTypeOK
<1>5. TransportTypeOK'
  BY Zenon, <1>1, <1>4 DEF TransportTypeOK, Stages
<1>6. OnlySSHReads' /\ ResultsAreFinal'
  BY Zenon, <1>1 DEF OnlySSHReads, Late, ResultsAreFinal
<1>7. StatusIsLast' /\ ReadersFinish'
  BY Zenon, <1>1 DEF StatusIsLast, AllArrived, Total, ReadersFinish
<1>8. Relevant(protocol, script)'
  BY Zenon, <1>1 DEF Relevant
<1>9. CapturedIsComplete'
  <2>1. CASE captured' \in {captured, Absent}
    BY Zenon, <1>1, <2>1 DEF CapturedIsComplete
  <2>2. CASE protocol = "stub" /\ captured' = script.stdout /\ ~(script.stdout > MaximumBytes)
    BY <1>1, <1>3, <2>2, TransportAssumption DEF CapturedIsComplete, Relevant
  <2> QED
    BY Zenon, <1>2, <2>1, <2>2
<1> QED
  BY Zenon, <1>5, <1>6, <1>7, <1>8, <1>9

\* Every step keeps the invariant of the adapters.
LEMMA TransportStep ==
  ASSUME TransportInv, [TransportNext]_transportVars
  PROVE  TransportInv'
<1>1. CASE Deadline \/ Cancel \/ SocketDeadline
  BY Zenon, <1>1, ContextMoves, MovesStep DEF SocketDeadline
<1>2. CASE Device
  BY Zenon, <1>2, DeviceStep
<1>3. CASE Goroutines \/ Session
  BY Zenon, <1>3, ReadersStep
<1>4. CASE Answered /\ ~Session
  BY Zenon, <1>4, SetupMoves, ReturnSteps, MovesStep DEF Answered
<1>5. CASE Local
  <2>1. CASE Broken
    BY Zenon, <2>1, SetupMoves, MovesStep DEF Broken
  <2>2. CASE GetFails \/ WriteFails \/ Interrupted
    BY Zenon, <2>2, FailMoves, MovesStep DEF GetFails, WriteFails, Interrupted
  <2>3. CASE Validate \/ Resolve \/ SetDeadline \/ NextHelloByte \/ DialFails
    BY Zenon, <2>3, SetupMoves, MovesStep
  <2>4. CASE \/ NextReplyByte \/ ReadReply \/ AwaitStatus \/ Close \/ StubExecute
             \/ \E s \in Streams : Collect(s)
    BY Zenon, <2>4, ReplyStep, ReturnSteps, EndStep, CollectStep
  <2> QED
    BY Zenon, <1>5, <2>1, <2>2, <2>3, <2>4 DEF Local
<1>6. CASE UNCHANGED transportVars
  <2>1. Moves
    BY Zenon, <1>6 DEF transportVars, Moves, wire, goroutines, StreamEnded, TransportInv, TransportTypeOK
  <2> QED
    BY Zenon, <2>1, MovesStep
<1> QED
  BY Zenon, <1>1, <1>2, <1>3, <1>4, <1>5, <1>6 DEF TransportNext, Execute

\* The invariant of the adapters holds at the start.
LEMMA TransportStart ==
  ASSUME TransportInit
  PROVE  TransportInv
<1> USE DEF TransportInit
<1>1. TransportTypeOK
  <2>1. /\ arrived \in [Streams -> 0..(MaxOutput + 1)]
        /\ reader \in [Streams -> [state: {"idle", "reading", "done"}, got: 0..(MaxOutput + 1)]]
    BY TransportAssumption
  <2>2. protocol \in Protocols /\ script \in Script /\ stage \in Stages
    BY Zenon DEF Stages
  <2>3. /\ socket \in {"none", "open", "dead", "closed"} /\ status \in {"ok", "failed", Absent}
        /\ {bounded, due, cancelled, ended} \subseteq BOOLEAN
        /\ results \subseteq Streams /\ taken \subseteq Streams
        /\ waiter \in {"idle", "waiting", "failed", "ok"} /\ captured \in 0..MaximumBytes \cup {Absent}
    BY Zenon
  <2> QED
    BY Zenon, <2>1, <2>2, <2>3 DEF TransportTypeOK
<1>2. OnlySSHReads /\ StatusIsLast /\ ReadersFinish /\ ResultsAreFinal
  BY Zenon DEF OnlySSHReads, Late, StatusIsLast, ReadersFinish, ResultsAreFinal
<1>3. CapturedIsComplete /\ Relevant(protocol, script)
  BY Zenon, TransportAssumption DEF CapturedIsComplete
<1> QED
  BY Zenon, <1>1, <1>2, <1>3 DEF TransportInv

\* Types, and what the stages, streams, results and exit status of Execute say of each
\* other, hold whatever the device and the caller do and the goroutines' order is.
THEOREM TransportInvariant == TransportSpec => []TransportInv
BY TransportStart, TransportStep, PTL DEF TransportSpec

\* A payload that Execute returns is the whole output of a command that succeeded,
\* within the limits, for every limit and every size of the output.
THEOREM CapturesAreComplete == TransportSpec => []CapturedIsComplete
<1>1. TransportInv => CapturedIsComplete
  BY Zenon DEF TransportInv
<1> QED
  BY <1>1, TransportInvariant, PTL
=============================================================================
