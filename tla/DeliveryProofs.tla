--------------------------- MODULE DeliveryProofs ---------------------------
(***************************************************************************)
(* What is delivered is recorded.  For every set of events and             *)
(* dispatchers, every lease, batch and attempt limit, and every clock      *)
(* difference: what is published is in the stream for good, and a replay   *)
(* is audited.  For every set of actors, evidence, decisions, requests,    *)
(* calls, signing providers and managers: what a caller was given is       *)
(* receipted and was permitted, and receipts verify under every            *)
(* configuration that accepts the one that made them.                      *)
(***************************************************************************)
EXTENDS Outbox, Disclosure, FiniteSetTheorems, TLAPS

-----------------------------------------------------------------------------
(* Events: the inductive invariant *)

Held(d) == disp[d].todo \cup ({disp[d].current} \ {None})

\* A result belongs to a record, and an acknowledged record is in the stream.
ResultInv ==
  \A d \in Dispatchers :
    /\ disp[d].result # "none" => disp[d].current # None
    /\ disp[d].result = "acknowledged" => disp[d].current.event \in stream

\* As long as a row is leased to d, the attempt count that d remembers for it
\* is the count of the row: the owner column alone fences stale counts.
CountInv ==
  \A d \in Dispatchers : \A record \in Held(d) :
    row[record.event].owner = d => row[record.event].attempts = record.attempts

OutboxInv ==
  /\ OutboxTypeOK /\ ResultInv /\ CountInv
  /\ PublishedIsInStream /\ DeadLetteredWasExhausted /\ EveryReplayIsAudited

\* The initial state satisfies the invariant.
LEMMA InitInv == OutboxInit => OutboxInv
<1> SUFFICES ASSUME OutboxInit PROVE OutboxInv
  BY Zenon
<1> USE OutboxAssumption
<1>1. NoRow \in Row /\ Waiting \in Dispatcher
  BY DEF NoRow, Row, Waiting, Dispatcher
<1>2. OutboxTypeOK
  BY Zenon, <1>1 DEF OutboxInit, OutboxTypeOK
<1>3. \A d \in Dispatchers : Held(d) = {} /\ disp[d].result = "none"
  BY Zenon DEF OutboxInit, Waiting, Held
<1>4. \A e \in Events : row[e].state = "absent" /\ {k \in Keys : actions[k] = e} = {}
  BY Zenon DEF OutboxInit, NoRow
<1>5. EveryReplayIsAudited
  BY Zenon, <1>4, FS_EmptySet DEF OutboxInit, EveryReplayIsAudited
<1> QED BY Zenon, <1>2, <1>3, <1>4, <1>5
  DEF OutboxInv, ResultInv, CountInv, PublishedIsInStream, DeadLetteredWasExhausted

-----------------------------------------------------------------------------
(* Steps *)

\* A change of one row, field by field.
LEMMA RowUpdate ==
  ASSUME OutboxTypeOK, NEW e \in Events, NEW q \in Row, row' = [row EXCEPT ![e] = q]
  PROVE  /\ row' \in [Events -> Row]
         /\ row'[e] = q /\ \A f \in Events : f # e => row'[f] = row[f]
BY Zenon DEF OutboxTypeOK

\* A change of one dispatcher.
LEMMA DispUpdate ==
  ASSUME OutboxTypeOK, NEW d \in Dispatchers, NEW q \in Dispatcher, disp' = [disp EXCEPT ![d] = q]
  PROVE  /\ disp' \in [Dispatchers -> Dispatcher]
         /\ disp'[d] = q /\ \A c \in Dispatchers : c # d => disp'[c] = disp[c]
BY Zenon DEF OutboxTypeOK

\* A dispatcher holds typed records.
LEMMA HeldRecords ==
  ASSUME OutboxTypeOK, NEW d \in Dispatchers
  PROVE  Held(d) \subseteq Record
BY Zenon DEF OutboxTypeOK, Held, Dispatcher

\* Time and crashes change no count, owner or state.
LEMMA TickInv == ASSUME OutboxInv, Tick PROVE OutboxInv'
<1> USE DEF OutboxInv
<1>1. ASSUME NEW e \in Events
      PROVE  /\ row'[e] \in Row
             /\ row'[e].state = row[e].state /\ row'[e].owner = row[e].owner
             /\ row'[e].attempts = row[e].attempts
  <2>1. row[e] \in Row
    BY Zenon DEF OutboxTypeOK
  <2>2. row[e].lease \in Int /\ row[e].wait \in Nat
    BY Zenon, <2>1 DEF Row
  <2> DEFINE l == IF row[e].owner = None THEN row[e].lease ELSE Down(row[e].lease, -Skew)
             w == Down(row[e].wait, 0)
             q == [row[e] EXCEPT !.lease = l, !.wait = w]
  <2>3. l \in Int /\ w \in Nat
    <3>1. -Skew \in Int
      BY OutboxAssumption
    <3>2. \A m, n \in Int : Down(m, n) \in Int
      BY DEF Down
    <3>3. w \in Nat
      BY <2>2 DEF Down
    <3> QED BY Zenon, <2>2, <3>1, <3>2, <3>3
  <2>4. row'[e] = q
    BY Zenon DEF Tick
  <2> HIDE DEF l, w
  <2>5. q \in Row /\ q.state = row[e].state /\ q.owner = row[e].owner
          /\ q.attempts = row[e].attempts
    BY <2>1, <2>3, Zenon DEF Row
  <2> QED BY Zenon, <2>4, <2>5
<1>2. row' \in [Events -> Row]
  BY Zenon, <1>1 DEF Tick
<1>3. faults' \in Nat
  <2>1. Fault \/ UNCHANGED faults
    BY Zenon DEF Tick
  <2> QED BY <2>1 DEF Fault, OutboxTypeOK
<1>4. UNCHANGED <<actions, disp, stream, revived>>
  BY Zenon DEF Tick
<1>5. OutboxTypeOK'
  BY Zenon, <1>2, <1>3, <1>4 DEF OutboxTypeOK
<1>6. \A d \in Dispatchers : Held(d)' = Held(d) /\ Held(d) \subseteq Record
  BY Zenon, <1>4, HeldRecords DEF Held
<1>7. CountInv'
  BY <1>1, <1>6 DEF CountInv, Record
<1>8. ResultInv' /\ PublishedIsInStream' /\ DeadLetteredWasExhausted' /\ EveryReplayIsAudited'
  BY Zenon, <1>1, <1>4 DEF ResultInv, PublishedIsInStream, DeadLetteredWasExhausted, EveryReplayIsAudited
<1> QED BY Zenon, <1>5, <1>7, <1>8

\* A restarted dispatcher remembers nothing.
LEMMA CrashInv == ASSUME OutboxInv, NEW d \in Dispatchers, Crash(d) PROVE OutboxInv'
<1> USE DEF OutboxInv
<1>1. Waiting \in Dispatcher /\ Waiting.result = "none" /\ Waiting.current = None /\ Waiting.todo = {}
  BY Zenon DEF Waiting, Dispatcher
<1>2. /\ disp' \in [Dispatchers -> Dispatcher]
      /\ disp'[d] = Waiting /\ \A c \in Dispatchers : c # d => disp'[c] = disp[c]
  BY Zenon, <1>1, DispUpdate DEF Crash
<1>3. \A c \in Dispatchers : Held(c)' \subseteq Held(c)
  BY Zenon, <1>1, <1>2 DEF Held
<1>4. UNCHANGED <<row, actions, stream, revived>> /\ faults' \in Nat
  BY DEF Crash, Fault, OutboxTypeOK
<1> QED BY <1>1, <1>2, <1>3, <1>4
  DEF OutboxTypeOK, ResultInv, CountInv, PublishedIsInStream, DeadLetteredWasExhausted, EveryReplayIsAudited

\* A new row is unleased.
LEMMA AppendInv == ASSUME OutboxInv, NEW e \in Events, Append(e) PROVE OutboxInv'
<1> USE DEF OutboxInv
<1> DEFINE q == [row[e] EXCEPT !.state = "pending"]
<1>1. row[e] \in Row
  BY Zenon DEF OutboxTypeOK
<1>2. q \in Row /\ q.state = "pending" /\ q.owner = row[e].owner /\ q.attempts = row[e].attempts
  BY <1>1, Zenon DEF Row
<1>3. row' = [row EXCEPT ![e] = q]
  BY Zenon DEF Append
<1> HIDE DEF q
<1>4. row' \in [Events -> Row] /\ row'[e] = q /\ \A f \in Events : f # e => row'[f] = row[f]
  BY Zenon, <1>2, <1>3, RowUpdate
<1>5. UNCHANGED <<actions, disp, stream, faults, revived>>
  BY Zenon DEF Append
<1>6. \A d \in Dispatchers : Held(d)' = Held(d) /\ Held(d) \subseteq Record
  BY Zenon, <1>5, HeldRecords DEF Held
<1>7. CountInv'
  BY <1>2, <1>4, <1>6 DEF CountInv, Record
<1> QED BY <1>2, <1>4, <1>5, <1>7
  DEF OutboxTypeOK, ResultInv, PublishedIsInStream, DeadLetteredWasExhausted, EveryReplayIsAudited

\* A claim replaces owner and count of the rows that the dispatcher then holds.
LEMMA ClaimInv == ASSUME OutboxInv, NEW d \in Dispatchers, Claim(d) PROVE OutboxInv'
<1> USE DEF OutboxInv
<1> DEFINE batch == FirstBySequence({e \in Events : Claimable(e)}, BatchSize)
           todo == {[event |-> e, attempts |-> NextAttempt(e)] : e \in batch}
<1>1. batch \subseteq Events /\ \A e \in batch : row[e].state = "pending"
  BY Zenon DEF FirstBySequence, Claimable
<1>2. \A e \in Events : NextAttempt(e) \in 1..MaxAttempts
  BY OutboxAssumption DEF NextAttempt, OutboxTypeOK, Row
<1>3. ~Busy(d) /\ row' = [e \in Events |->
       IF e \in batch
       THEN [row[e] EXCEPT !.owner = d, !.lease = Lease, !.attempts = NextAttempt(e)]
       ELSE row[e]] /\ disp' = [disp EXCEPT ![d].todo = todo]
  BY Zenon DEF Claim
<1>4. UNCHANGED <<actions, stream, faults, revived>>
  BY Zenon DEF Claim
<1> HIDE DEF batch
<1>5. ASSUME NEW e \in Events
      PROVE  /\ row'[e] \in Row /\ row'[e].state = row[e].state
             /\ e \in batch => row'[e].owner = d /\ row'[e].attempts = NextAttempt(e)
             /\ e \notin batch => row'[e] = row[e]
  <2> DEFINE n == NextAttempt(e)
             q == [row[e] EXCEPT !.owner = d, !.lease = Lease, !.attempts = n]
  <2>1. row[e] \in Row /\ Lease \in Int /\ n \in 0..MaxAttempts
    BY <1>2, OutboxAssumption DEF OutboxTypeOK
  <2>2. row'[e] = IF e \in batch THEN q ELSE row[e]
    BY Zenon, <1>3
  <2> HIDE DEF n
  <2>3. q \in Row /\ q.state = row[e].state /\ q.owner = d /\ q.attempts = n
    BY <2>1, Zenon DEF Row
  <2> QED BY Zenon, <2>1, <2>2, <2>3 DEF n
<1>6. row' \in [Events -> Row]
  BY Zenon, <1>3, <1>5
<1>7. todo \in SUBSET Record
  BY <1>1, <1>2 DEF Record
<1> DEFINE p == [disp[d] EXCEPT !.todo = todo]
<1>8. disp[d] \in Dispatcher /\ disp[d].current = None /\ disp[d].todo = {}
  BY Zenon, <1>3 DEF Busy, OutboxTypeOK
<1>9. disp' = [disp EXCEPT ![d] = p]
  BY Zenon, <1>3
<1> HIDE DEF todo
<1>10. p \in Dispatcher /\ p.todo = todo /\ p.current = disp[d].current /\ p.result = disp[d].result
  BY <1>7, <1>8, Zenon DEF Dispatcher
<1> HIDE DEF p
<1>11. /\ disp' \in [Dispatchers -> Dispatcher]
       /\ disp'[d] = p /\ \A c \in Dispatchers : c # d => disp'[c] = disp[c]
  BY Zenon, <1>9, <1>10, DispUpdate
<1>12. OutboxTypeOK'
  BY Zenon, <1>4, <1>6, <1>11 DEF OutboxTypeOK
<1>13. CountInv'
  <2> SUFFICES ASSUME NEW c \in Dispatchers, NEW record \in Held(c)', row'[record.event].owner = c
               PROVE  row'[record.event].attempts = record.attempts
    BY Zenon DEF CountInv
  <2>1. CASE c = d
    <3>1. record \in todo
      BY Zenon, <1>8, <1>10, <1>11, <2>1 DEF Held
    <3>2. PICK e \in batch : record = [event |-> e, attempts |-> NextAttempt(e)]
      BY Zenon, <3>1 DEF todo
    <3> QED BY Zenon, <1>1, <1>5, <3>2
  <2>2. CASE c # d
    <3>1. record \in Held(c) /\ record \in Record
      BY Zenon, <1>11, <2>2, HeldRecords DEF Held
    <3>2. record.event \in Events
      BY Zenon, <3>1 DEF Record
    <3>3. record.event \notin batch
      BY Zenon, <1>5, <2>2, <3>2
    <3> QED BY Zenon, <1>5, <3>1, <3>2, <3>3 DEF CountInv
  <2> QED BY Zenon, <2>1, <2>2
<1>14. ResultInv'
  BY Zenon, <1>4, <1>10, <1>11 DEF ResultInv
<1>15. PublishedIsInStream' /\ DeadLetteredWasExhausted' /\ EveryReplayIsAudited'
  BY Zenon, <1>1, <1>4, <1>5 DEF PublishedIsInStream, DeadLetteredWasExhausted, EveryReplayIsAudited
<1> QED BY Zenon, <1>12, <1>13, <1>14, <1>15

\* Publishing moves a record from todo to current.
LEMMA PublishInv == ASSUME OutboxInv, NEW d \in Dispatchers, Publish(d) PROVE OutboxInv'
<1> USE DEF OutboxInv
<1>1. PICK record \in disp[d].todo, result \in {"acknowledged", "failed"} :
        /\ disp' = [disp EXCEPT ![d] = [disp[d] EXCEPT !.todo = disp[d].todo \ {record},
                       !.current = record, !.result = result]]
        /\ result = "acknowledged" => record.event \in stream'
  <2>1. PICK record \in disp[d].todo :
       \/ /\ disp' = [disp EXCEPT ![d] =
               [@ EXCEPT !.todo = disp[d].todo \ {record}, !.current = record,
                         !.result = "acknowledged"]]
          /\ stream' = stream \cup {record.event}
       \/ disp' = [disp EXCEPT ![d] =
               [@ EXCEPT !.todo = disp[d].todo \ {record}, !.current = record,
                         !.result = "failed"]]
    BY Zenon DEF Publish
  <2> QED BY Zenon, <2>1
<1> DEFINE p == [disp[d] EXCEPT !.todo = disp[d].todo \ {record},
                       !.current = record, !.result = result]
<1>2. disp[d] \in Dispatcher
  BY Zenon DEF OutboxTypeOK
<1>3. disp[d].todo \in SUBSET Record
  BY Zenon, <1>2 DEF Dispatcher
<1>4. record \in Record /\ disp[d].todo \ {record} \in SUBSET Record
  BY Zenon, <1>3
<1>5. p \in Dispatcher /\ p.todo = disp[d].todo \ {record} /\ p.current = record /\ p.result = result
  BY <1>2, <1>4, Zenon DEF Dispatcher
<1>6. disp' = [disp EXCEPT ![d] = p]
  BY Zenon, <1>1
<1> HIDE DEF p
<1>7. /\ disp' \in [Dispatchers -> Dispatcher]
      /\ disp'[d] = p /\ \A c \in Dispatchers : c # d => disp'[c] = disp[c]
  BY Zenon, <1>5, <1>6, DispUpdate
<1>8. \A c \in Dispatchers : Held(c)' \subseteq Held(c)
  BY Zenon, <1>5, <1>7 DEF Held
<1>9. UNCHANGED <<row, actions, faults, revived>>
  BY Zenon DEF Publish
<1>10. stream \subseteq stream' /\ stream' \in SUBSET Events
  <2>1. record.event \in Events
    BY Zenon, <1>4 DEF Record
  <2>2. \A x \in disp[d].todo : x.event \in Events
    BY Zenon, <1>3 DEF Record
  <2> QED BY Zenon, <2>2 DEF Publish, OutboxTypeOK
<1>12. OutboxTypeOK'
  BY Zenon, <1>7, <1>9, <1>10 DEF OutboxTypeOK
<1>13. ResultInv'
  <2>1. \A c \in Dispatchers : c # d =>
          /\ disp'[c].result # "none" => disp'[c].current # None
          /\ disp'[c].result = "acknowledged" => disp'[c].current.event \in stream'
    BY Zenon, <1>7, <1>10 DEF ResultInv
  <2>2. record # None
    BY Zenon, <1>4, NoneAssumption
  <2> QED BY Zenon, <1>1, <1>5, <1>7, <2>1, <2>2 DEF ResultInv
<1>14. CountInv'
  BY Zenon, <1>8, <1>9 DEF CountInv
<1> QED BY Zenon, <1>9, <1>10, <1>12, <1>13, <1>14
  DEF PublishedIsInStream, DeadLetteredWasExhausted, EveryReplayIsAudited

\* A guarded update that releases the row, or a lost lease.
LEMMA SettleInv ==
  ASSUME OutboxInv, NEW d \in Dispatchers, NEW e \in Events, NEW q \in Row,
         UpdateLease(e, d, q), Done(d), q.owner = None,
         MayUpdate(e, d) /\ q.state = "published" => e \in stream,
         MayUpdate(e, d) /\ q.state = "dead" => q.attempts = MaxAttempts,
         UNCHANGED <<actions, stream, faults, revived>>
  PROVE  OutboxInv'
<1> USE DEF OutboxInv
<1> DEFINE p == [disp[d] EXCEPT !.current = None, !.result = "none"]
<1>1. disp[d] \in Dispatcher
  BY Zenon DEF OutboxTypeOK
<1>2. p \in Dispatcher /\ p.todo = disp[d].todo /\ p.current = None /\ p.result = "none"
  BY <1>1, Zenon DEF Dispatcher
<1>3. disp' = [disp EXCEPT ![d] = p]
  BY Zenon DEF Done
<1> HIDE DEF p
<1>4. /\ disp' \in [Dispatchers -> Dispatcher]
      /\ disp'[d] = p /\ \A c \in Dispatchers : c # d => disp'[c] = disp[c]
  BY Zenon, <1>2, <1>3, DispUpdate
<1>5. \A c \in Dispatchers : Held(c)' \subseteq Held(c) /\ Held(c) \subseteq Record
  BY Zenon, <1>2, <1>4, HeldRecords DEF Held
<1>6. /\ row' \in [Events -> Row]
      /\ \A f \in Events : f # e => row'[f] = row[f]
      /\ row'[e] = row[e] \/ (MayUpdate(e, d) /\ row'[e] = q)
  <2>1. CASE UNCHANGED row
    BY Zenon, <2>1 DEF OutboxTypeOK
  <2>2. CASE MayUpdate(e, d) /\ row' = [row EXCEPT ![e] = q]
    BY Zenon, <2>2, RowUpdate
  <2> QED BY Zenon, <2>1, <2>2 DEF UpdateLease
<1>7. OutboxTypeOK'
  BY Zenon, <1>4, <1>6 DEF OutboxTypeOK
<1>8. ResultInv'
  BY Zenon, <1>2, <1>4 DEF ResultInv
<1>9. None \notin Dispatchers
  BY Zenon, OutboxAssumption
<1>10. CountInv'
  BY <1>5, <1>6, <1>9 DEF CountInv, Record
<1>11. PublishedIsInStream' /\ DeadLetteredWasExhausted' /\ EveryReplayIsAudited'
  BY Zenon, <1>6 DEF PublishedIsInStream, DeadLetteredWasExhausted, EveryReplayIsAudited
<1> QED BY Zenon, <1>7, <1>8, <1>10, <1>11

\* The three ways RunOnce settles a record.
LEMMA ResultSettles ==
  ASSUME OutboxInv, NEW d \in Dispatchers, MarkPublished(d) \/ Retry(d) \/ DeadLetter(d)
  PROVE  OutboxInv'
<1> USE DEF OutboxInv
<1> DEFINE e == disp[d].current.event
<1>1. disp[d].result # "none"
  BY Zenon DEF MarkPublished, Retry, DeadLetter
<1>2. disp[d].current \in Record /\ disp[d].current \in Held(d)
  BY Zenon, <1>1 DEF ResultInv, OutboxTypeOK, Dispatcher, Held
<1>3. e \in Events /\ disp[d].current.attempts \in 1..MaxAttempts
  BY Zenon, <1>2 DEF Record
<1>4. row[e] \in Row /\ 0 \in Int
  BY <1>3 DEF OutboxTypeOK
<1>5. UNCHANGED <<actions, stream, faults, revived>> /\ Done(d)
  BY Zenon DEF MarkPublished, Retry, DeadLetter
<1>6. CASE MarkPublished(d)
  <2> DEFINE q == [row[e] EXCEPT !.state = "published", !.owner = None, !.lease = 0]
  <2>1. q \in Row /\ q.state = "published" /\ q.owner = None
    BY <1>4, Zenon DEF Row
  <2>2. UpdateLease(e, d, q) /\ e \in stream
    BY Zenon, <1>6 DEF MarkPublished, ResultInv
  <2> HIDE DEF q
  <2> QED BY Zenon, <1>3, <1>5, <2>1, <2>2, SettleInv
<1>7. CASE Retry(d)
  <2> DEFINE w == RetryDelay[disp[d].current.attempts]
             q == [row[e] EXCEPT !.wait = w, !.owner = None, !.lease = 0]
  <2>1. w \in Nat
    BY Zenon, <1>3, OutboxAssumption
  <2>2. UpdateLease(e, d, q)
    BY Zenon, <1>7 DEF Retry
  <2> HIDE DEF w
  <2>3. q \in Row /\ q.state = row[e].state /\ q.owner = None
    BY <1>4, <2>1, Zenon DEF Row
  <2>4. MayUpdate(e, d) => q.state = "pending"
    BY Zenon, <2>3 DEF MayUpdate
  <2> HIDE DEF q
  <2> QED BY Zenon, <1>3, <1>5, <2>2, <2>3, <2>4, SettleInv
<1>8. CASE DeadLetter(d)
  <2> DEFINE q == [row[e] EXCEPT !.state = "dead", !.owner = None, !.lease = 0]
  <2>1. q \in Row /\ q.state = "dead" /\ q.owner = None /\ q.attempts = row[e].attempts
    BY <1>4, Zenon DEF Row
  <2>2. UpdateLease(e, d, q) /\ disp[d].current.attempts >= MaxAttempts
    BY Zenon, <1>8 DEF DeadLetter
  <2>3. MayUpdate(e, d) => row[e].attempts = MaxAttempts
    <3>1. MayUpdate(e, d) => row[e].attempts = disp[d].current.attempts
      BY Zenon, <1>2, <1>3 DEF MayUpdate, CountInv
    <3>2. disp[d].current.attempts = MaxAttempts
      BY <1>3, <2>2, OutboxAssumption DEF Record
    <3> QED BY Zenon, <3>1, <3>2
  <2> HIDE DEF q
  <2> QED BY Zenon, <1>3, <1>5, <2>1, <2>2, <2>3, SettleInv
<1> QED BY Zenon, <1>6, <1>7, <1>8

\* Replay adds one audit record and one requeue.
LEMMA ReplayInv == ASSUME OutboxInv, NEW k \in Keys, NEW e \in Events, Replay(k, e) PROVE OutboxInv'
<1> USE DEF OutboxInv
<1> DEFINE q == [row[e] EXCEPT !.state = "pending", !.owner = None, !.lease = 0,
                               !.attempts = 0, !.wait = 0]
           Used(f) == {x \in Keys : actions[x] = f}
<1>1. row[e] \in Row /\ 0 \in Int /\ 0 \in Nat /\ 0 \in 0..MaxAttempts
  BY OutboxAssumption DEF OutboxTypeOK
<1>2. q \in Row /\ q.state = "pending" /\ q.owner = None
  BY <1>1, Zenon DEF Row
<1>3. row' = [row EXCEPT ![e] = q]
  BY Zenon DEF Replay
<1> HIDE DEF q
<1>4. row' \in [Events -> Row] /\ row'[e] = q /\ \A f \in Events : f # e => row'[f] = row[f]
  BY Zenon, <1>2, <1>3, RowUpdate
<1>5. UNCHANGED <<disp, stream, faults>>
  BY Zenon DEF Replay
<1>6. OutboxTypeOK'
  BY <1>4, <1>5 DEF Replay, OutboxTypeOK
<1>7. \A d \in Dispatchers : Held(d)' = Held(d) /\ Held(d) \subseteq Record
  BY Zenon, <1>5, HeldRecords DEF Held
<1>8. CountInv'
  <2>1. None \notin Dispatchers
    BY Zenon, OutboxAssumption
  <2> QED BY <1>2, <1>4, <1>7, <2>1 DEF CountInv, Record
<1>9. EveryReplayIsAudited'
  <2>1. actions[k] = None /\ actions' = [actions EXCEPT ![k] = e] /\ e # None
    BY Zenon, OutboxAssumption DEF Replay
  <2>2. ASSUME NEW f \in Events, f # e
        PROVE  Used(f)' = Used(f) /\ revived'[f] = revived[f]
    <3>1. f # None
      BY Zenon, OutboxAssumption
    <3>2. Used(f)' = Used(f)
      BY Zenon, <2>1, <2>2, <3>1 DEF OutboxTypeOK
    <3> QED BY Zenon, <2>2, <3>2 DEF Replay, OutboxTypeOK
  <2>3. Used(e)' = Used(e) \cup {k} /\ k \notin Used(e)
    BY Zenon, <2>1 DEF OutboxTypeOK
  <2>4. IsFiniteSet(Used(e))
    BY Zenon, OutboxAssumption, FS_Subset
  <2>5. Cardinality(Used(e)') = Cardinality(Used(e)) + 1
    BY Zenon, <2>3, <2>4, FS_AddElement
  <2>6. revived'[e] = revived[e] + 1
    BY Zenon DEF Replay, OutboxTypeOK
  <2> QED BY Zenon, <2>2, <2>5, <2>6 DEF EveryReplayIsAudited
<1> QED BY Zenon, <1>2, <1>4, <1>5, <1>6, <1>8, <1>9
  DEF ResultInv, PublishedIsInStream, DeadLetteredWasExhausted

\* Every step preserves the invariant.
LEMMA NextInv == OutboxInv /\ [OutboxNext]_outboxVars => OutboxInv'
<1> SUFFICES ASSUME OutboxInv, [OutboxNext]_outboxVars PROVE OutboxInv'
  BY Zenon
<1>1. CASE UNCHANGED outboxVars
  BY Zenon, <1>1 DEF outboxVars, OutboxInv, OutboxTypeOK, ResultInv, CountInv, Held, PublishedIsInStream,
              DeadLetteredWasExhausted, EveryReplayIsAudited
<1> QED BY Zenon, <1>1, TickInv, CrashInv, AppendInv, ClaimInv, PublishInv, ResultSettles, ReplayInv
  DEF OutboxNext, RunOnce

-----------------------------------------------------------------------------
(* Theorems *)

\* The invariant is inductive.
THEOREM OutboxInvariance == OutboxSpec => []OutboxInv
  BY InitInv, NextInv, PTL DEF OutboxSpec

\* Every column and record keeps its type.
THEOREM OutboxTypes == OutboxSpec => []OutboxTypeOK
<1>1. OutboxInv => OutboxTypeOK
  BY Zenon DEF OutboxInv
<1> QED BY <1>1, OutboxInvariance, PTL

\* Nothing is marked published that JetStream did not store.
THEOREM Published == OutboxSpec => []PublishedIsInStream
<1>1. OutboxInv => PublishedIsInStream
  BY Zenon DEF OutboxInv
<1> QED BY <1>1, OutboxInvariance, PTL

\* Leases without fences are enough for the attempt limit: DeadLetter never acts
\* on a count from before a takeover or a replay.
THEOREM Exhausted == OutboxSpec => []DeadLetteredWasExhausted
<1>1. OutboxInv => DeadLetteredWasExhausted
  BY Zenon DEF OutboxInv
<1> QED BY <1>1, OutboxInvariance, PTL

\* Requeues of an event and its audit records are equally many.
THEOREM Audited == OutboxSpec => []EveryReplayIsAudited
<1>1. OutboxInv => EveryReplayIsAudited
  BY Zenon DEF OutboxInv
<1> QED BY <1>1, OutboxInvariance, PTL

\* No step takes a row out of the published state.
LEMMA StepFinal ==
  ASSUME OutboxInv, [OutboxNext]_outboxVars
  PROVE  \A e \in Events : row[e].state = "published" => row'[e].state = "published"
<1> USE DEF OutboxInv
<1>1. row \in [Events -> Row]
  BY Zenon DEF OutboxTypeOK
<1>2. CASE UNCHANGED row
  BY Zenon, <1>2
<1>3. ASSUME NEW f \in Events, row[f].state # "published", NEW q, row' = [row EXCEPT ![f] = q]
      PROVE  \A e \in Events : row[e].state = "published" => row'[e] = row[e]
  BY Zenon, <1>1, <1>3
<1>4. CASE Tick
  BY Zenon, <1>1, <1>4 DEF Tick, Row
<1>5. ASSUME NEW d \in Dispatchers, Claim(d)
      PROVE  \A e \in Events : row[e].state = "published" => row'[e] = row[e]
  <2>1. \A e \in FirstBySequence({e \in Events : Claimable(e)}, BatchSize) :
          row[e].state = "pending"
    BY Zenon DEF FirstBySequence, Claimable
  <2> QED BY Zenon, <1>5, <2>1 DEF Claim
<1>6. ASSUME NEW d \in Dispatchers, NEW f, NEW q, UpdateLease(f, d, q)
      PROVE  \A e \in Events : row[e].state = "published" => row'[e] = row[e]
  BY Zenon, <1>1, <1>6 DEF UpdateLease, MayUpdate
<1>7. ASSUME NEW d \in Dispatchers, MarkPublished(d) \/ Retry(d) \/ DeadLetter(d)
      PROVE  \A e \in Events : row[e].state = "published" => row'[e] = row[e]
  BY Zenon, <1>6, <1>7 DEF MarkPublished, Retry, DeadLetter
<1>8. ASSUME NEW f \in Events, Append(f) \/ \E k \in Keys : Replay(k, f)
      PROVE  \A e \in Events : row[e].state = "published" => row'[e] = row[e]
  BY Zenon, <1>1, <1>8 DEF Append, Replay
<1>9. ASSUME NEW d \in Dispatchers, Publish(d) \/ Crash(d) PROVE UNCHANGED row
  BY Zenon, <1>9 DEF Publish, Crash
<1> QED BY Zenon, <1>2, <1>4, <1>5, <1>7, <1>8, <1>9 DEF OutboxNext, RunOnce, outboxVars

\* Published is final.
THEOREM Final == OutboxSpec => PublishedIsFinal
<1>1. OutboxInv /\ [OutboxNext]_outboxVars
      => [\A e \in Events : row[e].state = "published" => row'[e].state = "published"]_row
  BY Zenon, StepFinal
<1> QED BY <1>1, OutboxInvariance, PTL DEF OutboxSpec, PublishedIsFinal

-----------------------------------------------------------------------------
(* Evidence: the inductive invariant *)

\* A delivery that its decision allows at a time.
Granted(x, now) ==
  decisions[x.decision] # Absent /\ Permits(decisions[x.decision], x, now)

\* One entry by each of some providers, with a key that its provider holds.
SignedBy(set, P) ==
  /\ \A e \in set : \E p \in P : Algorithm[p] = e.algorithm /\ e.key \in keyring[p].keys
  /\ \A p \in P : \E e \in set : e.algorithm = Algorithm[p]
  /\ IsFiniteSet(P) /\ IsFiniteSet(set) /\ Cardinality(set) = Cardinality(P)

\* A call goes on only with a delivery that was allowed when it came; its set grows
\* by one entry per provider of the manager that it started with.
CallIsSound(x) ==
  x # Absent =>
    /\ x.pc # "validate" => Granted(x.delivery, x.now)
    /\ x.pc \in {"validate", "lookup"} => x.signatures = {}
    /\ x.pc = "sign" => x.pending \subseteq manager.providers
                        /\ SignedBy(x.signatures, manager.providers \ x.pending)
    /\ x.pc = "insert" => SignedBy(x.signatures, manager.providers)
CallsAreSound == \A c \in Calls : CallIsSound(call[c])

\* The unique index on requests.
OnePerRequest ==
  \A r, s \in receipts :
    r.delivery.actor = s.delivery.actor /\ r.delivery.request = s.delivery.request => r = s

ReceiptsAreGranted == \A r \in receipts : Granted(r.delivery, r.at)

\* Some manager has signed a receipt, with all of its providers.
ReceiptsAreSigned ==
  \A r \in receipts : \E m \in Managers : SignedBy(r.signatures, m.providers)

ReleasesAreGranted ==
  \A x \in released :
    x.receipt \in receipts /\ x.receipt.delivery = x.delivery /\ Granted(x.delivery, x.at)

CurrentIsHeld == \A p \in Providers : keyring[p].current \in keyring[p].keys

ReceiptsAreSound == OnePerRequest /\ ReceiptsAreGranted /\ ReceiptsAreSigned
DisclosureInv ==
  DisclosureTypeOK /\ CurrentIsHeld /\ CallsAreSound /\ ReceiptsAreSound /\ ReleasesAreGranted

-----------------------------------------------------------------------------
(* Signature sets *)

\* A provider adds one entry of its own: the loop of Manager.Sign.
LEMMA AddEntry ==
  ASSUME NEW set, NEW P, NEW p, p \notin P, SignedBy(set, P),
         CurrentEntry(p) \notin set, keyring[p].current \in keyring[p].keys
  PROVE  SignedBy(set \cup {CurrentEntry(p)}, P \cup {p})
<1>1. \A e \in set \cup {CurrentEntry(p)} : \E q \in P \cup {p} :
        Algorithm[q] = e.algorithm /\ e.key \in keyring[q].keys
  BY DEF SignedBy, CurrentEntry
<1>2. \A q \in P \cup {p} : \E e \in set \cup {CurrentEntry(p)} : e.algorithm = Algorithm[q]
  BY DEF SignedBy, CurrentEntry
<1>3. IsFiniteSet(P \cup {p}) /\ Cardinality(P \cup {p}) = Cardinality(P) + 1
  BY Zenon, FS_AddElement DEF SignedBy
<1>4. /\ IsFiniteSet(set \cup {CurrentEntry(p)})
      /\ Cardinality(set \cup {CurrentEntry(p)}) = Cardinality(set) + 1
  BY Zenon, FS_AddElement DEF SignedBy
<1> QED
  BY Zenon, <1>1, <1>2, <1>3, <1>4 DEF SignedBy

\* Manager.Sign starts with no entry.
LEMMA NoEntry == SignedBy({}, {})
BY Zenon, FS_EmptySet DEF SignedBy

\* What a step must keep for sets, decisions and calls to stay sound.
Keeps ==
  /\ \A p \in Providers : keyring[p].keys \subseteq keyring'[p].keys
  /\ \A d \in DecisionIDs : decisions[d] # Absent => decisions'[d] = decisions[d]

\* Signatures stay those of held keys, as keys are kept.
LEMMA SignedStays ==
  ASSUME NEW set, NEW P \in SUBSET Providers, SignedBy(set, P), Keeps
  PROVE  SignedBy(set, P)'
BY Zenon DEF SignedBy, Keeps

\* What a decision has granted stays granted, as decisions are kept.
LEMMA GrantedStays ==
  ASSUME NEW x, x.decision \in DecisionIDs, NEW t, Granted(x, t), Keeps
  PROVE  Granted(x, t)'
BY Zenon DEF Granted, Keeps

\* A set that all providers of one manager signed verifies under every manager that
\* accepts the first.
Accepts(n, m) ==
  /\ m.providers \subseteq n.providers
  /\ n.minimum <= Cardinality(m.providers)
  /\ n.required \subseteq {Algorithm[p] : p \in m.providers}

\* A manager that accepts the signing one verifies what its providers signed.
LEMMA SignedVerifies ==
  ASSUME NEW set, NEW m \in Managers, SignedBy(set, m.providers),
         manager \in Managers, Accepts(manager, m)
  PROVE  Verifies(set)
<1>1. set # {}
  BY Zenon, ManagerAssumption DEF SignedBy
<1>2. \A e \in set : EntryVerifies(e)
  BY Zenon DEF SignedBy, Accepts, EntryVerifies
<1>3. Cardinality(set) >= manager.minimum
  <2>1. Cardinality(set) \in Nat
    BY Zenon, FS_CardinalityType DEF SignedBy
  <2>2. Cardinality(m.providers) \in Nat /\ Cardinality(manager.providers) \in Nat
    BY Zenon, ManagerAssumption, FS_CardinalityType
  <2>3. manager.minimum \in Nat
    BY <2>2, ManagerAssumption
  <2> QED
    BY Zenon, <2>1, <2>2, <2>3 DEF SignedBy, Accepts
<1>4. \A a \in manager.required : \E e \in set : e.algorithm = a
  BY DEF SignedBy, Accepts
<1> QED
  BY Zenon, <1>1, <1>2, <1>3, <1>4 DEF Verifies, PolicySatisfied

-----------------------------------------------------------------------------
(* Calls *)

\* What a call relies on stays true while others work.
LEMMA SoundStays ==
  ASSUME NEW x \in Call \cup {Absent}, CallIsSound(x), manager \in Managers,
         manager' = manager, Keeps
  PROVE  CallIsSound(x)'
<1> SUFFICES ASSUME x # Absent PROVE CallIsSound(x)'
  BY Zenon DEF CallIsSound
<1>1. x \in Call
  BY Zenon
<1>2. x.delivery.decision \in DecisionIDs
  BY Zenon, <1>1 DEF Call, Delivery
<1>3. x.pc # "validate" => Granted(x.delivery, x.now)'
  BY Zenon, <1>2, GrantedStays DEF CallIsSound
<1>4. x.pc \in {"validate", "lookup"} => x.signatures = {}
  BY Zenon DEF CallIsSound
<1>5. manager.providers \in SUBSET Providers
  BY Zenon, ManagerAssumption
<1>6. x.pc = "sign" => /\ x.pending \subseteq manager.providers
                       /\ SignedBy(x.signatures, manager.providers \ x.pending)'
  <2>1. manager.providers \ x.pending \in SUBSET Providers
    BY Zenon, <1>5
  <2>2. SUFFICES ASSUME x.pc = "sign"
        PROVE  /\ x.pending \subseteq manager.providers
               /\ SignedBy(x.signatures, manager.providers \ x.pending)'
    BY Zenon
  <2>3. /\ x.pending \subseteq manager.providers
        /\ SignedBy(x.signatures, manager.providers \ x.pending)
    BY Zenon, <2>2 DEF CallIsSound
  <2> QED
    BY Zenon, <2>1, <2>3 DEF SignedBy, Keeps
<1>7. x.pc = "insert" => SignedBy(x.signatures, manager.providers)'
  BY Zenon, <1>5 DEF SignedBy, Keeps, CallIsSound
<1> QED
  BY Zenon, <1>3, <1>4, <1>6, <1>7 DEF CallIsSound

\* One call moves.
LEMMA CallsStep ==
  ASSUME DisclosureTypeOK, CallsAreSound, manager' = manager, Keeps,
         NEW c \in Calls, NEW y \in Call \cup {Absent}, CallIsSound(y), Become(c, y)
  PROVE  CallsAreSound' /\ call' \in [Calls -> Call \cup {Absent}]
<1>1. call' \in [Calls -> Call \cup {Absent}]
  BY Zenon DEF DisclosureTypeOK, Become
<1>2. ASSUME NEW b \in Calls PROVE CallIsSound(call[b])'
  <2>1. PICK x \in Call \cup {Absent} : x = call'[b]
    BY Zenon, <1>1
  <2>2. CallIsSound(x)
    BY Zenon, <2>1 DEF DisclosureTypeOK, Become, CallsAreSound
  <2>3. CallIsSound(x)'
    BY Zenon, <2>2, SoundStays DEF DisclosureTypeOK, SigningTypeOK
  <2> QED
    BY Zenon, <2>1, <2>3
<1> QED
  BY Zenon, <1>1, <1>2 DEF CallsAreSound

\* The steps of RetrieveNormalised, DeliverContextWithTaint and Manager.Sign.
CallNext(c) ==
  \/ Ask(c) \/ Validate(c) \/ Refuse(c) \/ Lookup(c)
  \/ \E p \in Providers : SignWith(c, p)
  \/ Signed(c) \/ CreateReceipt(c) \/ Abandon(c)

\* The steps of a call take nothing back.
LEMMA CallKeeps ==
  ASSUME DisclosureInv, NEW c \in Calls, CallNext(c)
  PROVE  Keeps /\ UNCHANGED <<keyring, manager, clock, decisions>>
<1>1. UNCHANGED <<keyring, manager, clock, decisions>>
  BY Zenon DEF CallNext, Ask, Validate, Refuse, Lookup, SignWith, Signed, CreateReceipt, Abandon,
         signingVars
<1> QED
  BY Zenon, <1>1 DEF Keeps

\* Where a call gets to: it is over, or it goes on soundly.
LEMMA CallGoesOn ==
  ASSUME DisclosureInv, NEW c \in Calls, CallNext(c)
  PROVE  \E y \in Call \cup {Absent} : CallIsSound(y) /\ Become(c, y)
<1>0. CallIsSound(Absent) /\ Absent \in Call \cup {Absent}
  BY Zenon DEF CallIsSound
<1>a. CallIsSound(call[c]) /\ call[c] \in Call \cup {Absent}
  BY Zenon DEF DisclosureInv, CallsAreSound, DisclosureTypeOK
<1>b. clock \in Nat /\ manager \in Managers /\ manager.providers \in SUBSET Providers
  BY Zenon, ManagerAssumption DEF DisclosureInv, DisclosureTypeOK, SigningTypeOK
<1>1. CASE Ask(c)
  <2>1. PICK x \in Delivery :
          Become(c, [pc |-> "validate", delivery |-> x, now |-> clock,
                     pending |-> {}, signatures |-> {}])
    BY Zenon, <1>1 DEF Ask
  <2> DEFINE y == [pc |-> "validate", delivery |-> x, now |-> clock,
                   pending |-> {}, signatures |-> {}]
  <2>2. y \in Call /\ CallIsSound(y)
    BY Zenon, <1>b DEF Call, CallIsSound
  <2> QED
    BY Zenon, <2>1, <2>2
<1>2. CASE Validate(c)
  <2> DEFINE y == [call[c] EXCEPT !.pc = "lookup"]
  <2>1. call[c] \in Call /\ call[c].pc = "validate" /\ Allowed(c) /\ Become(c, y)
    BY Zenon, <1>2, <1>a DEF Validate
  <2>2. y \in Call /\ y.pc = "lookup" /\ y.delivery = call[c].delivery
        /\ y.now = call[c].now /\ y.signatures = call[c].signatures
    BY Zenon, <2>1 DEF Call
  <2>3. Granted(y.delivery, y.now)
    BY Zenon, <2>1, <2>2 DEF Allowed, Granted
  <2>4. call[c] # Absent
    BY Zenon, <1>2 DEF Validate
  <2>5. y.signatures = {}
    BY Zenon, <1>a, <2>1, <2>2, <2>4 DEF CallIsSound
  <2>6. CallIsSound(y)
    BY Zenon, <2>2, <2>3, <2>5 DEF CallIsSound
  <2> QED
    BY Zenon, <2>1, <2>2, <2>6
<1>3. CASE Refuse(c) \/ Abandon(c)
  BY Zenon, <1>0, <1>3 DEF Refuse, Abandon
<1>4. CASE Lookup(c)
  <2> DEFINE y == [call[c] EXCEPT !.pc = "sign", !.pending = manager.providers]
  <2>1. CASE Become(c, Absent)
    BY Zenon, <1>0, <2>1
  <2>2. CASE Become(c, y)
    <3>1. call[c] # Absent /\ call[c] \in Call /\ call[c].pc = "lookup"
      BY Zenon, <1>4, <1>a DEF Lookup
    <3>2. Granted(call[c].delivery, call[c].now) /\ call[c].signatures = {}
      BY Zenon, <1>a, <3>1 DEF CallIsSound
    <3>3. y \in Call /\ y.pc = "sign" /\ y.pending = manager.providers
          /\ y.delivery = call[c].delivery /\ y.now = call[c].now
          /\ y.signatures = call[c].signatures
      BY Zenon, <1>b, <3>1 DEF Call
    <3>4. manager.providers \ y.pending = {}
      BY Zenon, <3>3
    <3>5. SignedBy(y.signatures, manager.providers \ y.pending)
      BY Zenon, <3>2, <3>3, <3>4, NoEntry
    <3>6. CallIsSound(y)
      BY Zenon, <3>2, <3>3, <3>5 DEF CallIsSound
    <3> QED
      BY Zenon, <2>2, <3>3, <3>6
  <2> QED
    BY Zenon, <1>4, <2>1, <2>2 DEF Lookup, Return
<1>5. CASE \E p \in Providers : SignWith(c, p)
  <2>1. PICK p \in Providers : SignWith(c, p)
    BY Zenon, <1>5
  <2> DEFINE y == [call[c] EXCEPT !.pending = @ \ {p},
                                  !.signatures = @ \cup {CurrentEntry(p)}]
  <2>2. CASE Become(c, Absent)
    BY Zenon, <1>0, <2>2
  <2>3. CASE Become(c, y) /\ CurrentEntry(p) \notin call[c].signatures
    <3>1. call[c] # Absent /\ call[c] \in Call /\ call[c].pc = "sign" /\ p \in call[c].pending
      BY Zenon, <2>1, <1>a DEF SignWith
    <3>2. /\ Granted(call[c].delivery, call[c].now)
          /\ call[c].pending \subseteq manager.providers
          /\ SignedBy(call[c].signatures, manager.providers \ call[c].pending)
      BY Zenon, <1>a, <3>1 DEF CallIsSound
    <3>3. CurrentEntry(p) \in Entry
      BY Zenon DEF CurrentEntry, Entry, Algorithms, DisclosureInv, DisclosureTypeOK, SigningTypeOK
    <3>4. y \in Call /\ y.pc = "sign" /\ y.pending = call[c].pending \ {p}
          /\ y.signatures = call[c].signatures \cup {CurrentEntry(p)}
          /\ y.delivery = call[c].delivery /\ y.now = call[c].now
      <4> HIDE DEF CurrentEntry
      <4> QED BY Zenon, <3>1, <3>3 DEF Call
    <3>5. manager.providers \ y.pending = (manager.providers \ call[c].pending) \cup {p}
      BY Zenon, <3>1, <3>2, <3>4
    <3>6. keyring[p].current \in keyring[p].keys
      BY Zenon DEF DisclosureInv, CurrentIsHeld
    <3>7. p \notin manager.providers \ call[c].pending
      BY Zenon, <3>1
    <3>8. SignedBy(y.signatures, manager.providers \ y.pending)
      BY <2>3, <3>2, <3>4, <3>5, <3>6, <3>7, AddEntry
    <3>9. CallIsSound(y)
      BY Zenon, <3>2, <3>4, <3>8 DEF CallIsSound
    <3> QED
      BY Zenon, <2>3, <3>4, <3>9
  <2> QED
    BY Zenon, <2>1, <2>2, <2>3 DEF SignWith
<1>6. CASE Signed(c)
  <2> DEFINE y == [call[c] EXCEPT !.pc = "insert"]
  <2>1. CASE Become(c, Absent)
    BY Zenon, <1>0, <2>1
  <2>2. CASE Become(c, y)
    <3>1. call[c] # Absent /\ call[c] \in Call /\ call[c].pc = "sign" /\ call[c].pending = {}
      BY Zenon, <1>6, <1>a DEF Signed
    <3>2. /\ Granted(call[c].delivery, call[c].now)
          /\ SignedBy(call[c].signatures, manager.providers \ {})
      BY Zenon, <1>a, <3>1 DEF CallIsSound
    <3>3. y \in Call /\ y.pc = "insert" /\ y.signatures = call[c].signatures
          /\ y.delivery = call[c].delivery /\ y.now = call[c].now
      BY Zenon, <3>1 DEF Call
    <3>4. manager.providers \ {} = manager.providers
      BY Zenon
    <3>5. CallIsSound(y)
      BY Zenon, <3>2, <3>3, <3>4 DEF CallIsSound
    <3> QED
      BY Zenon, <2>2, <3>3, <3>5
  <2> QED
    BY Zenon, <1>6, <2>1, <2>2 DEF Signed
<1>7. CASE CreateReceipt(c)
  BY Zenon, <1>0, <1>7 DEF CreateReceipt, Return
<1> QED
  BY Zenon, <1>1, <1>2, <1>3, <1>4, <1>5, <1>6, <1>7 DEF CallNext

-----------------------------------------------------------------------------
(* Receipts and releases *)

\* A receipt stays granted and signed.
LEMMA ReceiptStays ==
  ASSUME NEW r \in Receipt, Granted(r.delivery, r.at), Keeps,
         \E m \in Managers : SignedBy(r.signatures, m.providers)
  PROVE  Granted(r.delivery, r.at)' /\ (\E m \in Managers : SignedBy(r.signatures, m.providers)')
<1>1. r.delivery.decision \in DecisionIDs
  BY Zenon DEF Receipt, Delivery
<1>2. PICK m \in Managers : SignedBy(r.signatures, m.providers)
  BY Zenon
<1>3. m.providers \in SUBSET Providers
  BY Zenon, ManagerAssumption
<1>4. SignedBy(r.signatures, m.providers)'
  BY Zenon, <1>2, <1>3, SignedStays
<1> QED
  BY Zenon, <1>1, <1>4, GrantedStays

\* Receipts are kept; one is added only where the request has none.
LEMMA ReceiptsStep ==
  ASSUME DisclosureTypeOK, ReceiptsAreSound, Keeps, NEW S \in SUBSET Receipt,
         receipts' = receipts \cup S,
         \A r \in S : /\ S = {r} /\ ByRequest(r.delivery) = {} /\ Granted(r.delivery, r.at)
                      /\ \E m \in Managers : SignedBy(r.signatures, m.providers)
  PROVE  ReceiptsAreSound' /\ receipts' \in SUBSET Receipt
<1>1. receipts' \in SUBSET Receipt
  BY Zenon DEF DisclosureTypeOK
<1>2. ASSUME NEW r \in receipts'
      PROVE  /\ Granted(r.delivery, r.at)'
             /\ \E m \in Managers : SignedBy(r.signatures, m.providers)'
  <2>1. r \in Receipt
    BY Zenon, <1>1
  <2>2. Granted(r.delivery, r.at) /\ \E m \in Managers : SignedBy(r.signatures, m.providers)
    BY Zenon DEF ReceiptsAreSound, ReceiptsAreGranted, ReceiptsAreSigned
  <2> QED
    BY Zenon, <2>1, <2>2, ReceiptStays
<1>3. OnePerRequest'
  <2>1. ASSUME NEW r \in receipts', NEW s \in receipts',
               r.delivery.actor = s.delivery.actor, r.delivery.request = s.delivery.request
        PROVE  r = s
    BY Zenon, <2>1 DEF ReceiptsAreSound, OnePerRequest, ByRequest
  <2> QED
    BY Zenon, <2>1 DEF OnePerRequest
<1> QED
  BY Zenon, <1>1, <1>2, <1>3 DEF ReceiptsAreSound, ReceiptsAreGranted, ReceiptsAreSigned

\* A release with its receipt is granted.
LEMMA ReleasesStep ==
  ASSUME DisclosureTypeOK, ReleasesAreGranted, Keeps, receipts \subseteq receipts',
         receipts' \in SUBSET Receipt,
         NEW c \in Calls, call[c] \in Call, Granted(call[c].delivery, call[c].now),
         NEW r \in receipts', r.delivery = call[c].delivery,
         \/ UNCHANGED released
         \/ released' = released \cup
              {[delivery |-> call[c].delivery, at |-> call[c].now, receipt |-> r]}
  PROVE  ReleasesAreGranted' /\ released' \in SUBSET [delivery: Delivery, at: Nat, receipt: Receipt]
<1> DEFINE new == [delivery |-> call[c].delivery, at |-> call[c].now, receipt |-> r]
<1>1. new \in [delivery: Delivery, at: Nat, receipt: Receipt]
  BY Zenon DEF Call
<1>2. released' \in SUBSET [delivery: Delivery, at: Nat, receipt: Receipt]
  BY Zenon, <1>1 DEF DisclosureTypeOK
<1>3. ASSUME NEW x \in released'
      PROVE  x.receipt \in receipts' /\ x.receipt.delivery = x.delivery
             /\ Granted(x.delivery, x.at)
  BY <1>3 DEF ReleasesAreGranted
<1>4. ASSUME NEW x \in released' PROVE Granted(x.delivery, x.at)'
  <2>1. x.delivery.decision \in DecisionIDs
    BY Zenon, <1>2 DEF Delivery
  <2> QED
    BY Zenon, <1>3, <2>1, GrantedStays
<1> QED
  BY Zenon, <1>2, <1>3, <1>4 DEF ReleasesAreGranted

\* Earlier releases stay granted.
LEMMA ReleasesStay ==
  ASSUME DisclosureTypeOK, ReleasesAreGranted, Keeps, UNCHANGED <<receipts, released>>
  PROVE  ReleasesAreGranted'
<1>1. ASSUME NEW x \in released PROVE Granted(x.delivery, x.at)'
  <2>1. x.delivery.decision \in DecisionIDs
    BY Zenon DEF DisclosureTypeOK, Delivery
  <2>2. Granted(x.delivery, x.at)
    BY Zenon DEF ReleasesAreGranted
  <2> QED
    BY Zenon, <2>1, <2>2, GrantedStays
<1> QED
  BY Zenon, <1>1 DEF ReleasesAreGranted

\* Receipts stay sound.
LEMMA ReceiptsStay ==
  ASSUME DisclosureTypeOK, ReceiptsAreSound, Keeps, UNCHANGED receipts
  PROVE  ReceiptsAreSound'
<1>0. {} \in SUBSET Receipt
  BY Zenon
<1>1. PICK S \in SUBSET Receipt : S = {}
  BY <1>0, Zenon
<1>2. receipts' = receipts \cup S
  BY Zenon, <1>1
<1>3. \A r \in S : FALSE
  BY Zenon, <1>1
<1> QED
  BY Zenon, <1>2, <1>3, ReceiptsStep

\* Whatever a call does to the receipts and to what was released.
LEMMA CallRecords ==
  ASSUME DisclosureInv, NEW c \in Calls, CallNext(c)
  PROVE  /\ ReceiptsAreSound' /\ ReleasesAreGranted'
         /\ receipts' \in SUBSET Receipt
         /\ released' \in SUBSET [delivery: Delivery, at: Nat, receipt: Receipt]
<1> USE DEF DisclosureInv
<1>0. Keeps
  BY Zenon, CallKeeps
<1>a. CallIsSound(call[c]) /\ call[c] \in Call \cup {Absent} /\ manager \in Managers
  BY Zenon DEF CallsAreSound, DisclosureTypeOK, SigningTypeOK
<1>b. \A r \in ByRequest(call[c].delivery) : r \in receipts
  BY Zenon DEF ByRequest
<1>1. CASE UNCHANGED <<receipts, released>>
  BY Zenon, <1>0, <1>1, ReceiptsStay, ReleasesStay DEF DisclosureTypeOK
<1>2. CASE UNCHANGED receipts /\ call[c] # Absent /\ call[c].pc # "validate"
           /\ \E r \in ByRequest(call[c].delivery) :
                SameDelivery(r, call[c].delivery) /\ Return(c, r)
  <2>1. PICK r \in ByRequest(call[c].delivery) :
               SameDelivery(r, call[c].delivery) /\ Return(c, r)
    BY Zenon, <1>2
  <2>2. r \in receipts' /\ r.delivery = call[c].delivery
    BY Zenon, <1>2, <1>b, <2>1 DEF SameDelivery
  <2>3. call[c] \in Call /\ Granted(call[c].delivery, call[c].now)
    BY Zenon, <1>2, <1>a DEF CallIsSound
  <2>4. receipts \subseteq receipts' /\ receipts' \in SUBSET Receipt
    BY Zenon, <1>2 DEF DisclosureTypeOK
  <2>5. ReleasesAreGranted' /\ released' \in SUBSET [delivery: Delivery, at: Nat, receipt: Receipt]
    BY Zenon, <1>0, <2>1, <2>2, <2>3, <2>4, ReleasesStep DEF Return
  <2> QED
    BY Zenon, <1>0, <1>2, <2>4, <2>5, ReceiptsStay
<1>3. ASSUME CreateReceipt(c), ~Conflicts(call[c].delivery)
      PROVE  /\ ReceiptsAreSound' /\ ReleasesAreGranted'
             /\ receipts' \in SUBSET Receipt
             /\ released' \in SUBSET [delivery: Delivery, at: Nat, receipt: Receipt]
  <2> DEFINE new == [delivery |-> call[c].delivery, at |-> call[c].now,
                     signatures |-> call[c].signatures]
  <2>1. /\ call[c] # Absent /\ call[c].pc = "insert"
        /\ receipts' = receipts \cup {new} /\ Return(c, new)
    BY Zenon, <1>3 DEF CreateReceipt
  <2>2. /\ call[c] \in Call /\ Granted(call[c].delivery, call[c].now)
        /\ SignedBy(call[c].signatures, manager.providers)
    BY Zenon, <1>a, <2>1 DEF CallIsSound
  <2>3. new \in Receipt
    BY Zenon, <2>2 DEF Call, Receipt
  <2>4. ByRequest(new.delivery) = {}
    BY Zenon, <1>3 DEF Conflicts
  <2>5. Granted(new.delivery, new.at) /\ \E m \in Managers : SignedBy(new.signatures, m.providers)
    BY Zenon, <1>a, <2>2
  <2>6. ReceiptsAreSound' /\ receipts' \in SUBSET Receipt
    <3> HIDE DEF new
    <3>1. {new} \in SUBSET Receipt
      BY Zenon, <2>3
    <3> QED
      BY Zenon, <1>0, <2>1, <2>4, <2>5, <3>1, ReceiptsStep
  <2>7. new \in receipts' /\ receipts \subseteq receipts' /\ new.delivery = call[c].delivery
    BY Zenon, <2>1
  <2>8. ReleasesAreGranted' /\ released' \in SUBSET [delivery: Delivery, at: Nat, receipt: Receipt]
    <3> HIDE DEF new
    <3> QED
      BY Zenon, <1>0, <2>1, <2>2, <2>6, <2>7, ReleasesStep DEF Return
  <2> QED
    BY Zenon, <2>6, <2>8
<1>4. CASE CreateReceipt(c)
  BY Zenon, <1>1, <1>2, <1>3, <1>4 DEF CreateReceipt
<1>5. CASE Lookup(c)
  BY Zenon, <1>1, <1>2, <1>5 DEF Lookup
<1>6. CASE CallNext(c) /\ ~CreateReceipt(c) /\ ~Lookup(c)
  <2>1. UNCHANGED <<receipts, released>>
    BY Zenon, <1>6 DEF CallNext, Ask, Validate, Refuse, SignWith, Signed, Abandon
  <2> QED
    BY Zenon, <1>1, <2>1
<1> QED
  BY Zenon, <1>4, <1>5, <1>6

-----------------------------------------------------------------------------
(* The invariant holds *)

\* A rotation adds a key and keeps the old ones.
LEMMA RotationKeeps ==
  ASSUME DisclosureInv, RotateKey
  PROVE  Keeps /\ CurrentIsHeld' /\ SigningTypeOK'
<1>1. PICK p \in Providers, k \in KeyRefs :
        keyring' = [keyring EXCEPT ![p] = [current |-> k, keys |-> @.keys \cup {k}]]
  BY Zenon DEF RotateKey, Rotate
<1>2. keyring \in [Providers -> [current: KeyRefs, keys: SUBSET KeyRefs]]
  BY Zenon DEF DisclosureInv, DisclosureTypeOK, SigningTypeOK
<1>3. \A q \in Providers : keyring'[q] = IF q = p THEN [current |-> k, keys |-> keyring[p].keys \cup {k}]
                                                  ELSE keyring[q]
  BY Zenon, <1>1, <1>2
<1>4. keyring' \in [Providers -> [current: KeyRefs, keys: SUBSET KeyRefs]]
  BY Zenon, <1>1, <1>2
<1>5. CurrentIsHeld'
  BY <1>3 DEF DisclosureInv, CurrentIsHeld
<1>6. Keeps
  BY <1>3 DEF RotateKey, Keeps
<1> QED
  BY Zenon, <1>4, <1>5, <1>6 DEF RotateKey, Rotate, DisclosureInv, DisclosureTypeOK, SigningTypeOK

\* Every step keeps the invariant of disclosure.
LEMMA DisclosureStep ==
  ASSUME DisclosureInv, [DisclosureNext]_disclosureVars
  PROVE  DisclosureInv'
<1> USE DEF DisclosureInv
<1>1. CASE \E c \in Calls : CallNext(c)
  <2>1. PICK c \in Calls : CallNext(c)
    BY Zenon, <1>1
  <2>2. Keeps /\ UNCHANGED <<keyring, manager, clock, decisions>>
    BY Zenon, <2>1, CallKeeps
  <2>3. CallsAreSound' /\ call' \in [Calls -> Call \cup {Absent}]
    BY Zenon, <2>1, <2>2, CallGoesOn, CallsStep
  <2>4. /\ ReceiptsAreSound' /\ ReleasesAreGranted'
        /\ receipts' \in SUBSET Receipt
        /\ released' \in SUBSET [delivery: Delivery, at: Nat, receipt: Receipt]
    BY Zenon, <2>1, CallRecords
  <2>5. DisclosureTypeOK'
    BY Zenon, <2>2, <2>3, <2>4 DEF DisclosureTypeOK, SigningTypeOK
  <2>6. CurrentIsHeld'
    BY Zenon, <2>2 DEF CurrentIsHeld
  <2> QED
    BY Zenon, <2>3, <2>4, <2>5, <2>6
<1>2. ASSUME Keeps, UNCHANGED <<manager, receipts, call, released>>, CurrentIsHeld', DisclosureTypeOK'
      PROVE  DisclosureInv'
  <2>1. ASSUME NEW c \in Calls PROVE CallIsSound(call[c])'
    <3>1. PICK x \in Call \cup {Absent} : x = call[c]
      BY Zenon DEF DisclosureTypeOK
    <3>2. CallIsSound(x)'
      BY Zenon, <1>2, <3>1, SoundStays DEF CallsAreSound, DisclosureTypeOK, SigningTypeOK
    <3>3. x = call'[c]
      BY Zenon, <1>2, <3>1
    <3> QED
      BY Zenon, <3>2, <3>3
  <2>2. CallsAreSound'
    BY Zenon, <2>1 DEF CallsAreSound
  <2> QED
    BY Zenon, <1>2, <2>2, ReceiptsStay, ReleasesStay
<1>3. CASE RotateKey
  BY Zenon, <1>2, <1>3, RotationKeeps DEF RotateKey, Rotate, DisclosureTypeOK
<1>4. CASE ClockAdvances \/ UNCHANGED disclosureVars
  <2>1. UNCHANGED <<keyring, manager, decisions, receipts, call, released>> /\ clock' \in Nat
    BY <1>4 DEF ClockAdvances, disclosureVars, signingVars, DisclosureTypeOK
  <2>2. Keeps /\ CurrentIsHeld' /\ DisclosureTypeOK'
    BY Zenon, <2>1 DEF Keeps, CurrentIsHeld, DisclosureTypeOK, SigningTypeOK
  <2> QED
    BY Zenon, <1>2, <2>1, <2>2
<1>5. ASSUME NEW d \in DecisionIDs, Evaluate(d) PROVE DisclosureInv'
  <2>1. PICK x \in DecisionUntil((clock + 1)..(MaxClock + 1)) :
          decisions' = [decisions EXCEPT ![d] = x]
    BY Zenon, <1>5 DEF Evaluate
  <2>2. (clock + 1)..(MaxClock + 1) \subseteq Nat
    BY DisclosureAssumption DEF DisclosureTypeOK
  <2>3. x \in Decision
    BY Zenon, <2>2 DEF DecisionUntil, Decision
  <2>4. decisions' \in [DecisionIDs -> Decision \cup {Absent}]
    BY Zenon, <2>1, <2>3 DEF DisclosureTypeOK
  <2>5. UNCHANGED <<keyring, manager, clock, receipts, call, released>>
    BY Zenon, <1>5 DEF Evaluate, signingVars
  <2>6. Keeps
    BY Zenon, <1>5, <2>1, <2>5 DEF Evaluate, Keeps, DisclosureTypeOK
  <2>7. CurrentIsHeld' /\ DisclosureTypeOK'
    BY Zenon, <2>4, <2>5 DEF CurrentIsHeld, DisclosureTypeOK, SigningTypeOK
  <2> QED
    BY Zenon, <1>2, <2>5, <2>6, <2>7
<1>6. CASE Restart
  <2>1. /\ manager' \in Managers /\ call' = [c \in Calls |-> Absent]
        /\ UNCHANGED <<keyring, clock, decisions, receipts, released>>
    BY Zenon, <1>6 DEF Restart, Configure
  <2>2. Keeps /\ CurrentIsHeld' /\ DisclosureTypeOK'
    BY Zenon, <2>1 DEF Keeps, CurrentIsHeld, DisclosureTypeOK, SigningTypeOK
  <2>3. CallsAreSound'
    BY Zenon, <2>1 DEF CallsAreSound, CallIsSound
  <2> QED
    BY Zenon, <2>1, <2>2, <2>3, ReceiptsStay, ReleasesStay
<1> QED
  BY Zenon, <1>1, <1>3, <1>4, <1>5, <1>6 DEF DisclosureNext, CallNext

\* The invariant of disclosure holds at the start.
LEMMA DisclosureStart ==
  ASSUME DisclosureInit
  PROVE  DisclosureInv
<1>1. DisclosureTypeOK
  BY DEF DisclosureInit, SigningInit, DisclosureTypeOK, SigningTypeOK
<1>2. CurrentIsHeld
  BY DEF DisclosureInit, SigningInit, CurrentIsHeld
<1>3. CallsAreSound /\ ReceiptsAreSound /\ ReleasesAreGranted
  BY Zenon DEF DisclosureInit, CallsAreSound, CallIsSound, ReceiptsAreSound, OnePerRequest, ReceiptsAreGranted,
         ReceiptsAreSigned, ReleasesAreGranted
<1> QED
  BY Zenon, <1>1, <1>2, <1>3 DEF DisclosureInv

\* Types, one receipt per request, and the soundness of open calls, receipts and
\* releases hold of DeliverContextWithTaint under every interleaving of calls, key
\* rotations, decisions and restarts.
THEOREM DisclosureInvariant == DisclosureSpec => []DisclosureInv
BY DisclosureStart, DisclosureStep, PTL DEF DisclosureSpec

\* What RetrieveNormalised gave a caller has the one receipt of its request, of exactly
\* that delivery, and its decision allowed it at both times.
THEOREM DeliveriesAreReceipted == DisclosureSpec => []ReleasedIsReceipted
<1>1. DisclosureInv => ReleasedIsReceipted
  <2> SUFFICES ASSUME DisclosureInv, NEW x \in released
               PROVE  /\ ByRequest(x.delivery) = {x.receipt}
                      /\ x.receipt.delivery = x.delivery
                      /\ Granted(x.delivery, x.at)
                      /\ Granted(x.delivery, x.receipt.at)
    BY Zenon DEF ReleasedIsReceipted, Granted, Permits
  <2>1. x.receipt \in receipts /\ x.receipt.delivery = x.delivery /\ Granted(x.delivery, x.at)
    BY Zenon DEF DisclosureInv, ReleasesAreGranted
  <2>2. ByRequest(x.delivery) = {x.receipt}
    BY Zenon, <2>1 DEF DisclosureInv, ReceiptsAreSound, OnePerRequest, ByRequest
  <2>3. Granted(x.delivery, x.receipt.at)
    BY Zenon, <2>1 DEF DisclosureInv, ReceiptsAreSound, ReceiptsAreGranted
  <2> QED
    BY Zenon, <2>1, <2>2, <2>3
<1> QED
  BY <1>1, DisclosureInvariant, PTL

\* Some manager signed each stored receipt with all its providers, and the running
\* manager verifies it if it accepts that one: its providers include those of the
\* other, which meet its minimum and its required algorithms.  Rotations do not matter.
AcceptedReceiptsVerify ==
  \A r \in receipts : \E m \in Managers :
    SignedBy(r.signatures, m.providers) /\ (Accepts(manager, m) => Verifies(r.signatures))

\* Holds of every receipt that persistReceipt stored, across rotations and migrations.
THEOREM AcceptedManagersVerify == DisclosureSpec => []AcceptedReceiptsVerify
<1>1. DisclosureInv => AcceptedReceiptsVerify
  BY Zenon, SignedVerifies DEF DisclosureInv, ReceiptsAreSound, ReceiptsAreSigned,
     AcceptedReceiptsVerify, DisclosureTypeOK, SigningTypeOK
<1> QED
  BY <1>1, DisclosureInvariant, PTL

\* With managers that accept each other's sets (the same providers, any minimum, required
\* algorithms that the providers have), every stored receipt verifies at all times.
THEOREM RotationKeepsReceipts ==
  ASSUME \A m, n \in Managers : Accepts(n, m)
  PROVE  DisclosureSpec => []ReceiptsKeepVerifying
<1>1. DisclosureInv /\ AcceptedReceiptsVerify => ReceiptsKeepVerifying
  BY Zenon DEF AcceptedReceiptsVerify, ReceiptsKeepVerifying, DisclosureInv, DisclosureTypeOK, SigningTypeOK
<1> QED
  BY <1>1, DisclosureInvariant, AcceptedManagersVerify, PTL
=============================================================================
