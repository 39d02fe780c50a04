--------------------------- MODULE ResolutionProofs ---------------------------
(***************************************************************************)
(* For any number of clients, drivers, planners, keys and plans: one       *)
(* resolution per key, an event log that is the history of the row, a      *)
(* complete fan-out, true answers of the HTTP handler, whose steps are     *)
(* steps of the service, and event streams that miss nothing.              *)
(***************************************************************************)
EXTENDS CreateApi, Watch, TLAPS

\* An open creation has an identifier of its own whose row does not exist yet, and
\* a claimed key belongs to it alone.
CreationsAreSeparate ==
  /\ \A c \in Clients : tx[c].pc # "idle" =>
       /\ tx[c].id \in Ids /\ tx[c].key \in Keys /\ tx[c].digest \in Digests
       /\ res[tx[c].id].version = 0
       /\ tx[c].pc = "claimed" => idem[tx[c].key] = None
  /\ \A b, c \in Clients : b # c /\ tx[b].pc # "idle" /\ tx[c].pc # "idle" =>
       /\ tx[b].id # tx[c].id
       /\ tx[b].pc = "claimed" /\ tx[c].pc = "claimed" => tx[b].key # tx[c].key

\* Answers come from the key table, and rows are entered there.
KeysAreRecorded ==
  /\ \A a \in answers : idem[a.key] = [digest |-> a.digest, id |-> a.id]
  /\ \A i \in Ids : res[i].version > 0 =>
       /\ res[i].key \in Keys /\ res[i].digest \in Digests
       /\ idem[res[i].key] = [digest |-> res[i].digest, id |-> i]

\* A driver asks for a move of the graph from a state that it read.
DriversFollow ==
  \A d \in Drivers : driver[d] # None =>
    driver[d].version > 0 /\ driver[d].next \in ValidateTransition(driver[d].state)

\* Tasks exist only once the resolution has left planning.
PlannedOnce ==
  \A i \in Ids : TasksOf(i) # {} =>
    res[i].version > 0 /\ res[i].state \notin {"received", "resolving_targets", "planning"}

IInv ==
  /\ TypeOK /\ CreationsAreSeparate /\ KeysAreRecorded /\ DriversFollow /\ PlannedOnce
  /\ HistoryIsFaithful /\ FanoutIsComplete

-----------------------------------------------------------------------------
(* The graph, and the number of tasks before a plan *)

\* No tasks count as 0 targets.
LEMMA NoTasks == Cardinality({}) = 0
<1> DEFINE count(f, T) == IF T = {} THEN 0 ELSE 1 + f[T \ {CHOOSE x : x \in T}]
           C == CHOOSE f : f = [T \in SUBSET {} |-> count(f, T)]
           zero == [T \in SUBSET {} |-> 0]
<1>1. SUBSET {} = {{}}
  BY Zenon
<1>2. zero = [T \in SUBSET {} |-> count(zero, T)]
  BY Zenon, <1>1
<1>3. C = [T \in SUBSET {} |-> count(C, T)]
  BY Zenon, <1>2
<1>4. C[{}] = count(C, {})
  BY Zenon, <1>1, <1>3
<1> QED
  BY Zenon, <1>4 DEF Cardinality

\* Legal moves stay within the states, and none leads back to planning or before.
LEMMA GraphIsForward ==
  ASSUME NEW s \in States, NEW t \in ValidateTransition(s)
  PROVE  /\ t \in States
         /\ s \notin {"received", "resolving_targets", "planning"} =>
              t \notin {"received", "resolving_targets", "planning"}
BY Zenon DEF ValidateTransition, AllowedTransitions, States, Terminal, Ended

\* Planning may be queued.
LEMMA PlanningIsQueued == "queued" \in ValidateTransition("planning")
BY Zenon DEF ValidateTransition, AllowedTransitions, Terminal, Ended

-----------------------------------------------------------------------------
(* A row and its event *)

\* Row i takes its next version, in state s, together with event e.
Moves(i, s, e) ==
  /\ res' \in [Ids -> ResolutionRow]
  /\ \A j \in Ids \ {i} : res'[j] = res[j]
  /\ res'[i].version = res[i].version + 1 /\ res'[i].state = s
  /\ e \in Event /\ e.id = i /\ e.version = res[i].version + 1 /\ e.state = s
  /\ events' = events \cup {e}
  /\ res[i].version > 0 => s \in ValidateTransition(res[i].state)

\* The log stays the history of the row.
LEMMA MovesKeepHistory ==
  ASSUME TypeOK, HistoryIsFaithful, NEW i \in Ids, NEW s, NEW e, Moves(i, s, e)
  PROVE  HistoryIsFaithful'
<1>1. res[i].version \in Nat /\ events \subseteq Event
  BY Zenon DEF TypeOK, ResolutionRow
<1> DEFINE v == res[i].version
<1>2. ASSUME NEW j \in Ids, j # i
      PROVE  History(j)' = History(j) /\ res'[j] = res[j]
  BY Zenon, <1>2 DEF Moves, History
<1>3. History(i)' = History(i) \cup {e} /\ e.version = v + 1 /\ e.state = s
  BY Zenon DEF Moves, History
<1>4. /\ {f.version : f \in History(i)} = 1..v
      /\ \A f \in History(i) : f.version \in 1..v /\ f.version = v => f.state = res[i].state
  BY Zenon DEF HistoryIsFaithful
<1>5. {f.version : f \in History(i)'} = 1..(v + 1)
  <2>1. {f.version : f \in History(i)'} = {f.version : f \in History(i)} \cup {v + 1}
    BY <1>3
  <2>2. ASSUME NEW n \in Nat PROVE (1..n) \cup {n + 1} = 1..(n + 1)
    OBVIOUS
  <2> QED
    BY Zenon, <1>1, <1>4, <2>1, <2>2
<1>6. \A f \in History(i) : f.version \in 1..v
  BY Zenon, <1>4
<1>7. ASSUME NEW f \in History(i)', NEW g \in History(i)'
      PROVE  /\ f.version = g.version => f = g
             /\ g.version = f.version + 1 => g.state \in ValidateTransition(f.state)
  <2>1. CASE f \in History(i) /\ g \in History(i)
    BY Zenon, <2>1 DEF HistoryIsFaithful
  <2>2. CASE f \in History(i) /\ g = e
    <3>1. f.version # g.version
      BY <1>1, <1>3, <1>6, <2>2
    <3>2. g.version = f.version + 1 => f.version = v
      BY <1>1, <1>3, <1>6, <2>2
    <3>3. f.version = v => f.state = res[i].state
      BY Zenon, <2>2 DEF HistoryIsFaithful
    <3>4. v > 0
      BY <1>1, <1>6, <2>2
    <3> QED
      BY Zenon, <1>3, <2>2, <3>1, <3>2, <3>3, <3>4 DEF Moves
  <2>3. CASE f = e /\ g \in History(i)
    BY <1>1, <1>3, <1>6, <2>3
  <2>4. CASE f = e /\ g = e
    BY <1>1, <1>3, <2>4
  <2> QED
    BY Zenon, <1>3, <2>1, <2>2, <2>3, <2>4
<1>8. \A f \in History(i)' : f.version = res'[i].version => f.state = res'[i].state
  BY <1>1, <1>3, <1>6 DEF Moves
<1>9. ASSUME NEW j \in Ids
      PROVE  /\ {f.version : f \in History(j)'} = 1..res'[j].version
             /\ \A f, g \in History(j)' :
                  /\ f.version = g.version => f = g
                  /\ g.version = f.version + 1 => g.state \in ValidateTransition(f.state)
             /\ \A f \in History(j)' : f.version = res'[j].version => f.state = res'[j].state
  <2>1. CASE j = i
    BY Zenon, <1>5, <1>7, <1>8, <2>1 DEF Moves
  <2>2. CASE j # i
    BY <1>2, <2>2 DEF HistoryIsFaithful
  <2> QED
    BY Zenon, <2>1, <2>2
<1> QED
  BY Zenon, <1>9 DEF HistoryIsFaithful

\* Without an announcement the tasks stay as they are, and so does their count.
LEMMA MovesKeepTasks ==
  ASSUME IInv, NEW i \in Ids, NEW s, NEW e, Moves(i, s, e),
         e.type # "resolution.tasks_queued", res'[i].targets = res[i].targets,
         s \in States, UNCHANGED <<tasks, acks>>
  PROVE  FanoutIsComplete' /\ PlannedOnce'
<1>1. \A j \in Ids : TasksOf(j)' = TasksOf(j) /\ res'[j].targets = res[j].targets
  BY Zenon DEF TasksOf, Moves
<1>2. ASSUME NEW j \in Ids
      PROVE  (\E f \in History(j)' : f.type = "resolution.tasks_queued")
               <=> \E f \in History(j) : f.type = "resolution.tasks_queued"
  BY Zenon DEF Moves, History
<1>3. FanoutIsComplete'
  <2>1. \A a \in acks : a.id \in Ids
    BY Zenon DEF IInv, TypeOK
  <2> QED
    BY Zenon, <1>1, <1>2, <2>1 DEF IInv, FanoutIsComplete
<1>4. ASSUME NEW j \in Ids, TasksOf(j)' # {}
      PROVE  res'[j].version > 0 /\ res'[j].state \notin {"received", "resolving_targets", "planning"}
  <2>1. res[j].version > 0 /\ res[j].state \notin {"received", "resolving_targets", "planning"}
    BY Zenon, <1>1, <1>4 DEF IInv, PlannedOnce
  <2>2. res[j].state \in States /\ res[j].version \in Nat
    BY Zenon DEF IInv, TypeOK, ResolutionRow
  <2>3. CASE j = i
    BY <2>1, <2>2, <2>3, GraphIsForward DEF Moves
  <2>4. CASE j # i
    BY Zenon, <2>1, <2>4 DEF Moves
  <2> QED
    BY Zenon, <2>3, <2>4
<1> QED
  BY Zenon, <1>3, <1>4 DEF PlannedOnce

\* A row that exists keeps its key, and is in no open creation.
LEMMA MovesKeepKeys ==
  ASSUME IInv, NEW i \in Ids, NEW s, NEW e, Moves(i, s, e), res[i].version > 0,
         res'[i].key = res[i].key, res'[i].digest = res[i].digest,
         UNCHANGED <<idem, tx, answers>>
  PROVE  KeysAreRecorded' /\ CreationsAreSeparate'
<1>1. \A j \in Ids : res'[j].key = res[j].key /\ res'[j].digest = res[j].digest
  BY Zenon DEF Moves
<1>2. \A j \in Ids : res[j].version \in Nat /\ (res'[j].version > 0 => res[j].version > 0)
  BY Zenon DEF Moves, IInv, TypeOK, ResolutionRow
<1>3. KeysAreRecorded'
  BY Zenon, <1>1, <1>2 DEF IInv, KeysAreRecorded
<1>4. \A c \in Clients : tx[c].pc # "idle" => res'[tx[c].id] = res[tx[c].id]
  BY DEF IInv, CreationsAreSeparate, Moves
<1>5. CreationsAreSeparate'
  BY Zenon, <1>4 DEF IInv, CreationsAreSeparate
<1> QED
  BY Zenon, <1>3, <1>5

-----------------------------------------------------------------------------
(* Create *)

\* Steps of a creation before its commit leave rows, keys, events and tasks alone.
LEMMA RowsUnchanged ==
  ASSUME IInv, UNCHANGED <<res, idem, events, tasks, driver, acks>>,
         tx' \in [Clients -> Transaction],
         answers' \in SUBSET [key: Keys, digest: Digests, id: Ids],
         \A a \in answers' : idem[a.key] = [digest |-> a.digest, id |-> a.id],
         CreationsAreSeparate'
  PROVE  IInv'
<1>1. TypeOK' /\ KeysAreRecorded' /\ DriversFollow'
  BY Zenon DEF IInv, TypeOK, KeysAreRecorded, DriversFollow
<1>2. \A i \in Ids : History(i)' = History(i) /\ TasksOf(i)' = TasksOf(i)
  BY Zenon DEF History, TasksOf
<1>3. \A a \in acks : a.id \in Ids
  BY Zenon DEF IInv, TypeOK
<1>4. PlannedOnce' /\ HistoryIsFaithful' /\ FanoutIsComplete'
  BY <1>2, <1>3 DEF IInv, PlannedOnce, HistoryIsFaithful, FanoutIsComplete
<1> QED
  BY Zenon, <1>1, <1>4 DEF IInv

\* A transaction that ends leaves the others separate.
LEMMA EndingKeepsSeparate ==
  ASSUME IInv, NEW c \in Clients, UNCHANGED <<res, idem>>,
         tx' = [tx EXCEPT ![c] = NoTransaction]
  PROVE  CreationsAreSeparate' /\ tx' \in [Clients -> Transaction]
<1>1. NoTransaction \in Transaction /\ NoTransaction.pc = "idle"
  BY Zenon DEF NoTransaction, Transaction
<1>2. tx' \in [Clients -> Transaction] /\ tx'[c].pc = "idle"
      /\ \A b \in Clients \ {c} : tx'[b] = tx[b]
  BY Zenon, <1>1 DEF IInv, TypeOK
<1> QED
  BY <1>2 DEF IInv, CreationsAreSeparate

\* A row is inserted under an identifier that is free.
LEMMA InsertHolds ==
  ASSUME IInv, NEW c \in Clients, CreateInsert(c)
  PROVE  IInv'
<1>1. PICK i \in Ids, k \in Keys, d \in Digests :
        /\ res[i].version = 0 /\ \A b \in Clients : tx[b].id # i
        /\ tx' = [tx EXCEPT ![c] = [pc |-> "inserted", id |-> i, key |-> k, digest |-> d]]
  BY Zenon DEF CreateInsert
<1> DEFINE n == [pc |-> "inserted", id |-> i, key |-> k, digest |-> d]
<1>2. n \in Transaction /\ n.pc = "inserted" /\ n.id = i /\ n.key = k /\ n.digest = d
  BY Zenon DEF Transaction
<1> HIDE DEF n
<1>3. tx' \in [Clients -> Transaction] /\ tx'[c] = n /\ \A b \in Clients \ {c} : tx'[b] = tx[b]
  BY Zenon, <1>1, <1>2 DEF IInv, TypeOK, n
<1>4. CreationsAreSeparate'
  <2>1. UNCHANGED <<res, idem>>
    BY Zenon DEF CreateInsert
  <2> QED
    BY <1>1, <1>2, <1>3, <2>1 DEF IInv, CreationsAreSeparate
<1> QED
  BY Zenon, <1>3, <1>4, RowsUnchanged DEF CreateInsert, IInv, TypeOK, KeysAreRecorded

\* A key is claimed that nobody else claims, or the answer is the recorded one.
LEMMA ClaimKeyHolds ==
  ASSUME IInv, NEW c \in Clients, CreateClaimKey(c)
  PROVE  IInv'
<1> DEFINE found == idem[tx[c].key]
<1>1. /\ tx[c].pc = "inserted" /\ ~KeyLocked(c) /\ UNCHANGED <<res, idem, events, tasks, driver, acks>>
      /\ tx[c] \in Transaction /\ tx[c].key \in Keys
  BY Zenon DEF CreateClaimKey, IInv, TypeOK, CreationsAreSeparate
<1>2. CASE found = None /\ tx' = [tx EXCEPT ![c].pc = "claimed"] /\ UNCHANGED answers
  <2>1. [tx[c] EXCEPT !.pc = "claimed"] \in Transaction
    BY Zenon, <1>1 DEF Transaction
  <2>2. tx' \in [Clients -> Transaction] /\ \A b \in Clients \ {c} : tx'[b] = tx[b]
    BY Zenon, <1>2, <2>1 DEF IInv, TypeOK
  <2>3. /\ tx'[c].pc = "claimed" /\ tx'[c].id = tx[c].id /\ tx'[c].key = tx[c].key
        /\ tx'[c].digest = tx[c].digest
    BY Zenon, <1>1, <1>2 DEF IInv, TypeOK, Transaction
  <2>4. \A b \in Clients \ {c} : tx[b].pc = "claimed" => tx[b].key # tx[c].key
    BY Zenon, <1>1 DEF KeyLocked
  <2>5. CreationsAreSeparate'
    BY <1>1, <1>2, <2>2, <2>3, <2>4 DEF IInv, CreationsAreSeparate
  <2> QED
    BY Zenon, <1>1, <1>2, <2>2, <2>5, RowsUnchanged DEF IInv, TypeOK, KeysAreRecorded
<1>3. CASE /\ found # None /\ tx' = [tx EXCEPT ![c] = NoTransaction]
           /\ answers' = IF found.digest = tx[c].digest
                THEN answers \cup {[key |-> tx[c].key, digest |-> found.digest, id |-> found.id]}
                ELSE answers
  <2>1. found \in [digest: Digests, id: Ids]
    BY Zenon, <1>1, <1>3 DEF IInv, TypeOK
  <2> DEFINE a == [key |-> tx[c].key, digest |-> found.digest, id |-> found.id]
  <2>2. a \in [key: Keys, digest: Digests, id: Ids] /\ idem[a.key] = [digest |-> a.digest, id |-> a.id]
    BY Zenon, <1>1, <2>1
  <2>3. answers' \subseteq answers \cup {a}
    BY Zenon, <1>3
  <2> HIDE DEF a
  <2>4. /\ answers' \in SUBSET [key: Keys, digest: Digests, id: Ids]
        /\ \A b \in answers' : idem[b.key] = [digest |-> b.digest, id |-> b.id]
    BY Zenon, <2>2, <2>3 DEF IInv, TypeOK, KeysAreRecorded
  <2> QED
    BY Zenon, <1>1, <1>3, <2>4, EndingKeepsSeparate, RowsUnchanged
<1> QED
  BY Zenon, <1>2, <1>3 DEF CreateClaimKey

\* The commit writes row, key and first event.
LEMMA CommitHolds ==
  ASSUME IInv, NEW c \in Clients, CreateCommit(c)
  PROVE  IInv'
<1> DEFINE t == tx[c]
           e == [id |-> t.id, version |-> 1, state |-> "received", type |-> "resolution.received"]
           entry == [digest |-> t.digest, id |-> t.id]
           answer == [key |-> t.key, digest |-> t.digest, id |-> t.id]
<1>1. /\ t.pc = "claimed" /\ t.id \in Ids /\ t.key \in Keys /\ t.digest \in Digests
      /\ res[t.id].version = 0 /\ idem[t.key] = None
  BY Zenon DEF CreateCommit, IInv, CreationsAreSeparate
<1>2. PICK now \in Times :
        res' = [res EXCEPT ![t.id] =
          [state |-> "received", version |-> 1, key |-> t.key, digest |-> t.digest,
           targets |-> 0, updated |-> now]]
  BY Zenon DEF CreateCommit
<1>3. /\ idem' = [idem EXCEPT ![t.key] = entry] /\ events' = events \cup {e}
      /\ tx' = [tx EXCEPT ![c] = NoTransaction] /\ answers' \subseteq answers \cup {answer}
      /\ UNCHANGED <<tasks, driver, acks>>
  BY Zenon DEF CreateCommit
<1> DEFINE row == [state |-> "received", version |-> 1, key |-> t.key, digest |-> t.digest,
                   targets |-> 0, updated |-> now]
<1>4. /\ row \in ResolutionRow /\ row.version = 1 /\ row.state = "received" /\ row.targets = 0
      /\ row.key = t.key /\ row.digest = t.digest
  BY Zenon, <1>1, ResolutionAssumption DEF ResolutionRow, States
<1>5. /\ e \in Event /\ e.id = t.id /\ e.version = 1 /\ e.state = "received"
      /\ e.type = "resolution.received"
  BY Zenon, <1>1 DEF Event, States
<1>6. entry \in [digest: Digests, id: Ids] /\ entry # None
  BY <1>1, ResolutionAssumption
<1>7. /\ answer \in [key: Keys, digest: Digests, id: Ids] /\ answer.key = t.key
      /\ [digest |-> answer.digest, id |-> answer.id] = entry
  BY Zenon, <1>1
<1> HIDE DEF row, e, entry, answer
<1>8. /\ res' \in [Ids -> ResolutionRow] /\ res'[t.id] = row
      /\ \A j \in Ids \ {t.id} : res'[j] = res[j]
  BY Zenon, <1>1, <1>2, <1>4 DEF IInv, TypeOK, row
<1>9. /\ idem' \in [Keys -> [digest: Digests, id: Ids] \cup {None}] /\ idem'[t.key] = entry
      /\ \A k \in Keys \ {t.key} : idem'[k] = idem[k]
  BY Zenon, <1>1, <1>3, <1>6 DEF IInv, TypeOK
<1>10. Moves(t.id, "received", e)
  BY <1>1, <1>3, <1>4, <1>5, <1>8 DEF Moves
<1>11. res[t.id].targets = 0
  <2>1. TasksOf(t.id) = {}
    BY <1>1 DEF IInv, PlannedOnce
  <2> QED
    BY Zenon, <1>1, <2>1, NoTasks DEF IInv, FanoutIsComplete
<1>12. FanoutIsComplete' /\ PlannedOnce'
  BY Zenon, <1>1, <1>3, <1>4, <1>5, <1>8, <1>10, <1>11, MovesKeepTasks DEF States
<1>13. HistoryIsFaithful'
  BY Zenon, <1>1, <1>10, MovesKeepHistory DEF IInv
<1>14. NoTransaction \in Transaction /\ NoTransaction.pc = "idle"
  BY Zenon DEF NoTransaction, Transaction
<1>15. /\ tx' \in [Clients -> Transaction] /\ tx'[c].pc = "idle"
       /\ \A b \in Clients \ {c} : tx'[b] = tx[b]
  BY Zenon, <1>3, <1>14 DEF IInv, TypeOK
<1>16. CreationsAreSeparate'
  <2>1. ASSUME NEW b \in Clients, tx'[b].pc # "idle"
        PROVE  /\ b # c /\ tx'[b] = tx[b] /\ tx[b].id \in Ids \ {t.id} /\ tx[b].key \in Keys
               /\ tx[b].digest \in Digests /\ res[tx[b].id].version = 0
               /\ tx[b].pc = "claimed" => tx[b].key # t.key /\ idem[tx[b].key] = None
    BY Zenon, <1>1, <1>15, <2>1 DEF IInv, CreationsAreSeparate
  <2>2. ASSUME NEW b \in Clients, tx'[b].pc # "idle"
        PROVE  /\ tx'[b].id \in Ids /\ tx'[b].key \in Keys /\ tx'[b].digest \in Digests
               /\ res'[tx'[b].id].version = 0
               /\ tx'[b].pc = "claimed" => idem'[tx'[b].key] = None
    BY <1>8, <1>9, <2>1, <2>2
  <2> QED
    BY <2>1, <2>2 DEF IInv, CreationsAreSeparate
<1>17. KeysAreRecorded'
  <2>1. ASSUME NEW a \in answers' PROVE idem'[a.key] = [digest |-> a.digest, id |-> a.id]
    <3>1. CASE a = answer
      BY Zenon, <1>7, <1>9, <3>1
    <3>2. CASE a \in answers
      <4>1. a.key \in Keys /\ a.digest \in Digests /\ a.id \in Ids
        BY Zenon, <3>2 DEF IInv, TypeOK
      <4>2. idem[a.key] = [digest |-> a.digest, id |-> a.id]
        BY Zenon, <3>2 DEF IInv, KeysAreRecorded
      <4>3. idem[a.key] # None
        BY <4>1, <4>2, ResolutionAssumption
      <4> QED
        BY Zenon, <1>1, <1>9, <4>1, <4>2, <4>3
    <3> QED
      BY Zenon, <1>3, <3>1, <3>2
  <2>2. ASSUME NEW j \in Ids, res'[j].version > 0
        PROVE  /\ res'[j].key \in Keys /\ res'[j].digest \in Digests
               /\ idem'[res'[j].key] = [digest |-> res'[j].digest, id |-> j]
    <3>1. CASE j = t.id
      BY Zenon, <1>1, <1>4, <1>8, <1>9, <3>1 DEF entry
    <3>2. CASE j # t.id
      <4>1. /\ res'[j] = res[j] /\ res[j].key \in Keys /\ res[j].digest \in Digests
            /\ idem[res[j].key] = [digest |-> res[j].digest, id |-> j]
        <5>1. res'[j] = res[j]
          BY Zenon, <1>8, <3>2
        <5> QED
          BY Zenon, <2>2, <5>1 DEF IInv, KeysAreRecorded
      <4>2. idem[res[j].key] # None
        BY <4>1, ResolutionAssumption
      <4> QED
        BY Zenon, <1>1, <1>9, <4>1, <4>2
    <3> QED
      BY Zenon, <3>1, <3>2
  <2> QED
    BY Zenon, <2>1, <2>2 DEF KeysAreRecorded
<1>18. TypeOK' /\ DriversFollow'
  BY Zenon, <1>3, <1>5, <1>7, <1>8, <1>9, <1>15 DEF IInv, TypeOK, DriversFollow
<1> QED
  BY Zenon, <1>12, <1>13, <1>16, <1>17, <1>18 DEF IInv

\* Every step of Create keeps the invariant.
LEMMA CreateHolds ==
  ASSUME IInv, NEW c \in Clients, Create(c)
  PROVE  IInv'
<1>1. CASE CreateRollback(c)
  <2>1. CreationsAreSeparate' /\ tx' \in [Clients -> Transaction]
    BY Zenon, <1>1, EndingKeepsSeparate DEF CreateRollback
  <2> QED
    BY Zenon, <1>1, <2>1, RowsUnchanged DEF CreateRollback, IInv, TypeOK, KeysAreRecorded
<1> QED
  BY Zenon, <1>1, InsertHolds, ClaimKeyHolds, CommitHolds DEF Create

-----------------------------------------------------------------------------
(* Transition *)

\* A driver remembers the version and the state that it read.
LEMMA ReadHolds ==
  ASSUME IInv, NEW d \in Drivers, TransitionRead(d)
  PROVE  IInv'
<1>1. PICK i \in Ids : /\ res[i].version > 0
                       /\ \E next \in ValidateTransition(res[i].state) :
                            driver' = [driver EXCEPT ![d] =
                              [id |-> i, version |-> res[i].version, state |-> res[i].state, next |-> next]]
  BY Zenon DEF TransitionRead
<1>2. PICK next \in ValidateTransition(res[i].state) :
        driver' = [driver EXCEPT ![d] =
          [id |-> i, version |-> res[i].version, state |-> res[i].state, next |-> next]]
  BY Zenon, <1>1
<1> DEFINE call == [id |-> i, version |-> res[i].version, state |-> res[i].state, next |-> next]
<1>3. res[i].state \in States /\ res[i].version \in Nat
  BY Zenon DEF IInv, TypeOK, ResolutionRow
<1>4. /\ call \in Call /\ call.version = res[i].version /\ call.state = res[i].state
      /\ call.next = next
  BY Zenon, <1>3, GraphIsForward DEF Call
<1> HIDE DEF call
<1>5. driver' \in [Drivers -> Call \cup {None}] /\ driver'[d] = call
      /\ \A b \in Drivers \ {d} : driver'[b] = driver[b]
  BY Zenon, <1>2, <1>4 DEF IInv, TypeOK, call
<1>6. DriversFollow'
  BY Zenon, <1>1, <1>4, <1>5 DEF IInv, DriversFollow
<1>7. UNCHANGED <<res, idem, events, tasks, tx, answers, acks>>
  BY Zenon DEF TransitionRead
<1>8. TypeOK' /\ CreationsAreSeparate' /\ KeysAreRecorded'
  <2>1. TypeOK'
    BY Zenon, <1>5, <1>7 DEF IInv, TypeOK
  <2>2. CreationsAreSeparate' /\ KeysAreRecorded'
    BY Zenon, <1>7 DEF IInv, CreationsAreSeparate, KeysAreRecorded
  <2> QED
    BY Zenon, <2>1, <2>2
<1>9. \A j \in Ids : History(j)' = History(j) /\ TasksOf(j)' = TasksOf(j)
  BY Zenon, <1>7 DEF History, TasksOf
<1>10. \A a \in acks : a.id \in Ids
  BY Zenon DEF IInv, TypeOK
<1>11. PlannedOnce' /\ HistoryIsFaithful' /\ FanoutIsComplete'
  BY <1>7, <1>9, <1>10 DEF IInv, PlannedOnce, HistoryIsFaithful, FanoutIsComplete
<1> QED
  BY Zenon, <1>6, <1>8, <1>11 DEF IInv

\* The compare-and-set moves a row that is still the one that was read.
LEMMA TransitionCommitHolds ==
  ASSUME IInv, NEW d \in Drivers, TransitionCommit(d)
  PROVE  IInv'
<1> DEFINE call == driver[d]
           e == [id |-> call.id, version |-> call.version + 1, state |-> call.next,
                 type |-> "resolution.state_changed"]
<1>1. /\ call \in Call /\ call.version > 0 /\ call.next \in ValidateTransition(call.state)
      /\ driver' = [driver EXCEPT ![d] = None] /\ UNCHANGED <<idem, tasks, tx, answers, acks>>
  BY Zenon DEF TransitionCommit, IInv, TypeOK, DriversFollow
<1>2. call.id \in Ids /\ call.version \in Nat /\ call.next \in States /\ call.state \in States
  BY Zenon, <1>1 DEF Call
<1>3. driver' \in [Drivers -> Call \cup {None}] /\ DriversFollow'
  BY Zenon, <1>1 DEF IInv, TypeOK, DriversFollow
<1>4. CASE UNCHANGED <<res, events>>
  <2>1. TypeOK' /\ CreationsAreSeparate' /\ KeysAreRecorded'
    <3>1. TypeOK'
      BY Zenon, <1>1, <1>3, <1>4 DEF IInv, TypeOK
    <3>2. CreationsAreSeparate' /\ KeysAreRecorded'
      BY Zenon, <1>1, <1>4 DEF IInv, CreationsAreSeparate, KeysAreRecorded
    <3> QED
      BY Zenon, <3>1, <3>2
  <2>2. \A j \in Ids : History(j)' = History(j) /\ TasksOf(j)' = TasksOf(j)
    BY Zenon, <1>1, <1>4 DEF History, TasksOf
  <2>3. \A a \in acks : a.id \in Ids
    BY Zenon DEF IInv, TypeOK
  <2>4. PlannedOnce' /\ HistoryIsFaithful' /\ FanoutIsComplete'
    BY <1>1, <1>4, <2>2, <2>3 DEF IInv, PlannedOnce, HistoryIsFaithful, FanoutIsComplete
  <2> QED
    BY Zenon, <1>3, <2>1, <2>4 DEF IInv
<1>5. ASSUME NEW now \in Times, Unchanged(call, now),
             res' = [res EXCEPT ![call.id] =
               [@ EXCEPT !.state = call.next, !.version = call.version + 1, !.updated = now]],
             events' = events \cup {e}
      PROVE  IInv'
  <2> DEFINE i == call.id
             old == res[i]
             row == [old EXCEPT !.state = call.next, !.version = call.version + 1, !.updated = now]
  <2>1. old \in ResolutionRow /\ old.version = call.version /\ old.state = call.state /\ now \in Nat
    BY Zenon, <1>2, <1>5, ResolutionAssumption DEF IInv, TypeOK, Unchanged
  <2> HIDE DEF old
  <2>2. /\ row \in ResolutionRow /\ row.state = call.next /\ row.version = call.version + 1
        /\ row.key = old.key /\ row.digest = old.digest /\ row.targets = old.targets
    <3>1. call.version + 1 \in Nat
      BY <1>2
    <3>2. row \in ResolutionRow
      BY Zenon, <1>2, <2>1, <3>1 DEF ResolutionRow
    <3>3. /\ row.state = call.next /\ row.version = call.version + 1
          /\ row.key = old.key /\ row.digest = old.digest /\ row.targets = old.targets
      BY <2>1, Zenon DEF ResolutionRow
    <3> QED
      BY Zenon, <3>2, <3>3
  <2>3. res' \in [Ids -> ResolutionRow] /\ res'[i] = row /\ \A j \in Ids \ {i} : res'[j] = res[j]
    BY Zenon, <1>2, <1>5, <2>2 DEF IInv, TypeOK, old
  <2>4. /\ e \in Event /\ e.id = i /\ e.version = call.version + 1 /\ e.state = call.next
        /\ e.type = "resolution.state_changed"
    BY <1>2 DEF Event
  <2> HIDE DEF row, e
  <2>5. Moves(i, call.next, e)
    BY Zenon, <1>1, <1>5, <2>1, <2>2, <2>3, <2>4 DEF Moves, old
  <2>6. res[i].version > 0 /\ res'[i].key = res[i].key /\ res'[i].digest = res[i].digest
        /\ res'[i].targets = res[i].targets
    BY Zenon, <1>1, <2>1, <2>2, <2>3 DEF old
  <2>7. KeysAreRecorded' /\ CreationsAreSeparate'
    BY Zenon, <1>1, <1>2, <2>5, <2>6, MovesKeepKeys
  <2>8. FanoutIsComplete' /\ PlannedOnce'
    BY Zenon, <1>1, <1>2, <2>4, <2>5, <2>6, MovesKeepTasks
  <2>9. HistoryIsFaithful'
    BY Zenon, <1>2, <2>5, MovesKeepHistory DEF IInv
  <2>10. TypeOK'
    BY Zenon, <1>1, <1>3, <1>5, <2>3, <2>4 DEF IInv, TypeOK
  <2> QED
    BY Zenon, <1>3, <2>7, <2>8, <2>9, <2>10 DEF IInv
<1> QED
  BY Zenon, <1>4, <1>5 DEF TransitionCommit

-----------------------------------------------------------------------------
(* Queue *)

\* A fan-out creates all tasks of a plan for a resolution that had none.
LEMMA QueueHolds ==
  ASSUME IInv, NEW p \in Planners, NEW i \in Ids, NEW plan \in Plans, Queue(p, i, plan)
  PROVE  IInv'
<1>1. PICK expected \in 1..res[i].version, now \in Times :
        /\ CreateFanoutContext(i, plan, expected, now)
        /\ \/ acks' = acks \cup {[id |-> i, version |-> expected + 1, plan |-> plan, planner |-> p]}
           \/ UNCHANGED acks
  BY Zenon DEF Queue
<1> DEFINE old == res[i]
           stamp == IF now > old.updated THEN now ELSE old.updated
           row == [old EXCEPT !.state = "queued", !.version = expected + 1,
                     !.targets = Cardinality(plan), !.updated = stamp]
           e == [id |-> i, version |-> expected + 1, state |-> "queued",
                 type |-> "resolution.tasks_queued"]
           ack == [id |-> i, version |-> expected + 1, plan |-> plan, planner |-> p]
<1>2. /\ old.version = expected /\ old.state = "planning" /\ \A t \in plan : tasks[t] = None
      /\ tasks' = [t \in TaskIds |-> IF t \in plan THEN i ELSE tasks[t]]
      /\ res' = [res EXCEPT ![i] = row] /\ events' = events \cup {e}
      /\ UNCHANGED <<idem, tx, driver, answers>>
  BY Zenon, <1>1 DEF CreateFanoutContext, Plannable, FreeTasks
<1>3. old \in ResolutionRow /\ stamp \in Nat /\ expected \in Nat /\ expected > 0
  BY <1>1, ResolutionAssumption DEF IInv, TypeOK, ResolutionRow
<1>4. plan \subseteq TaskIds /\ plan # {} /\ i # None
  BY Zenon, ResolutionAssumption
<1> HIDE DEF stamp, old
<1>5. /\ row \in ResolutionRow /\ row.state = "queued" /\ row.version = expected + 1
      /\ row.key = old.key /\ row.digest = old.digest /\ row.targets = Cardinality(plan)
  <2>1. expected + 1 \in Nat /\ "queued" \in States
    BY <1>3 DEF States
  <2>2. row \in ResolutionRow
    BY Zenon, <1>3, <2>1 DEF ResolutionRow
  <2>3. /\ row.state = "queued" /\ row.version = expected + 1
        /\ row.key = old.key /\ row.digest = old.digest /\ row.targets = Cardinality(plan)
    BY <1>3, Zenon DEF ResolutionRow
  <2> QED
    BY Zenon, <2>2, <2>3
<1>6. /\ e \in Event /\ e.id = i /\ e.version = expected + 1 /\ e.state = "queued"
      /\ e.type = "resolution.tasks_queued"
  BY <1>3 DEF Event, States
<1>7. /\ ack \in [id: Ids, version: Nat, plan: Plans, planner: Planners]
      /\ ack.id = i /\ ack.plan = plan
  BY <1>3
<1>8. acks' \subseteq acks \cup {ack}
  BY Zenon, <1>1
<1> HIDE DEF row, e, ack
<1>9. res' \in [Ids -> ResolutionRow] /\ res'[i] = row /\ \A j \in Ids \ {i} : res'[j] = res[j]
  BY Zenon, <1>2, <1>5 DEF IInv, TypeOK
<1>10. Moves(i, "queued", e)
  BY Zenon, <1>2, <1>3, <1>5, <1>6, <1>9, PlanningIsQueued DEF Moves, old
<1>11. HistoryIsFaithful'
  BY Zenon, <1>10, MovesKeepHistory DEF IInv
<1>12. KeysAreRecorded' /\ CreationsAreSeparate'
  BY Zenon, <1>2, <1>3, <1>5, <1>9, <1>10, MovesKeepKeys DEF old
<1>13. TasksOf(i) = {}
  BY Zenon, <1>2 DEF IInv, PlannedOnce, old
<1>14. TasksOf(i)' = plan
  BY Zenon, <1>2, <1>4, <1>13 DEF TasksOf
<1>15. ASSUME NEW j \in Ids, j # i PROVE TasksOf(j)' = TasksOf(j)
  BY Zenon, <1>2, <1>4, <1>15, ResolutionAssumption DEF TasksOf
<1>16. PlannedOnce'
  BY <1>2, <1>3, <1>5, <1>9, <1>15 DEF IInv, PlannedOnce, old
<1>17. ASSUME NEW j \in Ids
       PROVE  /\ TasksOf(j)' \in Plans \cup {{}}
              /\ res'[j].targets = Cardinality(TasksOf(j)')
              /\ TasksOf(j)' # {} <=> \E f \in History(j)' : f.type = "resolution.tasks_queued"
  <2>1. CASE j = i
    <3>1. e \in History(i)'
      BY Zenon, <1>2, <1>6 DEF History
    <3> QED
      BY Zenon, <1>4, <1>5, <1>6, <1>9, <1>14, <2>1, <3>1
  <2>2. CASE j # i
    <3>1. History(j)' = History(j)
      BY Zenon, <1>2, <1>6, <2>2 DEF History
    <3> QED
      BY <1>9, <1>15, <2>2, <3>1 DEF IInv, FanoutIsComplete
  <2> QED
    BY Zenon, <2>1, <2>2
<1>18. \A a \in acks : a.id \in Ids /\ a.id # i
  <2>1. \A a \in acks : a.id \in Ids /\ a.plan \in Plans /\ a.plan = TasksOf(a.id)
    BY Zenon DEF IInv, TypeOK, FanoutIsComplete
  <2> QED
    BY Zenon, <1>13, <2>1, ResolutionAssumption
<1>19. \A a, b \in acks' : a.plan = TasksOf(a.id)' /\ (a.id = b.id => a = b)
  <2>1. ASSUME NEW a \in acks' PROVE a.plan = TasksOf(a.id)'
    BY Zenon, <1>7, <1>8, <1>14, <1>15, <1>18 DEF IInv, FanoutIsComplete
  <2>2. ASSUME NEW a \in acks', NEW b \in acks', a.id = b.id PROVE a = b
    BY Zenon, <1>7, <1>8, <1>18, <2>2 DEF IInv, FanoutIsComplete
  <2> QED
    BY Zenon, <2>1, <2>2
<1>20. FanoutIsComplete'
  BY Zenon, <1>17, <1>19 DEF FanoutIsComplete
<1>21. TypeOK' /\ DriversFollow'
  BY Zenon, <1>2, <1>6, <1>7, <1>8, <1>9 DEF IInv, TypeOK, DriversFollow
<1> QED
  BY Zenon, <1>11, <1>12, <1>16, <1>20, <1>21 DEF IInv

-----------------------------------------------------------------------------
(* Theorems *)

\* Nothing exists at first.
LEMMA InitHolds == Init => IInv
<1> SUFFICES ASSUME Init PROVE IInv
  BY Zenon
<1>1. NoResolution \in ResolutionRow /\ NoResolution.version = 0 /\ NoResolution.targets = 0
  BY Zenon DEF NoResolution, ResolutionRow, States
<1>2. NoTransaction \in Transaction /\ NoTransaction.pc = "idle"
  BY Zenon DEF NoTransaction, Transaction
<1>3. TypeOK
  BY Zenon, <1>1, <1>2 DEF Init, TypeOK
<1>4. CreationsAreSeparate /\ KeysAreRecorded /\ DriversFollow
  BY <1>1, <1>2 DEF Init, CreationsAreSeparate, KeysAreRecorded, DriversFollow
<1>5. \A i \in Ids : TasksOf(i) = {} /\ History(i) = {} /\ res[i].version = 0 /\ res[i].targets = 0
  BY Zenon, <1>1, ResolutionAssumption DEF Init, TasksOf, History
<1>6. PlannedOnce /\ HistoryIsFaithful
  <2>1. 1..0 = {}
    OBVIOUS
  <2>2. ASSUME NEW i \in Ids PROVE {e.version : e \in History(i)} = 1..res[i].version
    <3>1. {e.version : e \in History(i)} = {}
      BY Zenon, <1>5
    <3> QED
      BY Zenon, <1>5, <2>1, <3>1
  <2> QED
    BY Zenon, <1>5, <2>2 DEF PlannedOnce, HistoryIsFaithful
<1>7. FanoutIsComplete
  BY Zenon, <1>5, NoTasks DEF Init, FanoutIsComplete
<1> QED
  BY Zenon, <1>3, <1>4, <1>6, <1>7 DEF IInv

\* Every step keeps the inductive invariant.
LEMMA NextHolds == IInv /\ [ResolutionNext]_resVars => IInv'
<1> SUFFICES ASSUME IInv, [ResolutionNext]_resVars PROVE IInv'
  BY Zenon
<1>1. CASE UNCHANGED resVars
  BY Zenon, <1>1, RowsUnchanged DEF resVars, IInv, TypeOK, KeysAreRecorded, CreationsAreSeparate
<1>2. CASE ResolutionNext
  BY Zenon, <1>2, CreateHolds, ReadHolds, TransitionCommitHolds, QueueHolds DEF ResolutionNext, Transition
<1> QED
  BY Zenon, <1>1, <1>2

\* The inductive invariant holds in every reachable state.
LEMMA Invariance == Spec => []IInv
BY InitHolds, NextHolds, PTL DEF Spec

\* The event log of every resolution is the history of its row, whoever writes it.
THEOREM Faithful == Spec => []HistoryIsFaithful
<1>1. IInv => HistoryIsFaithful
  BY Zenon DEF IInv
<1> QED
  BY Invariance, <1>1, PTL

\* Create answers with one resolution per key, whatever races and is rolled back.
THEOREM OnePerKey == Spec => []OneResolutionPerKey
<1>1. IInv => OneResolutionPerKey
  <2> SUFFICES ASSUME IInv PROVE OneResolutionPerKey
    BY Zenon
  <2>1. ASSUME NEW a \in answers, NEW b \in answers, a.key = b.key PROVE a = b
    <3>1. [digest |-> a.digest, id |-> a.id] = [digest |-> b.digest, id |-> b.id]
      BY Zenon, <2>1 DEF IInv, KeysAreRecorded
    <3>2. /\ a \in [key: Keys, digest: Digests, id: Ids]
          /\ b \in [key: Keys, digest: Digests, id: Ids]
      BY Zenon DEF IInv, TypeOK
    <3> QED
      BY <2>1, <3>1, <3>2
  <2> QED
    BY Zenon, <2>1 DEF IInv, KeysAreRecorded, OneResolutionPerKey
<1> QED
  BY Invariance, <1>1, PTL

\* A fan-out is complete and has one winner for any set of plans.
THEOREM Complete == Spec => []FanoutIsComplete
<1>1. IInv => FanoutIsComplete
  BY Zenon DEF IInv
<1> QED
  BY Invariance, <1>1, PTL

-----------------------------------------------------------------------------
(* The HTTP handler: its steps are steps of the service, and its answers true *)

\* A step of a handler is a step of the service, or leaves the tables alone.
LEMMA HandlerSteps == [ApiNext]_apiVars => [ResolutionNext]_resVars
<1> SUFFICES ASSUME [ApiNext]_apiVars PROVE [ResolutionNext]_resVars
  BY Zenon
<1>1. CASE UNCHANGED apiVars
  BY Zenon, <1>1 DEF apiVars, resVars
<1>2. ASSUME NEW c \in Clients,
             (\E p \in Processes : Limit(c, p)) \/ Refuse(c) \/ Begin(c) \/ ClaimKey(c) \/ Commit(c) \/ Fail(c)
      PROVE  Create(c) \/ UNCHANGED resVars
  BY Zenon, <1>2 DEF Limit, Refuse, Begin, ClaimKey, Commit, Fail, Create
<1> QED
  BY Zenon, <1>1, <1>2 DEF ApiNext, ResolutionNext

\* The API implements the service: whatever the theorems say of Spec holds of ApiSpec.
THEOREM ApiImplementsService == ApiSpec => Spec
<1>1. ApiInit => Init
  BY Zenon DEF ApiInit
<1> QED
  BY <1>1, HandlerSteps, PTL DEF ApiSpec, Spec

\* What no step takes back: keys, the key and digest of a row, events.
Later ==
  /\ \A k \in Keys : idem[k] # None => idem'[k] = idem[k]
  /\ \A i \in Ids : res[i].version > 0 =>
       res'[i].version > 0 /\ res'[i].key = res[i].key /\ res'[i].digest = res[i].digest
  /\ events \subseteq events'

\* No step of the service takes anything back.
LEMMA NothingIsTakenBack == ASSUME IInv, [ResolutionNext]_resVars PROVE Later
<1>1. CASE UNCHANGED <<res, idem, events>>
  BY Zenon, <1>1 DEF Later
<1>2. ASSUME NEW c \in Clients, CreateCommit(c) PROVE Later
  <2>1. /\ tx[c].id \in Ids /\ tx[c].key \in Keys
        /\ res[tx[c].id].version = 0 /\ idem[tx[c].key] = None
    BY Zenon, <1>2 DEF CreateCommit, IInv, CreationsAreSeparate
  <2>2. /\ \A i \in Ids \ {tx[c].id} : res'[i] = res[i]
        /\ \A k \in Keys \ {tx[c].key} : idem'[k] = idem[k]
        /\ events \subseteq events'
    BY Zenon, <1>2 DEF CreateCommit, IInv, TypeOK
  <2> QED
    BY <2>1, <2>2 DEF Later
<1>3. ASSUME NEW i \in Ids, NEW row, UNCHANGED idem, events \subseteq events',
             res' = [res EXCEPT ![i] = row],
             row.version > 0, row.key = res[i].key, row.digest = res[i].digest
      PROVE  Later
  <2>1. res'[i] = row /\ \A j \in Ids \ {i} : res'[j] = res[j]
    BY Zenon, <1>3 DEF IInv, TypeOK
  <2> QED
    BY Zenon, <1>3, <2>1 DEF Later
<1>4. ASSUME NEW d \in Drivers, TransitionCommit(d) PROVE Later
  <2>1. CASE UNCHANGED <<res, events>>
    BY Zenon, <1>4, <2>1 DEF TransitionCommit, Later
  <2>2. CASE ~UNCHANGED <<res, events>>
    <3> DEFINE call == driver[d]
    <3>1. PICK now \in Times :
            /\ res' = [res EXCEPT ![call.id] =
                 [res[call.id] EXCEPT !.state = call.next, !.version = call.version + 1, !.updated = now]]
            /\ events \subseteq events' /\ UNCHANGED idem
      BY Zenon, <1>4, <2>2 DEF TransitionCommit
    <3>2. call \in Call /\ res[call.id] \in ResolutionRow
      BY Zenon, <1>4 DEF TransitionCommit, IInv, TypeOK, Call
    <3>3. call.id \in Ids /\ call.version \in Nat
      BY Zenon, <3>2 DEF Call
    <3> DEFINE row == [res[call.id] EXCEPT !.state = call.next, !.version = call.version + 1, !.updated = now]
    <3>4. row.version = call.version + 1 /\ row.key = res[call.id].key /\ row.digest = res[call.id].digest
      BY Zenon, <3>2 DEF ResolutionRow
    <3>5. res' = [res EXCEPT ![call.id] = row]
      BY Zenon, <3>1
    <3> HIDE DEF row
    <3>6. row.version > 0
      BY <3>3, <3>4
    <3> QED
      BY Zenon, <1>3, <3>1, <3>3, <3>4, <3>5, <3>6
  <2> QED
    BY Zenon, <2>1, <2>2
<1>5. ASSUME NEW p \in Planners, NEW i \in Ids, NEW plan \in Plans, Queue(p, i, plan) PROVE Later
  <2>1. PICK expected \in 1..res[i].version, now \in Times : CreateFanoutContext(i, plan, expected, now)
    BY Zenon, <1>5 DEF Queue
  <2> DEFINE row == [res[i] EXCEPT !.state = "queued", !.version = expected + 1, !.targets = Cardinality(plan),
                       !.updated = IF now > res[i].updated THEN now ELSE res[i].updated]
  <2>2. /\ res' = [res EXCEPT ![i] = row] /\ UNCHANGED idem /\ events \subseteq events'
    BY Zenon, <2>1 DEF CreateFanoutContext
  <2>3. res[i] \in ResolutionRow /\ expected \in Nat
    BY DEF IInv, TypeOK, ResolutionRow
  <2>4. row.version = expected + 1 /\ row.key = res[i].key /\ row.digest = res[i].digest
    BY Zenon, <2>3 DEF ResolutionRow
  <2> HIDE DEF row
  <2>5. row.version > 0
    BY <2>3, <2>4
  <2> QED
    BY Zenon, <1>3, <2>2, <2>4, <2>5
<1>6. ASSUME NEW c \in Clients, CreateInsert(c) \/ CreateClaimKey(c) \/ CreateRollback(c)
      PROVE  UNCHANGED <<res, idem, events>>
  BY Zenon, <1>6 DEF CreateInsert, CreateClaimKey, CreateRollback
<1>7. ASSUME NEW d \in Drivers, TransitionRead(d) PROVE UNCHANGED <<res, idem, events>>
  BY Zenon, <1>7 DEF TransitionRead
<1> QED
  BY Zenon, <1>1, <1>2, <1>4, <1>5, <1>6, <1>7 DEF ResolutionNext, Create, Transition, resVars

Canonicals == {Sorted(b) : b \in {x \in Bodies : ~HasDuplicate(x)}}

\* A key in use has its row, and holds a canonical document.
KeysHaveRows ==
  \A k \in Keys : idem[k] # None =>
    /\ res[idem[k].id].version > 0 /\ res[idem[k].id].key = k
    /\ res[idem[k].id].digest = idem[k].digest /\ idem[k].digest \in Canonicals

\* The answer r is true for caller c.
ReplyIsTrue(c, r) ==
  /\ r.status = "ACCEPTED" =>
       /\ r.id \in Ids /\ res[r.id].version > 0
       /\ res[r.id].key = want[c].key /\ Members(res[r.id].digest) = want[c].claims
       /\ \E e \in events : e.id = r.id /\ e.version = r.version /\ e.state = r.state
  /\ r.status = "IDEMPOTENCY_KEY_REUSED" =>
       /\ want[c].key \in Keys /\ idem[want[c].key] # None
       /\ Members(idem[want[c].key].digest) # want[c].claims

\* An admitted body says what the caller wants, and so does an open transaction.
HandlerIsSound(c, h) ==
  /\ ReplyIsTrue(c, h.reply)
  /\ h.pc = "admitted" => h.body \in Bodies /\ Members(h.body) = want[c].claims
  /\ h.pc = "creating" =>
       /\ tx[c].pc # "idle" /\ tx[c].key = want[c].key
       /\ tx[c].digest \in Canonicals /\ Members(tx[c].digest) = want[c].claims

Created(r) == r.status = "ACCEPTED" /\ r.created

ApiInv ==
  /\ http = [c \in Clients |-> http[c]]
  /\ KeysHaveRows
  /\ \A c \in Clients : HandlerIsSound(c, http[c])
  /\ \A b, c \in Clients :
       b # c /\ Created(http[b].reply) /\ Created(http[c].reply) => http[b].reply.id # http[c].reply.id

\* A true answer stays true.
LEMMA TruthStays ==
  ASSUME Later, UNCHANGED want, NEW c, NEW r, ReplyIsTrue(c, r)
  PROVE  ReplyIsTrue(c, r)'
<1>1. ASSUME r.status = "ACCEPTED"
      PROVE  /\ r.id \in Ids /\ res'[r.id].version > 0
             /\ res'[r.id].key = want'[c].key /\ Members(res'[r.id].digest) = want'[c].claims
             /\ \E e \in events' : e.id = r.id /\ e.version = r.version /\ e.state = r.state
  BY Zenon, <1>1 DEF Later, ReplyIsTrue
<1>2. ASSUME r.status = "IDEMPOTENCY_KEY_REUSED"
      PROVE  /\ want'[c].key \in Keys /\ idem'[want'[c].key] # None
             /\ Members(idem'[want'[c].key].digest) # want'[c].claims
  BY Zenon, <1>2 DEF Later, ReplyIsTrue
<1> QED
  BY Zenon, <1>1, <1>2 DEF ReplyIsTrue

\* A handler that does nothing stays sound while others work.
LEMMA HandlerStays ==
  ASSUME Later, UNCHANGED want, NEW b \in Clients, HandlerIsSound(b, http[b]),
         http'[b] = http[b], tx'[b] = tx[b]
  PROVE  HandlerIsSound(b, http[b])'
<1>1. PICK g : g = http[b]
  BY Zenon
<1>2. HandlerIsSound(b, g) /\ http'[b] = g
  BY Zenon, <1>1
<1>3. ReplyIsTrue(b, g.reply)'
  BY Zenon, <1>2, TruthStays DEF HandlerIsSound
<1>4. HandlerIsSound(b, g)'
  BY Zenon, <1>2, <1>3 DEF HandlerIsSound
<1> QED
  BY Zenon, <1>2, <1>4 DEF HandlerIsSound, ReplyIsTrue

\* The handler of c becomes h: the others keep what they have, and c is not told
\* that it created a row that existed.
LEMMA HandlerMoves ==
  ASSUME ApiInv, Later, UNCHANGED want, KeysHaveRows', NEW c \in Clients, NEW h,
         http' = [http EXCEPT ![c] = h], HandlerIsSound(c, h)',
         \A b \in Clients \ {c} : tx'[b] = tx[b],
         Created(h.reply) => res[h.reply.id].version = 0
  PROVE  ApiInv'
<1>1. /\ http' = [b \in Clients |-> http'[b]] /\ http'[c] = h
      /\ \A b \in Clients \ {c} : http'[b] = http[b]
  BY Zenon DEF ApiInv
<1>2. ASSUME NEW b \in Clients, b # c PROVE HandlerIsSound(b, http[b])'
  BY Zenon, <1>1, <1>2, HandlerStays DEF ApiInv
<1>3. HandlerIsSound(c, http[c])'
  BY Zenon, <1>1 DEF HandlerIsSound, ReplyIsTrue
<1>4. ASSUME NEW b \in Clients, b # c, Created(http[b].reply), Created(h.reply)
      PROVE  http[b].reply.id # h.reply.id
  <2>1. res[http[b].reply.id].version > 0
    BY Zenon, <1>4 DEF ApiInv, HandlerIsSound, ReplyIsTrue, Created
  <2> QED
    BY <1>4, <2>1
<1>5. ASSUME NEW a \in Clients, NEW b \in Clients, a # b, Created(http'[a].reply), Created(http'[b].reply)
      PROVE  http'[a].reply.id # http'[b].reply.id
  BY Zenon, <1>1, <1>4, <1>5 DEF ApiInv
<1> QED
  BY Zenon, <1>1, <1>2, <1>3, <1>5 DEF ApiInv, Created

\* The service works on without the handlers.
LEMMA HandlersStay ==
  ASSUME ApiInv, Later, UNCHANGED <<want, http, tx>>, KeysHaveRows'
  PROVE  ApiInv'
<1>1. ASSUME NEW b \in Clients PROVE HandlerIsSound(b, http[b])'
  BY Zenon, HandlerStays DEF ApiInv
<1> QED
  BY Zenon, <1>1 DEF ApiInv, Created

\* Keys that are not touched keep their rows.
LEMMA KeysKeepRows ==
  ASSUME TypeOK, KeysHaveRows, Later, UNCHANGED idem
  PROVE  KeysHaveRows'
<1>1. ASSUME NEW k \in Keys, idem[k] # None PROVE idem[k].id \in Ids
  BY Zenon, <1>1 DEF TypeOK
<1> QED
  BY Zenon, <1>1 DEF KeysHaveRows, Later

\* The handler of c returns with a true answer.
LEMMA RespondHolds ==
  ASSUME ApiInv, Later, KeysHaveRows', NEW c \in Clients, NEW reply, Respond(c, reply),
         ReplyIsTrue(c, reply)', \A b \in Clients \ {c} : tx'[b] = tx[b],
         Created(reply) => res[reply.id].version = 0
  PROVE  ApiInv'
<1>1. PICK r \in {reply, Reply("retry")} : http' = [http EXCEPT ![c] = Idle(r)]
  BY Zenon DEF Respond
<1>2. PICK h : h = Idle(r)
  BY Zenon
<1>3. h.pc = "idle" /\ h.reply = r /\ UNCHANGED want
  BY Zenon, <1>2 DEF Idle, Respond
<1>4. Reply("retry").status = "retry"
  BY Zenon DEF Reply
<1>5. ReplyIsTrue(c, r)' /\ (Created(r) => res[r.id].version = 0)
  BY Zenon, <1>4 DEF ReplyIsTrue, Created
<1>6. HandlerIsSound(c, h)'
  BY Zenon, <1>3, <1>5 DEF HandlerIsSound
<1> QED
  BY Zenon, <1>1, <1>2, <1>3, <1>5, <1>6, HandlerMoves

\* Before Create, a handler changes no table.
LEMMA UntilCreateHolds ==
  ASSUME IInv, ApiInv, NEW c \in Clients,
         \/ \E p \in Processes : Limit(c, p)
         \/ Refuse(c)
         \/ Fail(c) /\ UNCHANGED resVars
  PROVE  ApiInv'
<1>1. ASSUME UNCHANGED resVars
      PROVE  Later /\ KeysHaveRows' /\ \A b \in Clients \ {c} : tx'[b] = tx[b]
  <2>1. Later /\ UNCHANGED <<idem, tx>>
    BY Zenon, <1>1 DEF resVars, Later
  <2> QED
    BY Zenon, <2>1, KeysKeepRows DEF IInv, ApiInv
<1>2. \A s : Reply(s).status = s
  BY Zenon DEF Reply
<1>3. ASSUME NEW p \in Processes, Limit(c, p) PROVE ApiInv'
  <2>1. PICK body \in Bodies :
          /\ Members(body) = want[c].claims
          /\ \/ http' = [http EXCEPT ![c] =
                  [pc |-> "admitted", process |-> p, body |-> body, reply |-> Reply("retry")]]
             \/ http' = [http EXCEPT ![c] = Idle(Reply("retry"))]
    BY Zenon, <1>3 DEF Limit
  <2>2. PICK h : /\ http' = [http EXCEPT ![c] = h] /\ h.reply = Reply("retry")
                 /\ h.pc = "idle" \/ (h.pc = "admitted" /\ h.body = body)
    <3>1. CASE http' = [http EXCEPT ![c] = Idle(Reply("retry"))]
      <4>1. PICK h : h = Idle(Reply("retry"))
        BY Zenon
      <4>2. h.pc = "idle" /\ h.reply = Reply("retry")
        BY Zenon, <4>1 DEF Idle
      <4> QED
        BY Zenon, <3>1, <4>1, <4>2
    <3>2. CASE ~(http' = [http EXCEPT ![c] = Idle(Reply("retry"))])
      <4>1. PICK h : h = [pc |-> "admitted", process |-> p, body |-> body, reply |-> Reply("retry")]
        BY Zenon
      <4>2. h.pc = "admitted" /\ h.body = body /\ h.reply = Reply("retry")
        BY Zenon, <4>1
      <4> QED
        BY Zenon, <2>1, <3>2, <4>1, <4>2
    <3> QED
      BY Zenon, <3>1, <3>2
  <2>3. UNCHANGED want /\ UNCHANGED resVars
    BY Zenon, <1>3 DEF Limit
  <2>4. HandlerIsSound(c, h)'
    BY Zenon, <1>2, <2>1, <2>2, <2>3 DEF HandlerIsSound, ReplyIsTrue
  <2> QED
    BY Zenon, <1>1, <1>2, <2>2, <2>3, <2>4, HandlerMoves DEF Created
<1>4. ASSUME NEW s, UNCHANGED resVars, Respond(c, Reply(s)), s \notin {"ACCEPTED", "IDEMPOTENCY_KEY_REUSED"}
      PROVE  ApiInv'
  <2>1. PICK reply : reply = Reply(s)
    BY Zenon
  <2>2. reply.status = s /\ Respond(c, reply)
    BY Zenon, <1>2, <1>4, <2>1
  <2>3. ReplyIsTrue(c, reply)' /\ ~Created(reply)
    BY Zenon, <1>4, <2>2 DEF ReplyIsTrue, Created
  <2> QED
    BY Zenon, <1>1, <1>4, <2>2, <2>3, RespondHolds
<1>5. ASSUME Refuse(c) PROVE ApiInv'
  <2>1. PICK s : s = Refusal(c)
    BY Zenon
  <2>2. s \notin {"ACCEPTED", "IDEMPOTENCY_KEY_REUSED"}
    BY Zenon, <2>1 DEF Refusal
  <2> QED
    BY Zenon, <1>4, <1>5, <2>1, <2>2 DEF Refuse
<1>6. ASSUME Fail(c), UNCHANGED resVars PROVE ApiInv'
  BY Zenon, <1>4, <1>6 DEF Fail
<1> QED
  BY Zenon, <1>3, <1>5, <1>6

\* Within Create, other transactions are left alone.
LEMMA CreateIsLocal ==
  ASSUME IInv, NEW c \in Clients, Create(c)
  PROVE  Later /\ \A b \in Clients \ {c} : tx'[b] = tx[b]
<1>1. Later
  BY Zenon, NothingIsTakenBack DEF ResolutionNext
<1>2. \E x : tx' = [tx EXCEPT ![c] = x]
  BY Zenon DEF Create, CreateInsert, CreateClaimKey, CreateCommit, CreateRollback
<1> QED
  BY Zenon, <1>1, <1>2 DEF IInv, TypeOK

\* The transaction of an admitted request is about what its caller wants.
LEMMA BeginHolds ==
  ASSUME IInv, ApiInv, NEW c \in Clients, Begin(c)
  PROVE  ApiInv'
<1>1. /\ http[c].pc = "admitted" /\ Refusal(c) = "none" /\ CreateInsert(c) /\ UNCHANGED want
      /\ tx'[c].key = want[c].key /\ tx'[c].digest = Sorted(http[c].body)
  BY Zenon DEF Begin, Canonical
<1>2. PICK h : h = [pc |-> "creating", process |-> http[c].process, body |-> << >>, reply |-> Reply("retry")]
  BY Zenon
<1>3. h.pc = "creating" /\ h.reply.status = "retry" /\ http' = [http EXCEPT ![c] = h]
  BY Zenon, <1>2 DEF Reply, Begin
<1>4. http[c].body \in Bodies /\ ~HasDuplicate(http[c].body) /\ Members(http[c].body) = want[c].claims
  BY Zenon, <1>1 DEF ApiInv, HandlerIsSound, Refusal
<1>5. tx'[c].digest \in Canonicals /\ Members(tx'[c].digest) = want[c].claims
  BY Zenon, <1>1, <1>4, SortAssumption DEF Canonicals
<1>6. tx'[c].pc = "inserted" /\ UNCHANGED idem
  <2>1. PICK i \in Ids, k \in Keys, d \in Digests :
          tx' = [tx EXCEPT ![c] = [pc |-> "inserted", id |-> i, key |-> k, digest |-> d]]
    BY Zenon, <1>1 DEF CreateInsert
  <2>2. tx'[c] = [pc |-> "inserted", id |-> i, key |-> k, digest |-> d]
    BY Zenon, <2>1 DEF IInv, TypeOK
  <2>3. tx'[c].pc = "inserted"
    BY <2>2
  <2>4. UNCHANGED idem
    BY Zenon, <1>1 DEF CreateInsert
  <2> QED
    BY Zenon, <2>3, <2>4
<1>7. HandlerIsSound(c, h)' /\ ~Created(h.reply)
  BY Zenon, <1>1, <1>3, <1>5, <1>6 DEF HandlerIsSound, ReplyIsTrue, Created
<1>8. Later /\ \A b \in Clients \ {c} : tx'[b] = tx[b]
  BY Zenon, <1>1, CreateIsLocal DEF Create
<1>9. KeysHaveRows'
  BY Zenon, <1>6, <1>8, KeysKeepRows DEF IInv, ApiInv
<1> QED
  BY Zenon, <1>1, <1>3, <1>7, <1>8, <1>9, HandlerMoves

\* A key in use is answered with its resolution as it is now, or called reused
\* because canonical documents that differ have different members.
LEMMA ApiClaimKeyHolds ==
  ASSUME IInv, ApiInv, NEW c \in Clients, ClaimKey(c)
  PROVE  ApiInv'
<1>1. PICK k, found : k = tx[c].key /\ found = idem[k]
  BY Zenon
<1>2. http[c].pc = "creating" /\ CreateClaimKey(c) /\ UNCHANGED want
  BY Zenon DEF ClaimKey, Respond
<1>3. Later /\ (\A b \in Clients \ {c} : tx'[b] = tx[b]) /\ UNCHANGED <<res, idem, events>>
  BY Zenon, <1>2, CreateIsLocal DEF Create, CreateClaimKey
<1>4. KeysHaveRows'
  BY Zenon, <1>3, KeysKeepRows DEF IInv, ApiInv
<1>5. /\ tx[c].pc # "idle" /\ k = want[c].key /\ k \in Keys
      /\ tx[c].digest \in Canonicals /\ Members(tx[c].digest) = want[c].claims
  BY Zenon, <1>1, <1>2 DEF ApiInv, HandlerIsSound, IInv, CreationsAreSeparate
<1>6. CASE found = None
  <2>1. UNCHANGED http /\ tx' = [tx EXCEPT ![c].pc = "claimed"]
    BY Zenon, <1>1, <1>6 DEF ClaimKey, CreateClaimKey
  <2>2. tx[c] \in Transaction /\ tx'[c] = [tx[c] EXCEPT !.pc = "claimed"]
    BY Zenon, <2>1 DEF IInv, TypeOK
  <2>3. tx'[c].pc = "claimed" /\ tx'[c].key = tx[c].key /\ tx'[c].digest = tx[c].digest
    BY Zenon, <2>2 DEF Transaction
  <2>4. PICK h : h = http[c]
    BY Zenon
  <2>5. HandlerIsSound(c, h)'
    <3>1. ReplyIsTrue(c, h.reply)'
      BY Zenon, <1>2, <1>3, <2>4, TruthStays DEF ApiInv, HandlerIsSound
    <3> QED
      BY Zenon, <1>1, <1>2, <1>5, <2>3, <2>4, <3>1 DEF HandlerIsSound
  <2>6. HandlerIsSound(c, http[c])'
    BY Zenon, <2>1, <2>4, <2>5 DEF HandlerIsSound, ReplyIsTrue
  <2>7. ASSUME NEW b \in Clients PROVE HandlerIsSound(b, http[b])'
    BY Zenon, <1>2, <1>3, <2>1, <2>6, HandlerStays DEF ApiInv
  <2> QED
    BY Zenon, <1>4, <2>1, <2>7 DEF ApiInv, Created
<1>7. CASE found # None
  <2>1. /\ found.id \in Ids /\ res[found.id].version > 0 /\ res[found.id].key = k
        /\ res[found.id].digest = found.digest /\ found.digest \in Canonicals
    <3>1. found.id \in Ids
      BY Zenon, <1>1, <1>5, <1>7 DEF IInv, TypeOK
    <3> QED
      BY Zenon, <1>1, <1>5, <1>7, <3>1 DEF ApiInv, KeysHaveRows
  <2>2. CASE found.digest = tx[c].digest
    <3>1. PICK reply : reply = Accepted(found.id, res[found.id], FALSE)
      BY Zenon
    <3>2. /\ reply.id = found.id /\ reply.version = res[found.id].version
          /\ reply.state = res[found.id].state /\ reply.status = "ACCEPTED" /\ ~reply.created
      BY Zenon, <3>1 DEF Accepted
    <3>3. PICK e \in events :
            e.id = found.id /\ e.version = res[found.id].version /\ e.state = res[found.id].state
      <4>1. res[found.id].version \in 1..res[found.id].version
        BY <2>1 DEF IInv, TypeOK, ResolutionRow
      <4>2. res[found.id].version \in {f.version : f \in History(found.id)}
        BY Zenon, <2>1, <4>1 DEF IInv, HistoryIsFaithful
      <4>3. PICK f \in History(found.id) : f.version = res[found.id].version
        BY Zenon, <4>2
      <4> QED
        BY Zenon, <2>1, <4>3 DEF IInv, HistoryIsFaithful, History
    <3>4. ReplyIsTrue(c, reply)'
      BY Zenon, <1>2, <1>3, <1>5, <2>1, <2>2, <3>2, <3>3 DEF ReplyIsTrue
    <3>5. Respond(c, reply)
      BY Zenon, <1>1, <1>7, <2>2, <3>1 DEF ClaimKey
    <3> QED
      BY Zenon, <1>3, <1>4, <3>2, <3>4, <3>5, RespondHolds DEF Created
  <2>3. CASE found.digest # tx[c].digest
    <3>1. PICK reply : reply = Reply("IDEMPOTENCY_KEY_REUSED")
      BY Zenon
    <3>2. reply.status = "IDEMPOTENCY_KEY_REUSED"
      BY Zenon, <3>1 DEF Reply
    <3>3. Members(found.digest) # Members(tx[c].digest)
      BY Zenon, <1>5, <2>1, <2>3, SortAssumption DEF Canonicals
    <3>4. ReplyIsTrue(c, reply)'
      BY Zenon, <1>1, <1>2, <1>3, <1>5, <1>7, <3>2, <3>3 DEF ReplyIsTrue
    <3>5. Respond(c, reply)
      BY Zenon, <1>1, <1>7, <2>3, <3>1 DEF ClaimKey
    <3> QED
      BY Zenon, <1>3, <1>4, <3>2, <3>4, <3>5, RespondHolds DEF Created
  <2> QED
    BY Zenon, <2>2, <2>3
<1> QED
  BY Zenon, <1>6, <1>7

\* A commit creates the row that its caller may be told of.
LEMMA ApiCommitHolds ==
  ASSUME IInv, ApiInv, NEW c \in Clients, Commit(c)
  PROVE  ApiInv'
<1>1. PICK t : t = tx[c]
  BY Zenon
<1>2. http[c].pc = "creating" /\ CreateCommit(c) /\ UNCHANGED want /\ t.pc = "claimed"
  BY Zenon, <1>1 DEF Commit, Respond, CreateCommit
<1>3. /\ t.key = want[c].key /\ t.digest \in Canonicals /\ Members(t.digest) = want[c].claims
      /\ t.id \in Ids /\ t.key \in Keys /\ t.digest \in Digests /\ res[t.id].version = 0
  BY Zenon, <1>1, <1>2 DEF ApiInv, HandlerIsSound, IInv, CreationsAreSeparate
<1>4. Later /\ \A b \in Clients \ {c} : tx'[b] = tx[b]
  BY Zenon, <1>2, CreateIsLocal DEF Create
<1>5. PICK row, e :
        /\ row.version = 1 /\ row.state = "received" /\ row.key = t.key /\ row.digest = t.digest
        /\ e.id = t.id /\ e.version = 1 /\ e.state = "received" /\ e \in events'
        /\ res' = [res EXCEPT ![t.id] = row]
        /\ idem' = [idem EXCEPT ![t.key] = [digest |-> t.digest, id |-> t.id]]
  <2>1. PICK now \in Times :
          res' = [res EXCEPT ![t.id] =
            [state |-> "received", version |-> 1, key |-> t.key, digest |-> t.digest,
             targets |-> 0, updated |-> now]]
    BY Zenon, <1>1, <1>2 DEF CreateCommit
  <2>2. PICK row : row = [state |-> "received", version |-> 1, key |-> t.key, digest |-> t.digest,
                          targets |-> 0, updated |-> now]
    BY Zenon
  <2>3. PICK e : e = [id |-> t.id, version |-> 1, state |-> "received", type |-> "resolution.received"]
    BY Zenon
  <2>4. row.version = 1 /\ row.state = "received" /\ row.key = t.key /\ row.digest = t.digest
    BY Zenon, <2>2
  <2>5. e.id = t.id /\ e.version = 1 /\ e.state = "received"
    BY Zenon, <2>3
  <2>6. e \in events' /\ idem' = [idem EXCEPT ![t.key] = [digest |-> t.digest, id |-> t.id]]
    BY Zenon, <1>1, <1>2, <2>3 DEF CreateCommit
  <2> QED
    BY Zenon, <2>1, <2>2, <2>4, <2>5, <2>6
<1>6. /\ res'[t.id] = row /\ idem'[t.key].digest = t.digest /\ idem'[t.key].id = t.id
      /\ \A k \in Keys \ {t.key} : idem'[k] = idem[k]
  BY Zenon, <1>3, <1>5 DEF IInv, TypeOK
<1>7. KeysHaveRows'
  <2>1. ASSUME NEW k \in Keys, idem'[k] # None
        PROVE  /\ res'[idem'[k].id].version > 0 /\ res'[idem'[k].id].key = k
               /\ res'[idem'[k].id].digest = idem'[k].digest /\ idem'[k].digest \in Canonicals
    <3>1. CASE k = t.key
      <4>1. row.version > 0
        BY <1>5
      <4> QED
        BY Zenon, <1>3, <1>5, <1>6, <3>1, <4>1
    <3>2. CASE k # t.key
      <4>1. idem'[k] = idem[k]
        BY Zenon, <1>6, <3>2
      <4>2. idem[k].id \in Ids
        BY Zenon, <2>1, <4>1 DEF IInv, TypeOK
      <4>3. /\ res[idem[k].id].version > 0 /\ res[idem[k].id].key = k
            /\ res[idem[k].id].digest = idem[k].digest /\ idem[k].digest \in Canonicals
        BY Zenon, <2>1, <4>1 DEF ApiInv, KeysHaveRows
      <4> QED
        BY Zenon, <1>4, <4>1, <4>2, <4>3 DEF Later
    <3> QED
      BY Zenon, <3>1, <3>2
  <2> QED
    BY Zenon, <2>1 DEF KeysHaveRows, Canonicals
<1>8. PICK reply \in {Accepted(t.id, res'[t.id], TRUE), Reply("retry")} : Respond(c, reply)
  BY Zenon, <1>1 DEF Commit
<1>9. CASE reply = Reply("retry")
  <2>1. reply.status = "retry"
    BY Zenon, <1>9 DEF Reply
  <2> QED
    BY Zenon, <1>4, <1>7, <1>8, <2>1, RespondHolds DEF ReplyIsTrue, Created
<1>10. CASE reply = Accepted(t.id, res'[t.id], TRUE)
  <2>1. reply.status = "ACCEPTED" /\ reply.id = t.id /\ reply.version = 1 /\ reply.state = "received"
    BY Zenon, <1>5, <1>6, <1>10 DEF Accepted
  <2>2. ReplyIsTrue(c, reply)'
    <3>1. row.version > 0
      BY <1>5
    <3> QED
      BY Zenon, <1>2, <1>3, <1>5, <1>6, <2>1, <3>1 DEF ReplyIsTrue
  <2> QED
    BY Zenon, <1>3, <1>4, <1>7, <1>8, <2>1, <2>2, RespondHolds
<1> QED
  BY Zenon, <1>8, <1>9, <1>10

\* A failed Create leaves its caller to retry.
LEMMA ApiFailHolds ==
  ASSUME IInv, ApiInv, NEW c \in Clients, Fail(c), CreateRollback(c)
  PROVE  ApiInv'
<1>1. Later /\ (\A b \in Clients \ {c} : tx'[b] = tx[b]) /\ UNCHANGED idem
  BY Zenon, CreateIsLocal DEF Create, CreateRollback
<1>2. KeysHaveRows'
  BY Zenon, <1>1, KeysKeepRows DEF IInv, ApiInv
<1>3. PICK reply : reply = Reply("retry")
  BY Zenon
<1>4. Respond(c, reply) /\ reply.status = "retry"
  BY Zenon, <1>3 DEF Fail, Reply
<1> QED
  BY Zenon, <1>1, <1>2, <1>4, RespondHolds DEF ReplyIsTrue, Created

\* Every step keeps the answers true.
LEMMA ApiNextHolds == IInv /\ ApiInv /\ [ApiNext]_apiVars => ApiInv'
<1> SUFFICES ASSUME IInv, ApiInv, [ApiNext]_apiVars PROVE ApiInv'
  BY Zenon
<1>1. Later
  BY Zenon, HandlerSteps, NothingIsTakenBack
<1>2. ASSUME UNCHANGED <<want, http, tx, idem>> PROVE ApiInv'
  BY Zenon, <1>1, <1>2, HandlersStay, KeysKeepRows DEF IInv, ApiInv
<1>3. CASE UNCHANGED apiVars
  BY Zenon, <1>2, <1>3 DEF apiVars, resVars
<1>4. ASSUME NEW d \in Drivers, Transition(d) PROVE UNCHANGED <<tx, idem>>
  BY Zenon, <1>4 DEF Transition, TransitionRead, TransitionCommit
<1>5. ASSUME NEW p \in Planners, NEW i \in Ids, NEW plan \in Plans, Queue(p, i, plan)
      PROVE  UNCHANGED <<tx, idem>>
  BY Zenon, <1>5 DEF Queue, CreateFanoutContext
<1>6. ASSUME NEW c \in Clients, Fail(c) PROVE ApiInv'
  BY Zenon, <1>6, UntilCreateHolds, ApiFailHolds DEF Fail
<1> QED
  BY Zenon, <1>2, <1>3, <1>4, <1>5, <1>6, UntilCreateHolds, BeginHolds, ApiClaimKeyHolds, ApiCommitHolds
     DEF ApiNext

\* Callers are told the truth for any number of callers, processes and slots,
\* whatever is lost, fails or is repeated.
THEOREM Truthful == ApiSpec => []AnswersAreTrue
<1>1. ApiInit => ApiInv
  <2> SUFFICES ASSUME ApiInit PROVE ApiInv
    BY Zenon
  <2> DEFINE first == Idle(Reply("retry"))
  <2>1. first.pc = "idle" /\ first.reply.status = "retry" /\ http = [c \in Clients |-> first]
    BY Zenon DEF ApiInit, Idle, Reply
  <2> HIDE DEF first
  <2>2. \A k \in Keys : idem[k] = None
    BY Zenon DEF ApiInit, Init
  <2>3. /\ http = [c \in Clients |-> http[c]]
        /\ \A c \in Clients : http[c].pc = "idle" /\ http[c].reply.status = "retry"
    BY Zenon, <2>1
  <2> QED
    BY Zenon, <2>2, <2>3 DEF ApiInv, KeysHaveRows, HandlerIsSound, ReplyIsTrue, Created
<1>2. ApiInv => AnswersAreTrue
  BY Zenon DEF ApiInv, HandlerIsSound, ReplyIsTrue, Created, AnswersAreTrue, History
<1>3. ApiSpec => []ApiInv
  BY <1>1, ApiNextHolds, Invariance, ApiImplementsService, PTL DEF ApiSpec
<1> QED
  BY <1>2, <1>3, PTL

-----------------------------------------------------------------------------
(* Watching *)

\* A batch holds the next events after the cursor: in order, and an event of the
\* resolution that it leaves out comes after all of it.
BatchIsNext(i, cursor, batch) ==
  /\ \A k \in 1..Len(batch) : batch[k] \in History(i) /\ batch[k].version > cursor
  /\ InOrder(batch)
  /\ \A e \in History(i) : e.version > cursor =>
       \/ \E k \in 1..Len(batch) : batch[k] = e
       \/ \A k \in 1..Len(batch) : batch[k].version < e.version

\* What a client has received: the versions after its start, as the log has them.
Exact(c) ==
  \A n \in 1..Len(c.received) :
    c.received[n].version = c.start + n /\ c.received[n] \in History(c.id)

\* A stream goes on where its client is.
Follows(s, c) ==
  s.open => /\ s.cursor = c.start + Len(c.received)
            /\ BatchIsNext(c.id, s.cursor, s.batch)

Stream == [open: BOOLEAN, cursor: Nat, batch: Seq(Event), age: Nat, end: Ends]
Watcher == [id: Ids, start: 0..1, received: Seq(Event)]

WatchInv ==
  /\ stream \in [Watchers -> Stream] /\ client \in [Watchers -> Watcher]
  /\ \A w \in Watchers : Exact(client[w]) /\ Follows(stream[w], client[w])

\* ListEvents returns the next events: a batch as the query asks for exists, since the
\* log has one event for each version up to the current one.
LEMMA ListEventsIsNext ==
  ASSUME TypeOK, HistoryIsFaithful, NEW i \in Ids, NEW after \in Nat
  PROVE  ListEvents(i, after) \in Seq(Event) /\ BatchIsNext(i, after, ListEvents(i, after))
<1> DEFINE later == {e \in History(i) : e.version > after}
           last == res[i].version
           rest == IF last <= after THEN 0 ELSE last - after
           n == IF rest < BatchLimit THEN rest ELSE BatchLimit
           at(v) == CHOOSE e \in History(i) : e.version = v
           s == [k \in 1..n |-> at(after + k)]
<1>1. last \in Nat /\ BatchLimit \in Nat \ {0} /\ n \in 0..BatchLimit /\ History(i) \subseteq Event
  BY WatchAssumption DEF TypeOK, ResolutionRow, History
<1>2. ASSUME NEW k \in 1..n PROVE after + k \in 1..last
  BY <1>1, <1>2
<1>3. ASSUME NEW v \in 1..last PROVE at(v) \in History(i) /\ at(v).version = v
  <2>1. {e.version : e \in History(i)} = 1..last
    BY Zenon DEF HistoryIsFaithful
  <2>2. \E e \in History(i) : e.version = v
    BY Zenon, <1>3, <2>1
  <2> QED BY Zenon, <2>2
<1>4. ASSUME NEW k \in 1..n PROVE at(after + k) \in later /\ at(after + k).version = after + k
  <2>1. at(after + k) \in History(i) /\ at(after + k).version = after + k
    BY Zenon, <1>2, <1>3, <1>4
  <2>2. after + k > after
    BY <1>1, <1>4
  <2> QED BY Zenon, <2>1, <2>2
<1> HIDE DEF at
<1>5. s \in [1..n -> later] /\ Len(s) = n /\ \A k \in 1..n : s[k].version = after + k
  <2>1. s \in [1..n -> later] /\ \A k \in 1..n : s[k].version = after + k
    BY Zenon, <1>4
  <2>2. n \in Nat
    BY <1>1
  <2>3. Len(s) = n
    BY <2>1, <2>2
  <2> QED BY Zenon, <2>1, <2>3
<1>6. s \in Batches(later)
  BY Zenon, <1>1, <1>5 DEF Batches
<1>7. InOrder(s)
  <2> SUFFICES ASSUME NEW k \in 1..n, NEW j \in 1..(k - 1) PROVE s[j].version < s[k].version
    BY Zenon, <1>5 DEF InOrder
  <2>1. j \in 1..n /\ j < k
    BY <1>1
  <2>2. s[j].version = after + j /\ s[k].version = after + k
    BY Zenon, <1>5, <2>1
  <2> HIDE DEF s
  <2> QED BY <2>1, <2>2
<1>8. LeavesOutNone(s, later)
  <2> SUFFICES ASSUME NEW e \in later
               PROVE  \/ \E k \in 1..n : s[k] = e
                      \/ n = BatchLimit /\ s[BatchLimit].version < e.version
    BY Zenon, <1>5 DEF LeavesOutNone
  <2>1. e \in History(i) /\ e.version \in 1..last /\ e.version > after
    BY Zenon DEF HistoryIsFaithful
  <2>2. CASE e.version <= after + n
    <3>1. PICK k \in 1..n : e.version = after + k
      <4>1. e.version - after \in 1..n /\ e.version = after + (e.version - after)
        BY <1>1, <2>1, <2>2
      <4> QED BY Zenon, <4>1
    <3>2. s[k] \in History(i) /\ s[k].version = e.version
      BY Zenon, <1>5, <3>1
    <3>3. s[k] = e
      BY Zenon, <2>1, <3>2 DEF HistoryIsFaithful
    <3> QED BY Zenon, <3>3
  <2>3. CASE e.version > after + n
    <3>1. n = BatchLimit /\ BatchLimit \in 1..n
      BY <1>1, <2>1, <2>3
    <3>2. s[BatchLimit].version = after + n
      BY Zenon, <1>5, <3>1
    <3> QED BY Zenon, <2>3, <3>1, <3>2
  <2>4. e.version <= after + n \/ e.version > after + n
    BY <1>1, <2>1
  <2> QED BY Zenon, <2>2, <2>3, <2>4
<1> HIDE DEF s
<1> DEFINE b == ListEvents(i, after)
<1>9. b \in Batches(later) /\ InOrder(b) /\ LeavesOutNone(b, later)
  BY Zenon, <1>6, <1>7, <1>8 DEF ListEvents
<1> HIDE DEF b, n
<1>10. PICK m \in 0..BatchLimit : b \in [1..m -> later]
  BY Zenon, <1>9 DEF Batches
<1>11. b \in Seq(Event) /\ Len(b) = m /\ \A k \in 1..Len(b) : b[k] \in later
  <2>1. m \in Nat
    BY <1>1
  <2>2. b \in [1..m -> Event] /\ \A k \in 1..m : b[k] \in later
    BY Zenon, <1>1, <1>10
  <2> HIDE DEF later
  <2>3. b \in Seq(Event) /\ Len(b) = m
    BY <2>1, <2>2
  <2> QED BY Zenon, <2>2, <2>3
<1>12. ASSUME NEW e \in History(i), e.version > after
       PROVE  \/ \E k \in 1..Len(b) : b[k] = e
              \/ \A k \in 1..Len(b) : b[k].version < e.version
  <2>1. CASE Len(b) = BatchLimit /\ b[BatchLimit].version < e.version
    <3> SUFFICES ASSUME NEW k \in 1..Len(b) PROVE b[k].version < e.version
      BY Zenon
    <3>1. BatchLimit \in 1..Len(b) /\ (k = BatchLimit \/ k \in 1..(BatchLimit - 1))
      BY <1>1, <2>1
    <3>2. b[k].version <= b[BatchLimit].version
      <4>1. k \in 1..(BatchLimit - 1) => b[k].version < b[BatchLimit].version
        BY Zenon, <1>9, <3>1 DEF InOrder
      <4>2. b[k].version \in Nat /\ b[BatchLimit].version \in Nat
        BY Zenon, <1>1, <1>11, <3>1 DEF Event
      <4> QED BY <3>1, <4>1, <4>2
    <3>3. b[k].version \in Nat /\ b[BatchLimit].version \in Nat /\ e.version \in Nat
      BY Zenon, <1>1, <1>11, <3>1 DEF Event
    <3> QED BY <2>1, <3>2, <3>3
  <2> QED BY Zenon, <1>9, <1>12, <2>1 DEF LeavesOutNone
<1> QED BY Zenon, <1>9, <1>11, <1>12 DEF BatchIsNext, b

\* A batch stays the next one while the log grows: a new event has a new version.
LEMMA BatchStaysNext ==
  ASSUME TypeOK, TypeOK', HistoryIsFaithful, HistoryIsFaithful', events \subseteq events',
         NEW i \in Ids, NEW cursor, NEW b, BatchIsNext(i, cursor, b)
  PROVE  BatchIsNext(i, cursor, b)'
<1>1. History(i) \subseteq History(i)' /\ History(i) \subseteq Event /\ History(i)' \subseteq Event
  BY Zenon DEF History, TypeOK
<1>2. res[i].version \in Nat /\ res'[i].version \in Nat
  BY Zenon DEF TypeOK, ResolutionRow
<1>3. /\ {e.version : e \in History(i)} = 1..res[i].version
      /\ {e.version : e \in History(i)'} = 1..res'[i].version
  BY Zenon DEF HistoryIsFaithful
<1>4. ASSUME NEW e \in History(i)', e \notin History(i), NEW f \in History(i)
      PROVE  f.version < e.version
  <2>1. e.version \in Nat /\ f.version \in Nat /\ e.version >= 1 /\ f.version <= res[i].version
    BY <1>1, <1>2, <1>3, <1>4
  <2>2. CASE e.version <= res[i].version
    <3>1. PICK g \in History(i) : g.version = e.version
      BY <1>2, <1>3, <2>1, <2>2
    <3>2. g \in History(i)' /\ e \in History(i)'
      BY Zenon, <1>1, <1>4
    <3>3. \A x, y \in History(i)' : x.version = y.version => x = y
      BY ONLY Zenon, HistoryIsFaithful', i \in Ids DEF HistoryIsFaithful, History
    <3>4. g = e
      BY Zenon, <3>1, <3>2, <3>3
    <3>5. e \in History(i)
      BY Zenon, <3>1, <3>4
    <3> QED BY Zenon, <1>4, <3>5
  <2> QED BY <1>2, <2>1, <2>2
<1>5. ASSUME NEW e \in History(i)', e.version > cursor
      PROVE  \/ \E k \in 1..Len(b) : b[k] = e
             \/ \A k \in 1..Len(b) : b[k].version < e.version
  <2>1. CASE e \in History(i)
    BY Zenon, <1>5, <2>1 DEF BatchIsNext
  <2>2. CASE e \notin History(i)
    BY Zenon, <1>4, <2>2 DEF BatchIsNext
  <2> QED BY Zenon, <2>1, <2>2
<1> QED BY Zenon, <1>1, <1>5 DEF BatchIsNext, InOrder

\* The first event of a batch is the one after the cursor, and the others follow it.
LEMMA HeadIsNext ==
  ASSUME TypeOK, HistoryIsFaithful, NEW i \in Ids, NEW cursor \in Nat,
         NEW b \in Seq(Event), b # <<>>, BatchIsNext(i, cursor, b)
  PROVE  /\ Head(b) \in History(i) /\ Head(b).version = cursor + 1
         /\ Tail(b) \in Seq(Event) /\ BatchIsNext(i, cursor + 1, Tail(b))
<1>1. /\ Head(b) = b[1] /\ 1 \in 1..Len(b) /\ Len(b) \in Nat
      /\ Tail(b) \in Seq(Event) /\ Len(Tail(b)) = Len(b) - 1
      /\ \A k \in 1..(Len(b) - 1) : Tail(b)[k] = b[k + 1]
  OBVIOUS
<1>2. /\ \A k \in 1..Len(b) : b[k] \in History(i) /\ b[k].version \in Nat /\ b[k].version > cursor
      /\ \A k \in 2..Len(b) : b[1].version < b[k].version
  <2>1. \A k \in 1..Len(b) : b[k] \in History(i) /\ b[k].version > cursor
    BY Zenon DEF BatchIsNext
  <2>2. \A e \in History(i) : e.version \in Nat
    BY Zenon DEF TypeOK, History, Event
  <2>3. ASSUME NEW k \in 2..Len(b) PROVE b[1].version < b[k].version
    <3>1. k \in 1..Len(b) /\ 1 \in 1..(k - 1)
      BY <1>1
    <3> QED BY Zenon, <3>1 DEF BatchIsNext, InOrder
  <2> QED BY Zenon, <2>1, <2>2, <2>3
<1>3. b[1].version = cursor + 1
  <2>1. {e.version : e \in History(i)} = 1..res[i].version /\ res[i].version \in Nat
    BY Zenon DEF HistoryIsFaithful, TypeOK, ResolutionRow
  <2>2. PICK e \in History(i) : e.version = cursor + 1
    <3>1. b[1].version \in 1..res[i].version
      BY Zenon, <1>1, <1>2, <2>1
    <3>2. cursor + 1 \in 1..res[i].version
      BY <1>1, <1>2, <2>1, <3>1
    <3> QED BY Zenon, <2>1, <3>2
  <2>3. cursor + 1 > cursor
    OBVIOUS
  <2>4. \/ \E k \in 1..Len(b) : b[k] = e
        \/ \A k \in 1..Len(b) : b[k].version < cursor + 1
    BY Zenon, <2>2, <2>3 DEF BatchIsNext
  <2>5. \A k \in 1..Len(b) : k = 1 \/ k \in 2..Len(b)
    BY <1>1
  <2>6. \A k \in 1..Len(b) : ~(b[k].version < cursor + 1)
    BY <1>2
  <2>7. PICK k \in 1..Len(b) : b[k] = e
    BY Zenon, <1>1, <2>4, <2>6
  <2>8. k = 1 \/ b[1].version < cursor + 1
    BY Zenon, <1>2, <2>2, <2>5, <2>7
  <2> QED BY Zenon, <1>1, <2>2, <2>6, <2>7, <2>8
<1>4. ASSUME NEW k \in 1..Len(Tail(b))
      PROVE  Tail(b)[k] \in History(i) /\ Tail(b)[k].version > cursor + 1
  <2>1. k + 1 \in 1..Len(b) /\ k + 1 \in 2..Len(b) /\ Tail(b)[k] = b[k + 1]
    BY <1>1, <1>4
  <2>2. b[k + 1] \in History(i) /\ b[1].version < b[k + 1].version
    BY Zenon, <1>2, <2>1
  <2>3. b[k + 1].version \in Nat
    BY Zenon, <1>2, <2>1
  <2> QED BY Zenon, <1>3, <2>1, <2>2, <2>3
<1>5. InOrder(Tail(b))
  <2> SUFFICES ASSUME NEW k \in 1..Len(Tail(b)), NEW j \in 1..(k - 1)
               PROVE  Tail(b)[j].version < Tail(b)[k].version
    BY Zenon DEF InOrder
  <2>1. /\ k + 1 \in 1..Len(b) /\ j + 1 \in 1..((k + 1) - 1)
        /\ Tail(b)[k] = b[k + 1] /\ Tail(b)[j] = b[j + 1]
    BY <1>1
  <2>2. b[j + 1].version < b[k + 1].version
    BY Zenon, <2>1 DEF BatchIsNext, InOrder
  <2> QED BY Zenon, <2>1, <2>2
<1>6. ASSUME NEW e \in History(i), e.version > cursor + 1
      PROVE  \/ \E k \in 1..Len(Tail(b)) : Tail(b)[k] = e
             \/ \A k \in 1..Len(Tail(b)) : Tail(b)[k].version < e.version
  <2>1. e.version \in Nat
    BY Zenon DEF TypeOK, History, Event
  <2>2. e.version > cursor /\ e.version # cursor + 1
    BY <1>6, <2>1
  <2>3. CASE \E k \in 1..Len(b) : b[k] = e
    <3>1. PICK k \in 1..Len(b) : b[k] = e
      BY Zenon, <2>3
    <3>2. k # 1
      BY Zenon, <1>3, <2>2, <3>1
    <3>3. k - 1 \in 1..Len(Tail(b)) /\ Tail(b)[k - 1] = b[k]
      BY <1>1, <3>2
    <3> QED BY Zenon, <3>1, <3>3
  <2>4. CASE \A k \in 1..Len(b) : b[k].version < e.version
    <3>1. \A k \in 1..Len(Tail(b)) : k + 1 \in 1..Len(b) /\ Tail(b)[k] = b[k + 1]
      BY <1>1
    <3> QED BY Zenon, <2>4, <3>1
  <2> QED BY Zenon, <2>2, <2>3, <2>4 DEF BatchIsNext
<1> QED BY Zenon, <1>1, <1>2, <1>3, <1>4, <1>5, <1>6 DEF BatchIsNext

\* A step of the workflow only adds to the log, so it disturbs no stream.
LEMMA LogGrows ==
  ASSUME IInv, IInv', WatchInv, [ResolutionNext]_resVars, UNCHANGED <<stream, client>>
  PROVE  WatchInv'
<1>1. TypeOK /\ TypeOK' /\ HistoryIsFaithful /\ HistoryIsFaithful' /\ events \subseteq events'
  BY Zenon, NothingIsTakenBack DEF IInv, Later
<1>2. \A i \in Ids : History(i) \subseteq History(i)'
  BY Zenon, <1>1 DEF History
<1>3. ASSUME NEW w \in Watchers PROVE Exact(client[w])' /\ Follows(stream[w], client[w])'
  <2>1. client[w].id \in Ids /\ client'[w] = client[w] /\ stream'[w] = stream[w]
    BY Zenon DEF WatchInv, Watcher
  <2>2. Exact(client[w])'
    BY Zenon, <1>2, <2>1 DEF WatchInv, Exact
  <2>3. CASE stream[w].open
    <3>1. BatchIsNext(client[w].id, stream[w].cursor, stream[w].batch)
      BY Zenon, <2>3 DEF WatchInv, Follows
    <3>2. ASSUME NEW i \in Ids, NEW k, NEW b, BatchIsNext(i, k, b) PROVE BatchIsNext(i, k, b)'
      BY ONLY Zenon, <1>1, <3>2, BatchStaysNext
    <3>3. BatchIsNext(client[w].id, stream[w].cursor, stream[w].batch)'
      BY Zenon, <2>1, <3>1, <3>2
    <3> QED BY Zenon, <2>1, <2>2, <2>3, <3>3 DEF WatchInv, Follows
  <2> QED BY Zenon, <2>1, <2>2, <2>3 DEF Follows
<1> QED BY Zenon, <1>3 DEF WatchInv

\* A step of one connection leaves the others and the log alone.
LEMMA OneConnectionMoves ==
  ASSUME WatchInv, UNCHANGED resVars, NEW w \in Watchers, NEW s \in Stream, NEW c \in Watcher,
         stream' = [stream EXCEPT ![w] = s], client' = [client EXCEPT ![w] = c],
         Exact(c), Follows(s, c)
  PROVE  WatchInv'
<1>1. events' = events
  BY Zenon DEF resVars
<1>2. stream' \in [Watchers -> Stream] /\ client' \in [Watchers -> Watcher]
  BY Zenon DEF WatchInv
<1>3. ASSUME NEW v \in Watchers PROVE Exact(client'[v]) /\ Follows(stream'[v], client'[v])
  BY Zenon DEF WatchInv
<1>4. ASSUME NEW v \in Watchers PROVE Exact(client[v])' /\ Follows(stream[v], client[v])'
  BY Zenon, <1>1, <1>3 DEF Exact, Follows, BatchIsNext, History
<1> QED BY Zenon, <1>2, <1>4 DEF WatchInv

\* A connection that ends keeps what its client has.
LEMMA ClosingHolds ==
  ASSUME WatchInv, UNCHANGED <<resVars, client>>, NEW w \in Watchers, NEW end \in Ends,
         stream' = [stream EXCEPT ![w] = Closed(end)]
  PROVE  WatchInv'
<1>1. Closed(end) \in Stream
  BY DEF Closed, Stream
<1>2. client' = [client EXCEPT ![w] = client[w]] /\ client[w] \in Watcher
  BY Zenon DEF WatchInv
<1>3. ~Closed(end).open
  BY Zenon DEF Closed
<1> QED BY Zenon, <1>1, <1>2, <1>3, OneConnectionMoves DEF WatchInv, Follows

\* Last-Event-ID is where the client is.
LEMMA ClientResumes ==
  ASSUME IInv, WatchInv, NEW w \in Watchers
  PROVE  LastEventID(w) \in Nat /\ LastEventID(w) = client[w].start + Len(client[w].received)
<1>1. client[w].received \in Seq(Event) /\ client[w].start \in 0..1 /\ Exact(client[w])
  BY Zenon DEF WatchInv, Watcher
<1>2. CASE client[w].received = <<>>
  BY <1>1, <1>2 DEF LastEventID
<1>3. CASE client[w].received # <<>>
  <2>1. Len(client[w].received) \in 1..Len(client[w].received) /\ Len(client[w].received) \in Nat
    BY <1>1, <1>3
  <2>2. LastEventID(w) = client[w].start + Len(client[w].received)
    BY Zenon, <1>1, <1>3, <2>1 DEF LastEventID, LastReceived, Exact
  <2> QED BY <1>1, <2>1, <2>2
<1> QED BY Zenon, <1>2, <1>3

\* A client connects where it stopped.
LEMMA ConnectHolds ==
  ASSUME IInv, WatchInv, NEW w \in Watchers, Connect(w)
  PROVE  WatchInv'
<1> DEFINE i == client[w].id
           at == LastEventID(w)
           s == [open |-> TRUE, cursor |-> at, age |-> 0, end |-> "none", batch |-> ListEvents(i, at)]
<1>1. client[w] \in Watcher /\ i \in Ids /\ client' = [client EXCEPT ![w] = client[w]]
  BY Zenon DEF WatchInv, Watcher, Connect
<1>2. at \in Nat /\ at = client[w].start + Len(client[w].received)
  BY Zenon, ClientResumes
<1>3. ListEvents(i, at) \in Seq(Event) /\ BatchIsNext(i, at, ListEvents(i, at))
  BY Zenon, <1>1, <1>2, ListEventsIsNext DEF IInv
<1>4. stream' = [stream EXCEPT ![w] = s] /\ UNCHANGED resVars
  BY Zenon DEF Connect
<1> HIDE DEF i, at
<1>5. s \in Stream /\ s.cursor = at /\ s.batch = ListEvents(i, at)
  BY Zenon, <1>2, <1>3 DEF Stream, Ends
<1>6. Follows(s, client[w]) /\ Exact(client[w])
  BY Zenon, <1>2, <1>3, <1>5 DEF Follows, WatchInv, i
<1> HIDE DEF s
<1> QED BY Zenon, <1>1, <1>4, <1>5, <1>6, OneConnectionMoves

\* A stream reads its next batch.
LEMMA PollHolds ==
  ASSUME IInv, WatchInv, NEW w \in Watchers, Poll(w)
  PROVE  WatchInv'
<1> DEFINE i == client[w].id
           at == stream[w].cursor
           s == [stream[w] EXCEPT !.batch = ListEvents(i, at)]
<1>1. client[w] \in Watcher /\ i \in Ids /\ client' = [client EXCEPT ![w] = client[w]]
  BY Zenon DEF WatchInv, Watcher, Poll
<1>2. stream[w] \in Stream /\ at \in Nat /\ at = client[w].start + Len(client[w].received)
  BY Zenon DEF WatchInv, Stream, Follows, Poll
<1>3. ListEvents(i, at) \in Seq(Event) /\ BatchIsNext(i, at, ListEvents(i, at))
  BY Zenon, <1>1, <1>2, ListEventsIsNext DEF IInv
<1>4. stream' = [stream EXCEPT ![w] = s] /\ UNCHANGED resVars
  BY Zenon DEF Poll
<1>5. s \in Stream /\ s.cursor = at /\ s.batch = ListEvents(i, at)
  BY Zenon, <1>2, <1>3 DEF Stream
<1>6. Follows(s, client[w]) /\ Exact(client[w])
  BY Zenon, <1>2, <1>3, <1>5 DEF Follows, WatchInv
<1> HIDE DEF s
<1> QED BY Zenon, <1>1, <1>4, <1>5, <1>6, OneConnectionMoves

\* A record with one more event.
LEMMA AppendOne ==
  ASSUME NEW got \in Seq(Event), NEW e \in Event
  PROVE  /\ Append(got, e) \in Seq(Event) /\ Len(Append(got, e)) = Len(got) + 1
         /\ \A n \in 1..Len(got) : Append(got, e)[n] = got[n]
         /\ Append(got, e)[Len(got) + 1] = e
         /\ \A n \in 1..(Len(got) + 1) : n \in 1..Len(got) \/ n = Len(got) + 1
OBVIOUS

\* What is written is the event after the cursor, so the client's record goes on.
LEMMA WriteEventHolds ==
  ASSUME IInv, WatchInv, NEW w \in Watchers, WriteEvent(w)
  PROVE  WatchInv'
<1> DEFINE event == Head(stream[w].batch)
           c == [client[w] EXCEPT !.received = Append(@, event)]
           s == IF event.state \in Terminal THEN Closed("terminal")
                ELSE [stream[w] EXCEPT !.cursor = event.version, !.batch = Tail(stream[w].batch)]
<1>1. CASE stream' = [stream EXCEPT ![w] = Closed("cut")] /\ UNCHANGED client
  BY Zenon, <1>1, ClosingHolds DEF WriteEvent, Ends
<1>2. CASE client' = [client EXCEPT ![w] = c] /\ stream' = [stream EXCEPT ![w] = s]
  <2> DEFINE i == client[w].id
             got == client[w].received
             start == client[w].start
             cursor == stream[w].cursor
             b == stream[w].batch
  <2>1. /\ stream[w].open /\ b # <<>> /\ b \in Seq(Event) /\ cursor \in Nat /\ i \in Ids
        /\ got \in Seq(Event) /\ start \in 0..1 /\ cursor = start + Len(got)
        /\ BatchIsNext(i, cursor, b) /\ client[w] \in Watcher /\ stream[w] \in Stream
        /\ Exact(client[w])
    BY Zenon DEF WatchInv, Watcher, Stream, WriteEvent, Follows
  <2>2. /\ event \in History(i) /\ event.version = cursor + 1
        /\ Tail(b) \in Seq(Event) /\ BatchIsNext(i, cursor + 1, Tail(b))
    BY Zenon, <2>1, HeadIsNext DEF IInv
  <2>3. event \in Event /\ cursor + 1 \in Nat
    BY <2>1, <2>2 DEF IInv, TypeOK, History
  <2> HIDE DEF event
  <2>4. /\ Append(got, event) \in Seq(Event) /\ Len(Append(got, event)) = Len(got) + 1
        /\ \A n \in 1..Len(got) : Append(got, event)[n] = got[n]
        /\ Append(got, event)[Len(got) + 1] = event
        /\ \A n \in 1..(Len(got) + 1) : n \in 1..Len(got) \/ n = Len(got) + 1
    BY Zenon, <2>1, <2>3, AppendOne
  <2>5. start + (Len(got) + 1) = cursor + 1
    <3>1. Len(got) \in Nat
      BY <2>1
    <3> QED BY <2>1, <3>1
  <2>6. c \in Watcher /\ c.received = Append(got, event) /\ c.id = i /\ c.start = start
    BY Zenon, <2>1, <2>4 DEF Watcher
  <2> HIDE DEF c
  <2>7. Exact(c)
    <3>1. ASSUME NEW n \in 1..(Len(got) + 1)
          PROVE  Append(got, event)[n].version = start + n /\ Append(got, event)[n] \in History(i)
      <4>1. CASE n \in 1..Len(got)
        BY Zenon, <2>1, <2>4, <4>1 DEF Exact
      <4>2. CASE n = Len(got) + 1
        BY Zenon, <2>2, <2>4, <2>5, <4>2
      <4> QED BY Zenon, <2>4, <4>1, <4>2
    <3> QED BY Zenon, <2>4, <2>6, <3>1 DEF Exact
  <2>8. s \in Stream /\ Follows(s, c)
    <3>1. CASE event.state \in Terminal
      <4>1. s = Closed("terminal") /\ Closed("terminal") \in Stream /\ ~Closed("terminal").open
        BY <3>1 DEF Closed, Stream, Ends
      <4> QED BY Zenon, <4>1 DEF Follows
    <3>2. CASE event.state \notin Terminal
      <4>1. s \in Stream /\ s.cursor = cursor + 1 /\ s.batch = Tail(b)
        BY Zenon, <2>1, <2>2, <2>3, <3>2 DEF Stream
      <4> QED BY Zenon, <2>2, <2>4, <2>5, <2>6, <4>1 DEF Follows
    <3> QED BY Zenon, <3>1, <3>2
  <2> HIDE DEF s
  <2> QED BY Zenon, <1>2, <2>6, <2>7, <2>8, OneConnectionMoves DEF WriteEvent
<1>3. \/ stream' = [stream EXCEPT ![w] = Closed("cut")] /\ UNCHANGED client
      \/ client' = [client EXCEPT ![w] = c] /\ stream' = [stream EXCEPT ![w] = s]
  BY ONLY Zenon, WriteEvent(w) DEF WriteEvent
<1> QED BY Zenon, <1>1, <1>2, <1>3

\* A stream waits for the next poll.
LEMMA WaitHolds ==
  ASSUME WatchInv, NEW w \in Watchers, Wait(w)
  PROVE  WatchInv'
<1> DEFINE s == [stream[w] EXCEPT !.age = @ + 1]
<1>1. client[w] \in Watcher /\ client' = [client EXCEPT ![w] = client[w]] /\ stream[w] \in Stream
  BY Zenon DEF WatchInv, Wait
<1>2. stream' = [stream EXCEPT ![w] = s] /\ UNCHANGED resVars
  BY Zenon DEF Wait
<1>3. stream[w].age + 1 \in Nat
  BY <1>1 DEF Stream
<1>4. s \in Stream /\ s.open = stream[w].open /\ s.cursor = stream[w].cursor /\ s.batch = stream[w].batch
  BY Zenon, <1>1, <1>3 DEF Stream
<1>5. Follows(s, client[w]) /\ Exact(client[w])
  BY Zenon, <1>4 DEF Follows, WatchInv
<1> HIDE DEF s
<1> QED BY Zenon, <1>1, <1>2, <1>4, <1>5, OneConnectionMoves

\* The invariant of the watchers holds at the start.
LEMMA WatchInitHolds == WatchInit => WatchInv
<1> SUFFICES ASSUME WatchInit PROVE WatchInv
  BY Zenon
<1>1. Closed("none") \in Stream /\ ~Closed("none").open
  BY DEF Closed, Stream, Ends
<1>2. stream \in [Watchers -> Stream] /\ \A w \in Watchers : ~stream[w].open
  BY Zenon, <1>1 DEF WatchInit
<1>3. ASSUME NEW w \in Watchers PROVE client[w] \in Watcher /\ client[w].received = <<>>
  <2>1. client[w] \in [id: Ids, start: 0..1, received: {<<>>}]
    BY Zenon DEF WatchInit
  <2>2. <<>> \in Seq(Event)
    OBVIOUS
  <2> QED BY Zenon, <2>1, <2>2 DEF Watcher
<1>4. client \in [Watchers -> Watcher]
  BY Zenon, <1>3 DEF WatchInit
<1>5. \A n \in 1..Len(<<>>) : FALSE
  OBVIOUS
<1> QED BY Zenon, <1>2, <1>3, <1>4, <1>5 DEF WatchInv, Exact, Follows

\* Every step keeps the invariant of the watchers.
LEMMA WatchNextHolds == IInv /\ IInv' /\ WatchInv /\ [WatchNext]_watchVars => WatchInv'
<1> SUFFICES ASSUME IInv, IInv', WatchInv, [WatchNext]_watchVars PROVE WatchInv'
  BY Zenon
<1>1. CASE [ResolutionNext]_resVars /\ UNCHANGED <<stream, client>>
  BY Zenon, <1>1, LogGrows
<1>2. ASSUME NEW w \in Watchers, Connect(w) \/ Handle(w) \/ Break(w) PROVE WatchInv'
  <2>1. CASE TimerFires(w) \/ Break(w)
    <3>1. CASE Break(w)
      BY Zenon, <3>1, ClosingHolds DEF Break, Ends
    <3>2. CASE TimerFires(w)
      BY Zenon, <3>2, ClosingHolds DEF TimerFires, Ends
    <3> QED BY Zenon, <2>1, <3>1, <3>2
  <2> QED BY Zenon, <1>2, <2>1, ConnectHolds, PollHolds, WriteEventHolds, WaitHolds DEF Handle
<1> QED BY Zenon, <1>1, <1>2 DEF WatchNext, watchVars

\* Streams only read: whatever the watchers do, the workflow below them takes its own
\* steps, so what holds of it holds under any number of watchers.
THEOREM WatchingIsReadOnly == WatchSpec => Spec
<1>1. WatchInit => Init
  BY Zenon DEF WatchInit
<1>2. [WatchNext]_watchVars => [ResolutionNext]_resVars
  BY Zenon DEF WatchNext, watchVars, Connect, Handle, Poll, WriteEvent, Wait, TimerFires, Break
<1> QED BY <1>1, <1>2, PTL DEF WatchSpec, Spec

\* A client that resumes with the last identifier it received misses no version, gets
\* none twice and none out of order, over any number of cut, broken and reopened
\* connections, while the workflow goes on.
THEOREM WatchersMissNothing == WatchSpec => []WatchIsExact
<1>1. WatchInv => WatchIsExact
  BY Zenon DEF WatchInv, WatchIsExact, Exact
<1> QED
  BY <1>1, WatchInitHolds, WatchNextHolds, WatchingIsReadOnly, Invariance, PTL DEF WatchSpec
=============================================================================
