--------------------------- MODULE CollectorProofs ---------------------------
(***************************************************************************)
(* Proofs about Collector for every set of tasks, collectors, runs and     *)
(* grants, every lease and grant duration and every clock error: the       *)
(* inductive invariant, the steps that leave grants, evidence and results  *)
(* alone or only take or release a task, the steps that move them, and the *)
(* theorems.                                                               *)
(***************************************************************************)
EXTENDS Collector, TLAPS

-----------------------------------------------------------------------------
(* The inductive invariant *)

Holding == Steps \ {"idle", "leased", "started", "failing"}
Recorded == Holding \ {"granted"}
Spent == Recorded \ {"recorded", "fetched", "checked"}

\* A live run works on a task, under a fence the task has reached.
RunInv ==
  \A r \in Runs : run[r].pc # "idle" =>
    /\ run[r].task \in Tasks
    /\ run[r].fence <= row[run[r].task].fence

\* The fence, not the owner, identifies a run.
FenceInv ==
  \A r, s \in Runs :
    run[r].pc # "idle" /\ run[s].pc # "idle" /\ run[r].task = run[s].task
      /\ run[r].fence = run[s].fence => r = s

\* A grant never runs ahead of its task, and its run still holds it.
IssuedInv ==
  \A g \in Grants : issued[g] # None =>
    /\ issued[g].fence <= row[issued[g].task].fence
    /\ \A r \in Runs : run[r].pc # "idle" /\ run[r].task = issued[g].task
         /\ run[r].fence = issued[g].fence => run[r].grant = g

\* One grant per fence.
UniqueGrantInv ==
  \A g, h \in Grants :
    issued[g] # None /\ issued[h] # None /\ issued[g].task = issued[h].task
      /\ issued[g].fence = issued[h].fence => g = h

\* What a run knows of its own grant.
HolderInv ==
  \A r \in Runs :
    /\ run[r].pc \in {"leased", "started"} => run[r].grant = None
    /\ run[r].pc \in Holding =>
         /\ run[r].grant \in Grants
         /\ issued[run[r].grant] =
              [task |-> run[r].task, fence |-> run[r].fence, owner |-> CollectorOf[r]]

\* While the fence is unchanged the task carries the run's grant, so the copy
\* read by GetContext names it; after the consumption it always does.
RecordedInv ==
  \A r \in Runs :
    /\ run[r].pc \in Recorded /\ row[run[r].task].fence = run[r].fence
         => row[run[r].task].grant = run[r].grant
    /\ run[r].pc \in {"fetched", "checked"} /\ row[run[r].task].fence = run[r].fence
         => run[r].seen = run[r].grant
    /\ run[r].pc \in Spent => run[r].grant \in consumed /\ run[r].seen = run[r].grant

RowGrantInv ==
  \A t \in Tasks : row[t].grant # None =>
    /\ issued[row[t].grant] # None
    /\ issued[row[t].grant].task = t
    /\ issued[row[t].grant].fence = row[t].fence

ContactInv ==
  /\ \A g \in Grants : contacts[g] <= 1 /\ (contacts[g] > 0 => g \in consumed)
  /\ \A g \in consumed : issued[g] # None
  /\ \A r \in Runs : run[r].pc = "exchanged" => contacts[run[r].grant] = 0

PersistedInv ==
  /\ \A r \in Runs : run[r].pc \in {"persisted", "committing"} => Envelope(r) \in envelopes
  /\ \A c \in Reconcilers : rec[c].batch \subseteq envelopes

IInv ==
  /\ TypeOK
  /\ RunInv /\ FenceInv /\ IssuedInv /\ UniqueGrantInv /\ HolderInv /\ RecordedInv
  /\ RowGrantInv /\ ContactInv /\ PersistedInv
  /\ EvidenceHasSpentAuthority /\ AcceptedResultIsCurrent

-----------------------------------------------------------------------------
\* The initial state satisfies the invariant.
LEMMA InitInv == Init => IInv
  BY CollectorAssumption
  DEF Init, IInv, TypeOK, RunInv, FenceInv, IssuedInv, UniqueGrantInv, HolderInv, RecordedInv,
      RowGrantInv, ContactInv, PersistedInv, EvidenceHasSpentAuthority,
      AcceptedResultIsCurrent, NoRow, Idle, NoBatch, Task, Run, Leasable, Active, Steps,
      Holding, Recorded, Spent

TaskState == {"absent", "succeeded"} \cup Leasable \cup Active

\* One row, or one run, is replaced.
LEMMA RowUpdate ==
  ASSUME row \in [Tasks -> Task], NEW t \in Tasks, NEW q \in Task,
         row' = [row EXCEPT ![t] = q]
  PROVE  /\ row' \in [Tasks -> Task]
         /\ row'[t] = q
         /\ \A u \in Tasks : u # t => row'[u] = row[u]
  BY Zenon

\* The same for one run.
LEMMA RunUpdate ==
  ASSUME run \in [Runs -> Run], NEW r \in Runs, NEW q \in Run,
         run' = [run EXCEPT ![r] = q]
  PROVE  /\ run' \in [Runs -> Run]
         /\ run'[r] = q
         /\ \A s \in Runs : s # r => run'[s] = run[s]
  BY Zenon

\* A new attempt: the fence grows past every run and grant of the task.
LEMMA AcquireInv ==
  ASSUME IInv, NEW r \in Runs, NEW t \in Tasks, AcquireContext(r, t)
  PROVE  IInv'
<1> USE DEF IInv
<1>1. PICK now \in Reading :
        /\ Available(t, now)
        /\ row' = [row EXCEPT ![t] =
             [@ EXCEPT !.state = "leased", !.owner = CollectorOf[r],
                       !.expiry = now + LeaseDuration, !.fence = row[t].fence + 1, !.grant = None]]
        /\ run' = [run EXCEPT ![r] =
             [Idle EXCEPT !.pc = "leased", !.task = t, !.fence = row[t].fence + 1,
                          !.expiry = now + LeaseDuration]]
  BY Zenon DEF AcquireContext
<1> DEFINE q == [row[t] EXCEPT !.state = "leased", !.owner = CollectorOf[r],
                               !.expiry = now + LeaseDuration, !.fence = row[t].fence + 1,
                               !.grant = None]
           p == [Idle EXCEPT !.pc = "leased", !.task = t, !.fence = row[t].fence + 1,
                             !.expiry = now + LeaseDuration]
<1>2. /\ row[t] \in Task /\ CollectorOf[r] \in Collectors
      /\ row[t].fence \in Nat /\ row[t].fence + 1 \in Nat /\ now + LeaseDuration \in Nat
  BY CollectorAssumption DEF TypeOK, Task, Reading
<1>3. /\ q \in Task
      /\ q.fence = row[t].fence + 1 /\ q.grant = None /\ q.state = "leased"
      /\ q.attempt = row[t].attempt /\ q.evidence = row[t].evidence
  BY <1>2, Zenon DEF Task, Active
<1>4. /\ p \in Run
      /\ p.pc = "leased" /\ p.task = t /\ p.fence = row[t].fence + 1 /\ p.grant = None
  BY <1>2, Zenon DEF Run, Idle, Steps
<1> HIDE DEF q, p
<1>5. /\ row' \in [Tasks -> Task] /\ row'[t] = q
      /\ \A u \in Tasks : u # t => row'[u] = row[u]
  <2>1. row' = [row EXCEPT ![t] = q]
    BY Zenon, <1>1 DEF q
  <2> QED BY Zenon, <1>3, <2>1, RowUpdate DEF TypeOK
<1>6. /\ run' \in [Runs -> Run] /\ run'[r] = p
      /\ \A s \in Runs : s # r => run'[s] = run[s]
  BY Zenon, <1>1, <1>4, RunUpdate DEF TypeOK, p
<1>7. \A u \in Tasks : row[u].fence \in Nat /\ row[u].fence <= row'[u].fence
  BY <1>2, <1>3, <1>5 DEF TypeOK, Task
<1>8. UNCHANGED <<clock, consumed, envelopes, rec, faults, issued, contacts>>
  BY Zenon DEF AcquireContext
<1>9. \A s \in Runs : run[s].fence \in Nat
  BY Zenon DEF TypeOK, Run
<1>10. TypeOK'
  BY Zenon, <1>5, <1>6, <1>8 DEF TypeOK
<1>11. RunInv'
  BY <1>3, <1>4, <1>5, <1>6, <1>7, <1>9 DEF RunInv
<1>12. FenceInv'
  BY <1>2, <1>4, <1>6, <1>9 DEF FenceInv, RunInv
<1>13. IssuedInv'
  <2> SUFFICES ASSUME NEW g \in Grants, issued[g] # None
               PROVE  /\ issued[g].fence <= row'[issued[g].task].fence
                      /\ \A s \in Runs : run'[s].pc # "idle" /\ run'[s].task = issued[g].task
                           /\ run'[s].fence = issued[g].fence => run'[s].grant = g
    BY Zenon, <1>8 DEF IssuedInv
  <2>1. issued[g].task \in Tasks /\ issued[g].fence \in Nat
    BY Zenon DEF TypeOK, ExecutionGrant
  <2>2. issued[g].fence <= row[issued[g].task].fence
    BY Zenon DEF IssuedInv
  <2>3. issued[g].fence <= row'[issued[g].task].fence
    BY <1>3, <1>5, <1>7, <2>1, <2>2
  <2> QED BY <1>2, <1>4, <1>6, <2>1, <2>2, <2>3 DEF IssuedInv
<1>14. UniqueGrantInv'
  BY Zenon, <1>8 DEF UniqueGrantInv
<1>15. HolderInv'
  BY <1>4, <1>6, <1>8 DEF HolderInv, Holding
<1>16. RecordedInv'
  <2>1. \A s \in Runs : run[s].pc \in Recorded => run[s].task \in Tasks
    BY Zenon DEF RunInv, Recorded, Holding
  <2>2. \A s \in Runs : run[s].pc \in Recorded /\ row'[run[s].task].fence = run[s].fence =>
          run[s].task # t
    BY <1>2, <1>3, <1>5, <1>9, <2>1 DEF RunInv, Recorded, Holding
  <2>3. {"fetched", "checked"} \cup Spent \subseteq Recorded /\ "leased" \notin Recorded
    BY Zenon DEF Recorded, Holding, Spent, Steps
  <2> QED BY <1>4, <1>5, <1>6, <1>8, <2>1, <2>2, <2>3 DEF RecordedInv
<1>17. RowGrantInv'
  BY <1>3, <1>5, <1>8 DEF RowGrantInv
<1>18. ContactInv'
  BY Zenon, <1>4, <1>6, <1>8 DEF ContactInv
<1>19. PersistedInv'
  BY Zenon, <1>4, <1>6, <1>8 DEF PersistedInv, Envelope
<1>20. EvidenceHasSpentAuthority'
  BY Zenon, <1>8 DEF EvidenceHasSpentAuthority, Bindings
<1>21. AcceptedResultIsCurrent'
  BY ZenonT(60), <1>1, <1>3, <1>5, <1>8 DEF AcceptedResultIsCurrent, Available, Leasable, Active
<1> QED
  BY Zenon, <1>10, <1>11, <1>12, <1>13, <1>14, <1>15, <1>16, <1>17, <1>18, <1>19, <1>20, <1>21

\* A step that moves no grant, envelope or fence: a run may return,
\* fail, or pass to a step that its part of the invariant does not tell apart.
SamePhase(p, q) ==
  /\ \A phase \in {{"leased", "started"}, Holding, Recorded, Spent, {"fetched", "checked"},
                   {"persisted", "committing"}} : p \in phase <=> q \in phase
  /\ p # "idle" /\ q \notin {"idle", "exchanged"}

Calm(r) ==
  \/ run'[r] = run[r]
  \/ run'[r] = Idle
  \/ /\ run[r].pc # "idle"
     /\ run'[r].task = run[r].task /\ run'[r].fence = run[r].fence
     /\ run'[r].grant = run[r].grant /\ run'[r].seen = run[r].seen
     /\ run'[r].pc = "failing" \/ SamePhase(run[r].pc, run'[r].pc)

Still ==
  /\ \A t \in Tasks : row'[t].fence = row[t].fence /\ row'[t].grant = row[t].grant
  /\ \A r \in Runs : Calm(r)
  /\ \A c \in Reconcilers : rec'[c].batch \subseteq envelopes
  /\ UNCHANGED <<consumed, envelopes, issued, contacts>>

\* A still step that touches no result either.
Quiet ==
  /\ Still
  /\ \A t \in Tasks :
       /\ row'[t].attempt = row[t].attempt /\ row'[t].evidence = row[t].evidence
       /\ row'[t].state = "succeeded" <=> row[t].state = "succeeded"

\* Steps that leave grants, envelopes and results alone and move no run forward.
LEMMA StillInv ==
  ASSUME IInv, TypeOK', Still, AcceptedResultIsCurrent'
  PROVE  IInv'
<1> USE DEF IInv, Still
<1>1. \A r \in Runs : run'[r].pc # "idle" =>
        /\ run[r].pc # "idle"
        /\ run'[r].task = run[r].task /\ run'[r].fence = run[r].fence
        /\ run'[r].grant = run[r].grant /\ run'[r].seen = run[r].seen
        /\ run'[r] = run[r] \/ run'[r].pc = "failing" \/ SamePhase(run[r].pc, run'[r].pc)
  BY DEF Calm, Idle
<1>2. RunInv' /\ FenceInv'
  BY <1>1 DEF RunInv, FenceInv
<1>3. IssuedInv' /\ UniqueGrantInv' /\ RowGrantInv'
  <2>1. IssuedInv'
    <3> SUFFICES ASSUME NEW g \in Grants, issued[g] # None
                 PROVE  /\ issued[g].fence <= row'[issued[g].task].fence
                        /\ \A r \in Runs : run'[r].pc # "idle" /\ run'[r].task = issued[g].task
                             /\ run'[r].fence = issued[g].fence => run'[r].grant = g
      BY Zenon DEF IssuedInv
    <3>1. issued[g].task \in Tasks
      BY Zenon DEF TypeOK, ExecutionGrant
    <3> QED
      BY <1>1, <3>1 DEF IssuedInv
  <2>2. UniqueGrantInv' /\ RowGrantInv'
    BY DEF UniqueGrantInv, RowGrantInv
  <2> QED BY Zenon, <2>1, <2>2
<1>4. HolderInv'
  BY <1>1 DEF HolderInv, SamePhase, Holding, Steps
<1>0. /\ RunInv /\ RecordedInv /\ consumed' = consumed
      /\ \A t \in Tasks : row'[t].fence = row[t].fence /\ row'[t].grant = row[t].grant
  BY Zenon
<1>5. RecordedInv'
  <2> HIDE DEF IInv, Still
  <2>1. ASSUME NEW r \in Runs PROVE RecordedInv!(r)'
    <3>1. CASE run'[r].pc \in {"idle", "failing"}
      BY Zenon, <3>1 DEF Recorded, Spent, Holding, Steps
    <3>2. CASE run'[r].pc \notin {"idle", "failing"}
      <4>1. /\ run[r].pc # "idle" /\ run[r].task \in Tasks
            /\ run'[r].task = run[r].task /\ run'[r].fence = run[r].fence
            /\ run'[r].grant = run[r].grant /\ run'[r].seen = run[r].seen
        BY Zenon, <1>0, <1>1, <3>2 DEF RunInv
      <4>2. \A phase \in {Recorded, Spent, {"fetched", "checked"}} :
              run'[r].pc \in phase <=> run[r].pc \in phase
        BY Zenon, <1>1, <3>2 DEF SamePhase
      <4>3. RecordedInv!(r)
        BY Zenon, <1>0 DEF RecordedInv
      <4> QED
        BY Zenon, <1>0, <4>1, <4>2, <4>3
    <3> QED
      BY Zenon, <3>1, <3>2
  <2> QED
    BY Zenon, <2>1 DEF RecordedInv
<1>6. ContactInv'
  BY <1>1 DEF ContactInv, SamePhase
<1>7. PersistedInv'
  BY Zenon, <1>1 DEF PersistedInv, SamePhase, Envelope
<1>8. EvidenceHasSpentAuthority'
  BY Zenon DEF EvidenceHasSpentAuthority, Bindings
<1> QED
  BY Zenon, <1>2, <1>3, <1>4, <1>5, <1>6, <1>7, <1>8

\* The invariant survives every quiet step.
LEMMA QuietInv ==
  ASSUME IInv, TypeOK', Quiet
  PROVE  IInv'
<1>1. AcceptedResultIsCurrent'
  BY DEF IInv, Quiet, Still, AcceptedResultIsCurrent
<1> QED BY Zenon, <1>1, StillInv DEF Quiet

\* Two quiet steps that many actions end in: the run returns, or it moves on.
LEMMA ReturnQuiet ==
  ASSUME IInv, NEW r \in Runs, Return(r),
         clock' \in Nat, faults' \in Nat,
         UNCHANGED <<row, consumed, envelopes, rec, issued, contacts>>
  PROVE  IInv'
<1>1. TypeOK'
  BY Zenon, CollectorAssumption DEF IInv, TypeOK, Return, Idle, Run, Steps
<1>2. Quiet
  BY Zenon DEF IInv, TypeOK, PersistedInv, Quiet, Still, Calm, Return
<1> QED BY Zenon, <1>1, <1>2, QuietInv

\* A run that moves within one phase of its attempt is calm.
LEMMA MoveCalm ==
  ASSUME IInv, NEW r \in Runs, run[r].pc # "idle", NEW step \in Steps, NEW q \in Run,
         step = "failing" \/ SamePhase(run[r].pc, step),
         q.pc = step, q.task = run[r].task, q.fence = run[r].fence, q.grant = run[r].grant,
         q.seen = run[r].seen,
         run' = [run EXCEPT ![r] = q]
  PROVE  run' \in [Runs -> Run] /\ \A s \in Runs : Calm(s)
  BY Zenon, RunUpdate DEF IInv, TypeOK, Calm

\* Moving one run within its phase, or to failAttempt, is quiet.
LEMMA GoQuiet ==
  ASSUME IInv, NEW r \in Runs, run[r].pc # "idle", NEW step \in Steps, Go(r, step),
         step = "failing" \/ SamePhase(run[r].pc, step),
         clock' \in Nat, faults' \in Nat,
         UNCHANGED <<row, consumed, envelopes, rec, issued, contacts>>
  PROVE  IInv'
<1>1. run' = [run EXCEPT ![r] = [run[r] EXCEPT !.pc = step]]
  BY Zenon DEF Go
<1>2. run[r] \in Run
  BY Zenon DEF IInv, TypeOK
<1>3. run' \in [Runs -> Run] /\ \A s \in Runs : Calm(s)
  <2>1. LET q == [run[r] EXCEPT !.pc = step] IN
        /\ q \in Run
        /\ q.pc = step /\ q.task = run[r].task /\ q.fence = run[r].fence
        /\ q.grant = run[r].grant /\ q.seen = run[r].seen
    BY <1>2, Zenon DEF Run
  <2> QED BY <1>1, <2>1, MoveCalm, Zenon
<1>4. TypeOK'
  BY Zenon, <1>3 DEF IInv, TypeOK
<1>5. Quiet
  BY Zenon, <1>3 DEF IInv, PersistedInv, Quiet, Still
<1> QED BY Zenon, <1>4, <1>5, QuietInv

\* The moves of Worker.Run that stay within one phase.
LEMMA StepPhases ==
  /\ SamePhase("fetched", "checked") /\ SamePhase("captured", "written")
  /\ SamePhase("written", "assembled") /\ SamePhase("leased", "started")
  /\ SamePhase("persisted", "committing")
  BY Zenon DEF SamePhase, Holding, Recorded, Spent, Steps

\* Steps of a run that change nothing but its step and clock readings.
LEMMA LocalInv ==
  ASSUME IInv, NEW r \in Runs, ExchangeContext(r) \/ WriteCaptured(r) \/ AssembleContext(r)
  PROVE  IInv'
<1> {"checked", "failing", "written", "assembled"} \subseteq Steps
  BY Zenon DEF Steps
<1>1. CASE ExchangeContext(r)
  <2>1. PICK step \in {"checked", "failing"} : Go(r, step)
    BY Zenon, <1>1 DEF ExchangeContext
  <2> QED
    BY Zenon, <1>1, <2>1, GoQuiet, StepPhases DEF ExchangeContext, IInv, TypeOK
<1>2. CASE AssembleContext(r)
  <2>1. PICK step \in {"assembled", "failing"} : Go(r, step)
    BY Zenon, <1>2 DEF AssembleContext
  <2> QED
    BY Zenon, <1>2, <2>1, GoQuiet, StepPhases DEF AssembleContext, IInv, TypeOK
<1>3. CASE WriteCaptured(r)
  <2>1. CASE Fault /\ Go(r, "failing")
    <3>1. faults' \in Nat
      BY <2>1 DEF Fault, IInv, TypeOK
    <3> QED BY Zenon, <1>3, <2>1, <3>1, GoQuiet DEF WriteCaptured, IInv, TypeOK
  <2>2. ASSUME NEW now \in Nat, UNCHANGED faults,
               run' = [run EXCEPT ![r] = [run[r] EXCEPT !.pc = "written", !.stamp = now]]
        PROVE  IInv'
    <3>1. run[r] \in Run /\ run[r].pc = "captured"
      BY Zenon, <1>3 DEF WriteCaptured, IInv, TypeOK
    <3>2. run' \in [Runs -> Run] /\ \A s \in Runs : Calm(s)
      <4>1. LET q == [run[r] EXCEPT !.pc = "written", !.stamp = now] IN
            /\ q \in Run
            /\ q.pc = "written" /\ q.task = run[r].task /\ q.fence = run[r].fence
            /\ q.grant = run[r].grant /\ q.seen = run[r].seen
        BY <2>2, <3>1, Zenon DEF Run
      <4>2. SamePhase(run[r].pc, "written") /\ run[r].pc # "idle"
        BY Zenon, <3>1, StepPhases
      <4> QED BY <2>2, <4>1, <4>2, MoveCalm, Zenon
    <3>3. TypeOK' /\ Quiet
      BY Zenon, <1>3, <2>2, <3>2 DEF WriteCaptured, IInv, TypeOK, PersistedInv, Quiet, Still
    <3> QED BY Zenon, <3>3, QuietInv
  <2> QED BY Zenon, <1>3, <2>1, <2>2 DEF WriteCaptured, Reading
<1> QED BY Zenon, <1>1, <1>2, <1>3

\* A quiet change of one row.
LEMMA RowQuiet ==
  ASSUME IInv, NEW t \in Tasks, NEW q \in Task,
         row' = [row EXCEPT ![t] = q],
         q.fence = row[t].fence, q.grant = row[t].grant,
         q.attempt = row[t].attempt, q.evidence = row[t].evidence,
         q.state = "succeeded" <=> row[t].state = "succeeded",
         run' \in [Runs -> Run], \A s \in Runs : Calm(s),
         UNCHANGED <<clock, consumed, envelopes, rec, faults, issued, contacts>>
  PROVE  IInv'
<1>1. row' \in [Tasks -> Task] /\ row'[t] = q /\ \A u \in Tasks : u # t => row'[u] = row[u]
  BY Zenon, RowUpdate DEF IInv, TypeOK
<1>2. TypeOK'
  BY Zenon, <1>1 DEF IInv, TypeOK
<1>3. Quiet
  BY Zenon, <1>1 DEF IInv, PersistedInv, Quiet, Still
<1> QED BY Zenon, <1>2, <1>3, QuietInv

\* The guarded moves of the task, taken or refused.
LEMMA TransitionInv ==
  ASSUME IInv, NEW r \in Runs, StartExecutionContext(r) \/ BeginCommitContext(r)
  PROVE  IInv'
<1>1. PICK from \in {"leased", "executing"}, to \in {"executing", "committing"},
           step \in {"started", "committing"} :
        /\ run[r].pc # "idle" /\ SamePhase(run[r].pc, step)
        /\ TransitionOwned(r, from, to, step)
  BY Zenon, StepPhases DEF StartExecutionContext, BeginCommitContext
<1>2. CASE Return(r) /\ UNCHANGED row
  BY Zenon, <1>1, <1>2, ReturnQuiet DEF TransitionOwned, IInv, TypeOK
<1>3. CASE /\ row[run[r].task].state = from
           /\ row' = [row EXCEPT ![run[r].task].state = to] /\ Go(r, step)
  <2> DEFINE t == run[r].task
             q == [row[t] EXCEPT !.state = to]
  <2>1. t \in Tasks /\ row[t] \in Task /\ run[r] \in Run
    BY Zenon, <1>1 DEF IInv, TypeOK, RunInv
  <2>2. to \in TaskState /\ step \in Steps
    BY Zenon DEF TaskState, Active, Steps
  <2>3. /\ q \in Task /\ q.state = to
        /\ q.fence = row[t].fence /\ q.grant = row[t].grant
        /\ q.attempt = row[t].attempt /\ q.evidence = row[t].evidence
    BY <2>1, <2>2, 0 \in Nat, Zenon DEF Task, TaskState
  <2>4. row' = [row EXCEPT ![t] = q]
    BY Zenon, <1>3
  <2>5. run' = [run EXCEPT ![r] = [run[r] EXCEPT !.pc = step]]
    BY Zenon, <1>3 DEF Go
  <2>6. run' \in [Runs -> Run] /\ \A s \in Runs : Calm(s)
    <3>1. LET p == [run[r] EXCEPT !.pc = step] IN
          /\ p \in Run
          /\ p.pc = step /\ p.task = run[r].task /\ p.fence = run[r].fence
          /\ p.grant = run[r].grant /\ p.seen = run[r].seen
      BY <2>1, <2>2, Zenon DEF Run
    <3> QED BY <1>1, <2>2, <2>5, <3>1, MoveCalm, Zenon
  <2> HIDE DEF q
  <2> QED BY Zenon, <1>1, <1>3, <2>1, <2>3, <2>4, <2>6, RowQuiet DEF TransitionOwned
<1> QED BY Zenon, <1>1, <1>2, <1>3 DEF TransitionOwned

\* failAttempt returns the task and keeps every binding.
LEMMA RetryInv ==
  ASSUME IInv, NEW r \in Runs, RetryContext(r)
  PROVE  IInv'
<1> DEFINE t == run[r].task
           q == [row[t] EXCEPT !.state = "retry_wait", !.owner = None, !.expiry = 0]
<1>1. CASE UNCHANGED row
  BY Zenon, <1>1, ReturnQuiet DEF RetryContext, IInv, TypeOK
<1>2. CASE row[t].state \in Active /\ row' = [row EXCEPT ![t] = q]
  <2>1. t \in Tasks /\ row[t] \in Task
    BY Zenon DEF RetryContext, IInv, TypeOK, RunInv
  <2>2. "retry_wait" \in TaskState
    BY Zenon DEF TaskState, Leasable
  <2>3. /\ q \in Task /\ q.state \in {"retry_wait", row[t].state}
        /\ q.fence = row[t].fence /\ q.grant = row[t].grant
        /\ q.attempt = row[t].attempt /\ q.evidence = row[t].evidence
    BY <2>1, <2>2, 0 \in Nat, Zenon DEF Task, TaskState
  <2>4. run' \in [Runs -> Run] /\ \A s \in Runs : Calm(s)
    BY Zenon DEF RetryContext, Return, IInv, TypeOK, Calm, Idle, Run, Steps
  <2> HIDE DEF q
  <2> QED BY Zenon, <1>2, <2>1, <2>3, <2>4, RowQuiet DEF RetryContext, Active
<1> QED BY Zenon, <1>1, <1>2 DEF RetryContext

\* Steps that leave every run alone.
LEMMA OutsideInv ==
  ASSUME IInv,
         \/ Tick
         \/ \E t \in Tasks : AddContext(t)
         \/ \E r \in Runs : RenewContext(r)
         \/ \E c \in Reconcilers : ListExpiredEvidenceCandidates(c) \/ RunnerCrash(c)
  PROVE  IInv'
<1>1. CASE Tick
  BY <1>1, QuietInv DEF Tick, IInv, TypeOK, PersistedInv, Quiet, Still, Calm
<1>2. ASSUME NEW t \in Tasks, AddContext(t) PROVE IInv'
  <2>1. row[t] \in Task /\ "queued" \in TaskState
    BY Zenon DEF IInv, TypeOK, TaskState, Leasable
  <2> DEFINE q == [row[t] EXCEPT !.state = "queued"]
  <2>2. /\ q \in Task /\ q.state = "queued"
        /\ q.fence = row[t].fence /\ q.grant = row[t].grant
        /\ q.attempt = row[t].attempt /\ q.evidence = row[t].evidence
    BY <2>1, Zenon DEF Task, TaskState
  <2>3. row' = [row EXCEPT ![t] = q] /\ row[t].state = "absent"
    BY Zenon, <1>2 DEF AddContext
  <2> HIDE DEF q
  <2> QED BY Zenon, <1>2, <2>2, <2>3, RowQuiet DEF AddContext, IInv, TypeOK, Calm
<1>3. ASSUME NEW r \in Runs, RenewContext(r) PROVE IInv'
  <2>1. PICK x \in Nat : row' = [row EXCEPT ![run[r].task].expiry = x]
    <3>1. \A now \in Reading : now + LeaseDuration \in Nat
      BY CollectorAssumption DEF Reading
    <3> QED BY Zenon, <1>3, <3>1 DEF RenewContext
  <2> DEFINE t == run[r].task
             q == [row[t] EXCEPT !.expiry = x]
  <2>2. t \in Tasks /\ row[t] \in Task /\ "queued" \in TaskState
    BY Zenon, <1>3 DEF RenewContext, IInv, TypeOK, RunInv, TaskState, Leasable
  <2>3. /\ q \in Task /\ q.state = row[t].state
        /\ q.fence = row[t].fence /\ q.grant = row[t].grant
        /\ q.attempt = row[t].attempt /\ q.evidence = row[t].evidence
    BY <2>2, Zenon DEF Task
  <2>4. row' = [row EXCEPT ![t] = q]
    BY Zenon, <2>1
  <2> HIDE DEF q
  <2> QED BY Zenon, <1>3, <2>2, <2>3, <2>4, RowQuiet DEF RenewContext, IInv, TypeOK, Calm
<1>4. ASSUME NEW c \in Reconcilers, ListExpiredEvidenceCandidates(c) PROVE IInv'
  <2>1. PICK at \in Reading, batch \in SUBSET envelopes :
          rec' = [rec EXCEPT ![c] = [at |-> at, batch |-> batch]]
    BY Zenon, <1>4 DEF ListExpiredEvidenceCandidates
  <2>2. TypeOK'
    BY Zenon, <1>4, <2>1 DEF ListExpiredEvidenceCandidates, Reading, IInv, TypeOK
  <2>3. Quiet
    BY Zenon, <1>4, <2>1 DEF ListExpiredEvidenceCandidates, IInv, TypeOK, PersistedInv, Quiet, Still, Calm
  <2> QED BY Zenon, <2>2, <2>3, QuietInv
<1>5. ASSUME NEW c \in Reconcilers, RunnerCrash(c) PROVE IInv'
  <2>1. TypeOK'
    BY <1>5 DEF RunnerCrash, Fault, NoBatch, IInv, TypeOK
  <2>2. Quiet
    BY Zenon, <1>5 DEF RunnerCrash, NoBatch, IInv, TypeOK, PersistedInv, Quiet, Still, Calm
  <2> QED BY Zenon, <2>1, <2>2, QuietInv
<1> QED BY Zenon, <1>1, <1>2, <1>3, <1>4, <1>5

-----------------------------------------------------------------------------
(* The steps that move grants, evidence and results *)

\* A run that moves on keeps its task, fence and grant.
LEMMA MovedRun ==
  ASSUME IInv, NEW r \in Runs, run[r].pc # "idle", NEW q \in Run,
         q.pc # "idle", q.task = run[r].task, q.fence = run[r].fence,
         run' = [run EXCEPT ![r] = q],
         \A t \in Tasks : row'[t].fence = row[t].fence
  PROVE  /\ run' \in [Runs -> Run] /\ run'[r] = q
         /\ \A s \in Runs : s # r => run'[s] = run[s]
         /\ RunInv' /\ FenceInv'
<1>1. /\ run' \in [Runs -> Run] /\ run'[r] = q
      /\ \A s \in Runs : s # r => run'[s] = run[s]
  BY Zenon, RunUpdate DEF IInv, TypeOK
<1>2. RunInv'
  BY <1>1 DEF IInv, RunInv
<1>3. FenceInv'
  BY <1>1 DEF IInv, FenceInv
<1> QED BY Zenon, <1>1, <1>2, <1>3

\* A fresh grant is bound to its run's task, fence and collector.
LEMMA IssueInv ==
  ASSUME IInv, NEW r \in Runs, IssueGrant(r)
  PROVE  IInv'
<1> USE DEF IInv
<1>1. run[r].pc = "started" /\ run[r] \in Run /\ run[r].task \in Tasks /\ run[r].fence \in Nat
  BY Zenon DEF IssueGrant, TypeOK, RunInv, Run
<1>2. CASE Go(r, "failing") /\ UNCHANGED issued /\ faults' \in Nat
  BY Zenon, <1>1, <1>2, GoQuiet DEF IssueGrant, TypeOK, Steps
<1>3. ASSUME NEW g \in Grants, NEW x \in Nat, NEW y \in Nat, issued[g] = None,
             issued' = [issued EXCEPT ![g] = [task |-> run[r].task, fence |-> run[r].fence,
                                              owner |-> CollectorOf[r]]],
             run' = [run EXCEPT ![r] = [run[r] EXCEPT !.pc = "granted", !.grant = g,
                                                      !.notBefore = x, !.expires = y]],
             UNCHANGED faults
      PROVE  IInv'
  <2> DEFINE b == [task |-> run[r].task, fence |-> run[r].fence, owner |-> CollectorOf[r]]
             q == [run[r] EXCEPT !.pc = "granted", !.grant = g, !.notBefore = x, !.expires = y]
  <2>1. b \in ExecutionGrant /\ b # None /\ b.task = run[r].task /\ b.fence = run[r].fence
    BY <1>1, CollectorAssumption, NoneAssumption DEF ExecutionGrant
  <2>2. /\ q \in Run /\ q.pc = "granted" /\ q.grant = g
        /\ q.task = run[r].task /\ q.fence = run[r].fence /\ q.seen = run[r].seen
    BY <1>1, <1>3, Zenon DEF Run, Steps
  <2>3. run' = [run EXCEPT ![r] = q] /\ issued' = [issued EXCEPT ![g] = b]
    BY Zenon, <1>3
  <2> HIDE DEF b, q
  <2>4. UNCHANGED <<clock, row, consumed, envelopes, rec, faults, contacts>>
    BY Zenon, <1>3 DEF IssueGrant
  <2>5. /\ issued' \in [Grants -> ExecutionGrant \cup {None}] /\ issued'[g] = b
        /\ \A h \in Grants : h # g => issued'[h] = issued[h]
    BY Zenon, <2>1, <2>3 DEF TypeOK
  <2>6. /\ run' \in [Runs -> Run] /\ run'[r] = q
        /\ \A s \in Runs : s # r => run'[s] = run[s]
        /\ RunInv' /\ FenceInv'
    BY Zenon, <1>1, <2>2, <2>3, <2>4, MovedRun
  <2>7. \A h \in Grants : issued[h] # None => issued[h].task # b.task \/ issued[h].fence # b.fence
    <3>1. run[r].grant = None
      BY Zenon, <1>1 DEF HolderInv
    <3> QED BY <1>1, <2>1, <3>1, CollectorAssumption DEF IssuedInv
  <2>8. TypeOK'
    BY Zenon, <2>4, <2>5, <2>6 DEF TypeOK
  <2>9. IssuedInv'
    <3>1. ASSUME NEW h \in Grants, h # g, issued[h] # None
          PROVE  /\ issued[h].fence <= row[issued[h].task].fence
                 /\ \A s \in Runs : run'[s].pc # "idle" /\ run'[s].task = issued[h].task
                      /\ run'[s].fence = issued[h].fence => run'[s].grant = h
      BY <2>1, <2>2, <2>6, <2>7, <3>1 DEF IssuedInv
    <3>2. b.fence <= row[b.task].fence
      BY Zenon, <1>1, <2>1 DEF RunInv
    <3>3. \A s \in Runs : run'[s].pc # "idle" /\ run'[s].task = b.task /\ run'[s].fence = b.fence
            => run'[s].grant = g
      BY Zenon, <1>1, <2>1, <2>2, <2>6 DEF FenceInv
    <3> QED BY <2>4, <2>5, <3>1, <3>2, <3>3 DEF IssuedInv
  <2>10. UniqueGrantInv'
    BY <2>5, <2>7 DEF UniqueGrantInv
  <2>11. HolderInv'
    <3>1. ASSUME NEW s \in Runs, run'[s].pc \in Holding
          PROVE  /\ run'[s].grant \in Grants
                 /\ issued'[run'[s].grant] = [task |-> run'[s].task, fence |-> run'[s].fence,
                                              owner |-> CollectorOf[s]]
      <4>1. CASE s = r
        BY Zenon, <1>3, <2>2, <2>5, <2>6, <4>1 DEF b
      <4>2. CASE s # r
        <5>1. /\ run[s].grant \in Grants
              /\ issued[run[s].grant] = [task |-> run[s].task, fence |-> run[s].fence,
                                         owner |-> CollectorOf[s]]
          BY Zenon, <2>6, <3>1, <4>2 DEF HolderInv
        <5>2. run[s].task \in Tasks /\ run[s].fence \in Nat
          BY Zenon, <2>6, <3>1, <4>2 DEF RunInv, TypeOK, Run, Holding
        <5>3. issued[run[s].grant] # None
          BY <5>1, <5>2, CollectorAssumption, NoneAssumption DEF ExecutionGrant
        <5> QED BY Zenon, <1>3, <2>5, <2>6, <4>2, <5>1, <5>3
      <4> QED BY Zenon, <4>1, <4>2
    <3>2. \A s \in Runs : run'[s].pc \in {"leased", "started"} => run'[s].grant = None
      BY Zenon, <2>2, <2>6 DEF HolderInv
    <3> QED BY Zenon, <3>1, <3>2 DEF HolderInv
  <2>12. RecordedInv'
    <3>1. "granted" \notin Recorded \cup Spent \cup {"fetched", "checked"}
      BY Zenon DEF Recorded, Spent
    <3> QED BY <2>2, <2>4, <2>6, <3>1 DEF RecordedInv
  <2>13. RowGrantInv'
    <3>1. \A t \in Tasks : row[t].grant \in Grants \cup {None}
      BY Zenon DEF TypeOK, Task
    <3> QED BY Zenon, <1>3, <2>4, <2>5, <3>1 DEF RowGrantInv
  <2>14. ContactInv'
    BY Zenon, <1>3, <2>1, <2>2, <2>4, <2>5, <2>6 DEF ContactInv, TypeOK
  <2>15. PersistedInv'
    BY Zenon, <2>2, <2>4, <2>6 DEF PersistedInv, Envelope
  <2>16. EvidenceHasSpentAuthority'
    BY Zenon, <1>3, <2>4, <2>5 DEF EvidenceHasSpentAuthority, Bindings, ContactInv, TypeOK
  <2>17. AcceptedResultIsCurrent'
    BY Zenon, <2>4 DEF AcceptedResultIsCurrent
  <2> QED BY Zenon, <2>6, <2>8, <2>9, <2>10, <2>11, <2>12, <2>13, <2>14, <2>15, <2>16, <2>17
<1>4. \A at \in Reading : at \in Nat /\ GrantExpiry(r, at) \in Nat
  BY <1>1, CollectorAssumption DEF Reading, GrantExpiry, Run
<1> QED
  <2>1. Fault => faults' \in Nat
    BY DEF Fault, TypeOK
  <2>2. faults \in Nat
    BY Zenon DEF TypeOK
  <2>3. CASE \E g \in Grants, at \in Reading :
               /\ issued[g] = None
               /\ issued' = [issued EXCEPT ![g] = [task |-> run[r].task, fence |-> run[r].fence,
                                                   owner |-> CollectorOf[r]]]
               /\ run' = [run EXCEPT ![r] =
                    [@ EXCEPT !.pc = "granted", !.grant = g,
                              !.notBefore = at, !.expires = GrantExpiry(r, at)]]
               /\ UNCHANGED faults
    BY Zenon, <1>3, <1>4, <2>3
  <2> QED BY Zenon, <1>2, <2>1, <2>2, <2>3 DEF IssueGrant

\* Recording the authority makes the row carry the run's grant.
LEMMA RecordInv ==
  ASSUME IInv, NEW r \in Runs, RecordExecutionAuthorityContext(r)
  PROVE  IInv'
<1> USE DEF IInv
<1> DEFINE t == run[r].task
           z == [row[t] EXCEPT !.grant = run[r].grant]
           q == [run[r] EXCEPT !.pc = "recorded"]
<1>1. run[r].pc = "granted" /\ run[r] \in Run /\ t \in Tasks /\ row[t] \in Task
  BY Zenon DEF RecordExecutionAuthorityContext, TypeOK, RunInv
<1>2. CASE Return(r) /\ UNCHANGED row
  BY Zenon, <1>2, ReturnQuiet DEF RecordExecutionAuthorityContext, TypeOK
<1>3. CASE /\ row[t].fence = run[r].fence /\ row[t].state = "executing"
           /\ row' = [row EXCEPT ![t].grant = run[r].grant]
           /\ Go(r, "recorded")
  <2>1. /\ run[r].grant \in Grants
        /\ issued[run[r].grant] =
             [task |-> t, fence |-> run[r].fence, owner |-> CollectorOf[r]]
    BY Zenon, <1>1 DEF HolderInv, Holding, Steps
  <2>2. /\ z \in Task /\ z.fence = row[t].fence /\ z.grant = run[r].grant
        /\ z.state = row[t].state /\ z.attempt = row[t].attempt /\ z.evidence = row[t].evidence
    BY <1>1, <2>1, Zenon DEF Task
  <2>3. /\ q \in Run /\ q.pc = "recorded" /\ q.task = t /\ q.fence = run[r].fence
        /\ q.grant = run[r].grant /\ q.seen = run[r].seen
    BY <1>1, Zenon DEF Run, Steps
  <2>4. row' = [row EXCEPT ![t] = z] /\ run' = [run EXCEPT ![r] = q]
    BY Zenon, <1>3 DEF Go
  <2> HIDE DEF z, q
  <2>5. UNCHANGED <<clock, consumed, envelopes, rec, faults, issued, contacts>>
    BY Zenon DEF RecordExecutionAuthorityContext
  <2>6. row' \in [Tasks -> Task] /\ row'[t] = z /\ \A u \in Tasks : u # t => row'[u] = row[u]
    BY Zenon, <1>1, <2>2, <2>4, RowUpdate DEF TypeOK
  <2>7. /\ run' \in [Runs -> Run] /\ run'[r] = q
        /\ \A s \in Runs : s # r => run'[s] = run[s]
        /\ RunInv' /\ FenceInv'
    BY Zenon, <1>1, <2>2, <2>3, <2>4, <2>6, MovedRun
  <2>8. TypeOK'
    BY Zenon, <2>5, <2>6, <2>7 DEF TypeOK
  <2>9. IssuedInv' /\ UniqueGrantInv'
    <3>1. \A u \in Tasks : row'[u].fence = row[u].fence
      BY Zenon, <2>2, <2>6
    <3>2. \A g \in Grants : issued[g] # None => issued[g].task \in Tasks
      BY Zenon DEF TypeOK, ExecutionGrant
    <3>3. \A s \in Runs : /\ run'[s].pc # "idle" => run[s].pc # "idle"
                          /\ run'[s].task = run[s].task /\ run'[s].fence = run[s].fence
                          /\ run'[s].grant = run[s].grant
      BY Zenon, <1>1, <2>3, <2>7
    <3> QED BY <2>5, <3>1, <3>2, <3>3 DEF IssuedInv, UniqueGrantInv
  <2>10. HolderInv'
    BY ZenonT(60), <1>1, <2>1, <2>3, <2>5, <2>7 DEF HolderInv, Holding
  <2>11. RecordedInv'
    <3>1. ASSUME NEW s \in Runs, s # r, run[s].pc \in Recorded, row'[run[s].task].fence = run[s].fence
          PROVE  run[s].task \in Tasks /\ row'[run[s].task] = row[run[s].task]
      BY <1>1, <1>3, <2>2, <2>6, <3>1 DEF RunInv, FenceInv, Recorded, Holding
    <3>2. {"fetched", "checked"} \cup Spent \subseteq Recorded /\ "recorded" \notin Spent
      BY Zenon DEF Recorded, Holding, Spent, Steps
    <3> QED BY <1>3, <2>2, <2>3, <2>5, <2>6, <2>7, <3>1, <3>2 DEF RecordedInv
  <2>12. RowGrantInv'
    <3>1. issued[run[r].grant] # None
      <4>1. run[r].fence \in Nat BY Zenon, <1>1 DEF Run
      <4> QED BY <1>1, <2>1, <4>1, CollectorAssumption, NoneAssumption DEF ExecutionGrant
    <3> QED BY <1>3, <2>1, <2>2, <2>5, <2>6, <3>1 DEF RowGrantInv
  <2>13. ContactInv' /\ PersistedInv'
    BY Zenon, <2>3, <2>5, <2>7 DEF ContactInv, PersistedInv, Envelope
  <2>14. EvidenceHasSpentAuthority' /\ AcceptedResultIsCurrent'
    BY ZenonT(60), <1>3, <2>2, <2>5, <2>6 DEF EvidenceHasSpentAuthority, AcceptedResultIsCurrent, Bindings
  <2> QED BY Zenon, <2>7, <2>8, <2>9, <2>10, <2>11, <2>12, <2>13, <2>14
<1> QED BY Zenon, <1>2, <1>3 DEF RecordExecutionAuthorityContext, Owns

\* What holds after any later step of an attempt that leaves its task alone.
LEMMA KeptInv ==
  ASSUME IInv, NEW r \in Runs, run[r].pc \in Holding, NEW q \in Run,
         q.pc \in Holding \cup {"failing"},
         q.task = run[r].task, q.fence = run[r].fence, q.grant = run[r].grant,
         run' = [run EXCEPT ![r] = q],
         UNCHANGED <<row, issued, rec>>, envelopes \subseteq envelopes'
  PROVE  /\ run' \in [Runs -> Run] /\ run'[r] = q
         /\ \A s \in Runs : s # r => run'[s] = run[s]
         /\ RunInv' /\ FenceInv' /\ IssuedInv' /\ UniqueGrantInv' /\ HolderInv' /\ RowGrantInv'
         /\ AcceptedResultIsCurrent'
<1> USE DEF IInv
<1>1. run[r].pc # "idle" /\ q.pc # "idle" /\ q.pc \notin {"leased", "started"}
  BY Zenon DEF Holding
<1>2. /\ run' \in [Runs -> Run] /\ run'[r] = q
      /\ \A s \in Runs : s # r => run'[s] = run[s]
      /\ RunInv' /\ FenceInv'
  BY Zenon, <1>1, MovedRun
<1>3. \A s \in Runs : /\ run'[s].pc # "idle" => run[s].pc # "idle"
                      /\ run'[s].task = run[s].task /\ run'[s].fence = run[s].fence
                      /\ run'[s].grant = run[s].grant
  BY <1>1, <1>2
<1>4. IssuedInv' /\ UniqueGrantInv' /\ RowGrantInv'
  BY <1>3 DEF IssuedInv, UniqueGrantInv, RowGrantInv
<1>5. HolderInv'
  BY <1>1, <1>2, <1>3 DEF HolderInv
<1>6. AcceptedResultIsCurrent'
  BY Zenon DEF AcceptedResultIsCurrent
<1> QED BY Zenon, <1>2, <1>4, <1>5, <1>6

\* How the phases nest.
LEMMA LaterPhases ==
  /\ {"recorded", "fetched", "checked", "exchanged", "captured", "assembled", "persisted"}
       \subseteq Recorded
  /\ Spent \subseteq Recorded /\ Recorded \subseteq Holding /\ Holding \subseteq Steps
  /\ {"exchanged", "captured", "assembled", "persisted", "committing"} \subseteq Spent
  /\ {"recorded", "fetched", "checked", "failing"} \cap Spent = {}
  /\ "failing" \notin Recorded /\ "failing" \in Steps /\ "idle" \notin Holding
  BY Zenon DEF Recorded, Spent, Holding, Steps

\* The unguarded read still names the run's grant while the fence is unchanged.
LEMMA GetInv ==
  ASSUME IInv, NEW r \in Runs, GetContext(r)
  PROVE  IInv'
<1> USE DEF IInv
<1> DEFINE q == [run[r] EXCEPT !.pc = "fetched", !.seen = row[run[r].task].grant]
<1>1. run[r].pc = "recorded" /\ run[r] \in Run /\ run[r].task \in Tasks
      /\ row[run[r].task].grant \in Grants \cup {None}
  BY Zenon DEF GetContext, TypeOK, RunInv, Task
<1>2. /\ q \in Run /\ q.pc = "fetched" /\ q.task = run[r].task /\ q.fence = run[r].fence
      /\ q.grant = run[r].grant /\ q.seen = row[run[r].task].grant
  BY <1>1, Zenon DEF Run, Steps
<1>3. run' = [run EXCEPT ![r] = q]
      /\ UNCHANGED <<clock, row, consumed, envelopes, rec, faults, issued, contacts>>
  BY Zenon DEF GetContext
<1> HIDE DEF q
<1>4. /\ run' \in [Runs -> Run] /\ run'[r] = q
      /\ \A s \in Runs : s # r => run'[s] = run[s]
      /\ RunInv' /\ FenceInv' /\ IssuedInv' /\ UniqueGrantInv' /\ HolderInv' /\ RowGrantInv'
      /\ AcceptedResultIsCurrent'
  BY Zenon, <1>1, <1>2, <1>3, KeptInv, LaterPhases
<1>5. TypeOK'
  BY Zenon, <1>3, <1>4 DEF TypeOK
<1>6. RecordedInv'
  BY <1>1, <1>2, <1>3, <1>4, LaterPhases DEF RecordedInv
<1>7. ContactInv' /\ PersistedInv' /\ EvidenceHasSpentAuthority'
  BY Zenon, <1>2, <1>3, <1>4 DEF ContactInv, PersistedInv, Envelope, EvidenceHasSpentAuthority, Bindings
<1> QED BY Zenon, <1>4, <1>5, <1>6, <1>7

\* A run with a recorded grant that has it spent stays in step with its row.
LEMMA SpentStaysRecorded ==
  ASSUME RecordedInv, NEW r \in Runs, run[r].pc \in Recorded, NEW q,
         run'[r] = q, \A s \in Runs : s # r => run'[s] = run[s],
         q.task = run[r].task, q.fence = run[r].fence, q.grant = run[r].grant,
         q.seen = run[r].grant, run[r].grant \in consumed', UNCHANGED row, consumed \subseteq consumed'
  PROVE  RecordedInv'
<1> SUFFICES ASSUME NEW s \in Runs PROVE RecordedInv!(s)'
  BY Zenon DEF RecordedInv
<1>1. CASE s # r
  BY Zenon, <1>1 DEF RecordedInv
<1>2. CASE s = r
  BY Zenon, <1>2 DEF RecordedInv
<1> QED BY Zenon, <1>1, <1>2

\* Consumption spends the grant that the locked row carries.
LEMMA ConsumeInv ==
  ASSUME IInv, NEW r \in Runs, Consume(r)
  PROVE  IInv'
<1> USE DEF IInv
<1> DEFINE id == run[r].grant
<1>1. run[r].pc = "checked" /\ run[r] \in Run /\ run[r].pc # "idle"
  BY Zenon DEF Consume, TypeOK
<1>2. CASE UNCHANGED <<consumed, faults>> /\ Go(r, "failing")
  BY Zenon, <1>1, <1>2, GoQuiet, LaterPhases DEF Consume, TypeOK
<1>3. ASSUME NEW step \in {"exchanged", "failing"}, Consumable(id, run[r].expires), Go(r, step),
             consumed' = consumed \cup {id}, faults' \in Nat
      PROVE  IInv'
  <2> DEFINE q == [run[r] EXCEPT !.pc = step]
  <2>1. /\ id \in Grants
        /\ issued[id] = [task |-> run[r].task, fence |-> run[r].fence, owner |-> CollectorOf[r]]
    BY Zenon, <1>1, LaterPhases DEF HolderInv
  <2>2. id \notin consumed /\ run[r].seen = id
    <3>1. row[run[r].task].fence = run[r].fence
      BY <1>3, <2>1 DEF Consumable
    <3> QED BY Zenon, <1>1, <1>3, <3>1 DEF Consumable, RecordedInv
  <2>3. step \in Steps /\ step \in Holding \cup {"failing"}
    BY Zenon, LaterPhases
  <2>4. /\ q \in Run /\ q.pc = step /\ q.task = run[r].task /\ q.fence = run[r].fence
        /\ q.grant = id /\ q.seen = run[r].seen
    BY <1>1, <2>3, Zenon DEF Run
  <2>5. run' = [run EXCEPT ![r] = q]
        /\ UNCHANGED <<clock, row, envelopes, rec, issued, contacts>>
    BY Zenon, <1>3 DEF Go, Consume
  <2> HIDE DEF q
  <2>6. /\ run' \in [Runs -> Run] /\ run'[r] = q
        /\ \A s \in Runs : s # r => run'[s] = run[s]
        /\ RunInv' /\ FenceInv' /\ IssuedInv' /\ UniqueGrantInv' /\ HolderInv' /\ RowGrantInv'
        /\ AcceptedResultIsCurrent'
    BY Zenon, <1>1, <2>3, <2>4, <2>5, KeptInv, LaterPhases
  <2>7. TypeOK'
    BY Zenon, <1>3, <2>1, <2>5, <2>6 DEF TypeOK
  <2>8. RecordedInv'
    <3>1. run[r].pc \in Recorded /\ consumed \subseteq consumed' /\ id \in consumed'
      BY Zenon, <1>1, <1>3, LaterPhases
    <3>2. RecordedInv
      BY Zenon
    <3> HIDE DEF IInv
    <3> QED BY ZenonT(60), <2>2, <2>4, <2>5, <2>6, <3>1, <3>2, SpentStaysRecorded
  <2>9. ContactInv'
    <3>1. contacts[id] = 0
      BY <2>1, <2>2 DEF ContactInv, TypeOK
    <3>2. issued[id] # None
      <4>1. run[r].fence \in Nat /\ run[r].task \in Tasks BY Zenon, <1>1 DEF Run, RunInv
      <4> QED BY <2>1, <4>1, CollectorAssumption, NoneAssumption DEF ExecutionGrant
    <3> QED BY Zenon, <1>3, <2>4, <2>5, <2>6, <3>1, <3>2 DEF ContactInv
  <2>10. PersistedInv' /\ EvidenceHasSpentAuthority'
    BY Zenon, <1>3, <2>4, <2>5, <2>6 DEF PersistedInv, Envelope, EvidenceHasSpentAuthority, Bindings
  <2> QED BY Zenon, <2>6, <2>7, <2>8, <2>9, <2>10
<1>4. faults \in Nat /\ (Fault => faults' \in Nat)
  BY DEF Fault, TypeOK
<1> QED BY Zenon, <1>2, <1>3, <1>4 DEF Consume

\* One contact, under a spent grant that has none.
LEMMA ExecuteInv ==
  ASSUME IInv, NEW r \in Runs, Execute(r)
  PROVE  IInv'
<1> USE DEF IInv
<1> DEFINE id == run[r].grant
<1>1. run[r].pc = "exchanged" /\ run[r] \in Run /\ run[r].pc # "idle"
  BY Zenon DEF Execute, TypeOK
<1>2. CASE UNCHANGED <<contacts, faults>> /\ Go(r, "failing")
  BY Zenon, <1>1, <1>2, GoQuiet, LaterPhases DEF Execute, TypeOK
<1>3. ASSUME NEW step \in {"captured", "failing"}, Go(r, step),
             contacts' = [contacts EXCEPT ![id] = @ + 1], faults' \in Nat
      PROVE  IInv'
  <2> DEFINE q == [run[r] EXCEPT !.pc = step]
  <2>1. /\ id \in Grants
        /\ issued[id] = [task |-> run[r].task, fence |-> run[r].fence, owner |-> CollectorOf[r]]
    BY Zenon, <1>1, LaterPhases DEF HolderInv
  <2>2. id \in consumed /\ run[r].seen = id /\ contacts[id] = 0
    BY Zenon, <1>1, LaterPhases DEF RecordedInv, ContactInv
  <2>3. step \in Steps /\ step \in Holding \cup {"failing"}
    BY Zenon, LaterPhases
  <2>4. /\ q \in Run /\ q.pc = step /\ q.task = run[r].task /\ q.fence = run[r].fence
        /\ q.grant = id /\ q.seen = run[r].seen
    BY <1>1, <2>3, Zenon DEF Run
  <2>5. run' = [run EXCEPT ![r] = q]
        /\ UNCHANGED <<clock, row, consumed, envelopes, rec, issued>>
    BY Zenon, <1>3 DEF Go, Execute
  <2> HIDE DEF q
  <2>6. /\ run' \in [Runs -> Run] /\ run'[r] = q
        /\ \A s \in Runs : s # r => run'[s] = run[s]
        /\ RunInv' /\ FenceInv' /\ IssuedInv' /\ UniqueGrantInv' /\ HolderInv' /\ RowGrantInv'
        /\ AcceptedResultIsCurrent'
    BY Zenon, <1>1, <2>3, <2>4, <2>5, KeptInv, LaterPhases
  <2>7. TypeOK'
    <3>1. contacts' \in [Grants -> Nat]
      BY <1>3, <2>1 DEF TypeOK
    <3> QED BY Zenon, <1>3, <2>5, <2>6, <3>1 DEF TypeOK
  <2>8. RecordedInv'
    <3>1. run[r].pc \in Recorded
      BY Zenon, <1>1, LaterPhases
    <3>2. RecordedInv
      BY Zenon
    <3> HIDE DEF IInv
    <3> QED BY ZenonT(60), <2>2, <2>4, <2>5, <2>6, <3>1, <3>2, SpentStaysRecorded
  <2>9. ContactInv'
    <3>1. \A s \in Runs : s # r /\ run[s].pc = "exchanged" => run[s].grant \in Grants \ {id}
      <4> SUFFICES ASSUME NEW s \in Runs, s # r, run[s].pc = "exchanged"
                   PROVE  run[s].grant \in Grants /\ run[s].grant # id
        BY Zenon
      <4>1. /\ run[s].grant \in Grants
            /\ issued[run[s].grant].task = run[s].task
            /\ issued[run[s].grant].fence = run[s].fence
        <5>1. run[s].pc \in Holding
          BY Zenon, LaterPhases
        <5>2. /\ run[s].grant \in Grants
              /\ issued[run[s].grant] =
                   [task |-> run[s].task, fence |-> run[s].fence, owner |-> CollectorOf[s]]
          BY Zenon, <5>1 DEF HolderInv
        <5> QED BY <5>2
      <4>2. issued[id].task = run[r].task /\ issued[id].fence = run[r].fence
        BY <2>1
      <4> QED BY Zenon, <1>1, <4>1, <4>2 DEF FenceInv
    <3>2. contacts'[id] = 1 /\ \A g \in Grants \ {id} : contacts'[g] = contacts[g]
      BY <1>3, <2>1, <2>2 DEF TypeOK
    <3> QED BY <2>2, <2>4, <2>5, <2>6, <3>1, <3>2 DEF ContactInv
  <2>10. PersistedInv' /\ EvidenceHasSpentAuthority'
    BY Zenon, <2>4, <2>5, <2>6 DEF PersistedInv, Envelope, EvidenceHasSpentAuthority, Bindings
  <2> QED BY Zenon, <2>6, <2>7, <2>8, <2>9, <2>10
<1>4. faults \in Nat /\ (Fault => faults' \in Nat)
  BY DEF Fault, TypeOK
<1> QED BY Zenon, <1>2, <1>3, <1>4 DEF Execute

\* The new envelope carries the spent grant of its attempt.
LEMMA CreateInv ==
  ASSUME IInv, NEW r \in Runs, CreateEnvelope(r)
  PROVE  IInv'
<1> USE DEF IInv
<1>1. run[r].pc = "assembled" /\ run[r] \in Run /\ run[r].pc # "idle"
  BY Zenon DEF CreateEnvelope, TypeOK
<1>2. CASE UNCHANGED <<envelopes, faults>> /\ Go(r, "failing")
  BY Zenon, <1>1, <1>2, GoQuiet, LaterPhases DEF CreateEnvelope, TypeOK
<1>3. ASSUME NEW step \in {"persisted", "failing"}, Go(r, step),
             envelopes' = envelopes \cup {Envelope(r)}, faults' \in Nat
      PROVE  IInv'
  <2> DEFINE q == [run[r] EXCEPT !.pc = step]
  <2>1. /\ run[r].grant \in consumed /\ run[r].seen = run[r].grant /\ run[r].grant \in Grants
        /\ issued[run[r].grant] =
             [task |-> run[r].task, fence |-> run[r].fence, owner |-> CollectorOf[r]]
    BY Zenon, <1>1, LaterPhases DEF HolderInv, RecordedInv
  <2>2. Envelope(r) \in Evidence
    <3>1. run[r].task \in Tasks /\ run[r].fence \in Nat
      BY Zenon, <1>1 DEF RunInv, Run
    <3> QED BY Zenon, <2>1, <3>1, CollectorAssumption DEF Envelope, Evidence
  <2>3. step \in Steps /\ step \in Holding \cup {"failing"}
    BY Zenon, LaterPhases
  <2>4. /\ q \in Run /\ q.pc = step /\ q.task = run[r].task /\ q.fence = run[r].fence
        /\ q.grant = run[r].grant /\ q.seen = run[r].seen
    BY <1>1, <2>3, Zenon DEF Run
  <2>5. run' = [run EXCEPT ![r] = q]
        /\ UNCHANGED <<clock, row, consumed, rec, issued, contacts>>
    BY Zenon, <1>3 DEF Go, CreateEnvelope
  <2> HIDE DEF q
  <2>6. /\ run' \in [Runs -> Run] /\ run'[r] = q
        /\ \A s \in Runs : s # r => run'[s] = run[s]
        /\ RunInv' /\ FenceInv' /\ IssuedInv' /\ UniqueGrantInv' /\ HolderInv' /\ RowGrantInv'
        /\ AcceptedResultIsCurrent'
    BY Zenon, <1>1, <1>3, <2>3, <2>4, <2>5, KeptInv, LaterPhases
  <2>7. TypeOK'
    BY Zenon, <1>3, <2>2, <2>5, <2>6 DEF TypeOK
  <2>8. RecordedInv'
    <3>1. run[r].pc \in Recorded
      BY Zenon, <1>1, LaterPhases
    <3>2. RecordedInv
      BY Zenon
    <3> HIDE DEF IInv
    <3> QED BY ZenonT(60), <2>1, <2>4, <2>5, <2>6, <3>1, <3>2, SpentStaysRecorded
  <2>9. ContactInv'
    BY Zenon, <2>4, <2>5, <2>6 DEF ContactInv
  <2>10. PersistedInv'
    BY Zenon, <1>3, <2>4, <2>5, <2>6 DEF PersistedInv, Envelope
  <2>11. EvidenceHasSpentAuthority'
    <3>1. /\ Envelope(r).grant = run[r].grant
          /\ Bindings(Envelope(r)) =
               [task |-> run[r].task, fence |-> run[r].fence, owner |-> CollectorOf[r]]
      BY Zenon, <2>1 DEF Bindings, Envelope
    <3> QED BY Zenon, <1>3, <2>1, <2>5, <3>1 DEF EvidenceHasSpentAuthority, Bindings
  <2> QED BY Zenon, <2>6, <2>7, <2>8, <2>9, <2>10, <2>11
<1>4. faults \in Nat /\ (Fault => faults' \in Nat)
  BY DEF Fault, TypeOK
<1> QED BY Zenon, <1>2, <1>3, <1>4 DEF CreateEnvelope

\* Acceptance, by the attempt itself or by the reconciler.
LEMMA AcceptInv ==
  ASSUME IInv, NEW t \in Tasks, NEW e \in envelopes,
         e.task = t, e.fence = row[t].fence, e.grant = row[t].grant,
         row' = [row EXCEPT ![t] =
                   [row[t] EXCEPT !.state = "succeeded", !.attempt = e.fence, !.evidence = e]],
         run' \in [Runs -> Run], \A s \in Runs : Calm(s),
         rec' \in [Reconcilers -> [at: Nat, batch: SUBSET Evidence]],
         \A c \in Reconcilers : rec'[c].batch \subseteq envelopes,
         UNCHANGED <<clock, consumed, envelopes, faults, issued, contacts>>
  PROVE  IInv'
<1> USE DEF IInv
<1> DEFINE z == [row[t] EXCEPT !.state = "succeeded", !.attempt = e.fence, !.evidence = e]
<1>1. row[t] \in Task /\ e \in Evidence /\ e.fence \in Nat
  BY Zenon DEF TypeOK, Task
<1>2. /\ z \in Task /\ z.fence = row[t].fence /\ z.grant = row[t].grant
      /\ z.state = "succeeded" /\ z.attempt = e.fence /\ z.evidence = e
  BY <1>1, Zenon DEF Task
<1>3. row' = [row EXCEPT ![t] = z]
  BY Zenon
<1> HIDE DEF z
<1>4. row' \in [Tasks -> Task] /\ row'[t] = z /\ \A u \in Tasks : u # t => row'[u] = row[u]
  BY <1>2, <1>3, RowUpdate DEF TypeOK
<1>5. TypeOK'
  BY Zenon, <1>4 DEF TypeOK
<1>6. AcceptedResultIsCurrent'
  BY <1>2, <1>4 DEF AcceptedResultIsCurrent
<1>7. Still
  BY Zenon, <1>2, <1>4 DEF Still
<1> QED BY Zenon, <1>5, <1>6, <1>7, StillInv

\* The owner's commit accepts its own envelope.
LEMMA CommitInv ==
  ASSUME IInv, NEW r \in Runs, CommitContext(r)
  PROVE  IInv'
<1> USE DEF IInv
<1> DEFINE t == run[r].task
<1>1. CASE UNCHANGED row
  BY Zenon, <1>1, ReturnQuiet DEF CommitContext, TypeOK
<1>2. CASE /\ row[t].fence = run[r].fence
           /\ row' = [row EXCEPT ![t] = [@ EXCEPT !.state = "succeeded",
                         !.attempt = run[r].fence, !.evidence = Envelope(r)]]
  <2>1. t \in Tasks /\ run[r].pc = "committing" /\ Envelope(r) \in envelopes
    BY Zenon DEF CommitContext, RunInv, PersistedInv
  <2>2. /\ Envelope(r).task = t /\ Envelope(r).fence = run[r].fence
        /\ Envelope(r).grant = row[t].grant
    BY Zenon, <1>2, <2>1, LaterPhases DEF RecordedInv, Envelope
  <2>3. run' \in [Runs -> Run] /\ \A s \in Runs : Calm(s)
    BY Zenon DEF CommitContext, Return, TypeOK, Calm, Idle, Run, Steps
  <2>4. row' = [row EXCEPT ![t] = [row[t] EXCEPT !.state = "succeeded",
                  !.attempt = Envelope(r).fence, !.evidence = Envelope(r)]]
    BY Zenon, <1>2, <2>2
  <2>5. UNCHANGED <<clock, consumed, envelopes, rec, faults, issued, contacts>>
    BY Zenon DEF CommitContext
  <2> QED BY Zenon, <1>2, <2>1, <2>2, <2>3, <2>4, <2>5, AcceptInv DEF TypeOK, PersistedInv
<1> QED BY Zenon, <1>1, <1>2 DEF CommitContext, Owns

\* The reconciler accepts an envelope of the current attempt.
LEMMA ReconcileInv ==
  ASSUME IInv, NEW c \in Reconcilers, ReconcileExpiredEvidence(c)
  PROVE  IInv'
<1> USE DEF IInv
<1>1. PICK e \in rec[c].batch :
        /\ rec' = [rec EXCEPT ![c].batch = @ \ {e}]
        /\ \/ /\ Reconcilable(e, rec[c].at)
              /\ row' = [row EXCEPT ![e.task] =
                   [@ EXCEPT !.state = "succeeded", !.attempt = e.fence, !.evidence = e]]
           \/ UNCHANGED row
  BY Zenon DEF ReconcileExpiredEvidence
<1>2. /\ rec' \in [Reconcilers -> [at: Nat, batch: SUBSET Evidence]]
      /\ \A k \in Reconcilers : rec'[k].batch \subseteq envelopes
  BY Zenon, <1>1 DEF TypeOK, PersistedInv
<1>3. e \in envelopes /\ e.task \in Tasks
  BY <1>1 DEF PersistedInv, TypeOK, Evidence
<1>4. UNCHANGED <<clock, consumed, envelopes, run, faults, issued, contacts>>
  BY Zenon DEF ReconcileExpiredEvidence
<1>5. CASE UNCHANGED row
  BY Zenon, <1>2, <1>4, <1>5, QuietInv DEF TypeOK, Quiet, Still, Calm
<1>6. CASE /\ Reconcilable(e, rec[c].at)
           /\ row' = [row EXCEPT ![e.task] =
                [@ EXCEPT !.state = "succeeded", !.attempt = e.fence, !.evidence = e]]
  BY Zenon, <1>2, <1>3, <1>4, <1>6, AcceptInv DEF Reconcilable, TypeOK, Calm
<1> QED BY Zenon, <1>1, <1>5, <1>6

-----------------------------------------------------------------------------
(* The theorems *)

\* Every step preserves the invariant.
LEMMA NextInv == IInv /\ [Next]_vars => IInv'
<1> SUFFICES ASSUME IInv, [Next]_vars PROVE IInv'
  BY Zenon
<1>1. CASE \/ Tick
           \/ \E t \in Tasks : AddContext(t)
           \/ \E r \in Runs : RenewContext(r)
           \/ \E c \in Reconcilers : ListExpiredEvidenceCandidates(c) \/ RunnerCrash(c)
  BY Zenon, <1>1, OutsideInv
<1>2. ASSUME NEW r \in Runs, NEW t \in Tasks, AcquireContext(r, t) PROVE IInv'
  BY Zenon, <1>2, AcquireInv
<1>3. ASSUME NEW r \in Runs, Attempt(r) PROVE IInv'
  BY Zenon, <1>3, TransitionInv, IssueInv, RecordInv, GetInv, LocalInv, ConsumeInv, ExecuteInv,
     CreateInv, CommitInv, RetryInv DEF Attempt
<1>4. ASSUME NEW r \in Runs, Crash(r) PROVE IInv'
  <2>1. clock' \in Nat /\ faults' \in Nat
    BY <1>4 DEF Crash, Fault, IInv, TypeOK
  <2> QED BY Zenon, <1>4, <2>1, ReturnQuiet DEF Crash
<1>7. ASSUME NEW r \in Runs, CallFails(r) PROVE IInv'
  <2>1. faults' \in Nat /\ "failing" \in Steps
    BY <1>7 DEF CallFails, Fault, IInv, TypeOK, Steps
  <2> QED BY Zenon, <1>7, <2>1, GoQuiet DEF CallFails, IInv, TypeOK
<1>5. ASSUME NEW c \in Reconcilers, ReconcileExpiredEvidence(c) PROVE IInv'
  BY Zenon, <1>5, ReconcileInv
<1>6. CASE UNCHANGED vars
  BY Zenon, <1>6, QuietInv DEF vars, IInv, TypeOK, PersistedInv, Quiet, Still, Calm
<1> QED BY Zenon, <1>1, <1>2, <1>3, <1>4, <1>5, <1>6, <1>7 DEF Next, Reconcile

\* The invariant is inductive.
THEOREM Invariance == Spec => []IInv
  BY InitInv, NextInv, PTL DEF Spec

\* Every column and record keeps its type.
THEOREM TypeCorrect == Spec => []TypeOK
<1>1. IInv => TypeOK
  BY Zenon DEF IInv
<1> QED BY <1>1, Invariance, PTL

\* No evidence without spent authority, although Worker.Run names the grant of
\* the envelope from an unguarded read of the task.
THEOREM SpentAuthority == Spec => []EvidenceHasSpentAuthority
<1>1. IInv => EvidenceHasSpentAuthority
  BY Zenon DEF IInv
<1> QED BY <1>1, Invariance, PTL

\* A succeeded task carries evidence of its current attempt, by either of the
\* two statements that accept one (CommitContext, ReconcileExpiredEvidenceContext).
THEOREM CurrentResult == Spec => []AcceptedResultIsCurrent
<1>1. IInv => AcceptedResultIsCurrent
  BY Zenon DEF IInv
<1> QED BY <1>1, Invariance, PTL

\* One attempt spends at most one grant and contacts the device at most once,
\* whatever the restarts and lost answers.
THEOREM OneContact == Spec => []OneContactPerAttempt
<1>1. IInv => OneContactPerAttempt
  BY Zenon DEF IInv, OneContactPerAttempt, ContactInv, UniqueGrantInv, TypeOK
<1> QED BY <1>1, Invariance, PTL

-----------------------------------------------------------------------------
(* Collector implements TaskResult *)

Epoch == [t \in Tasks |-> row[t].fence]
Accepted == [t \in Tasks |-> row[t].evidence]

\* A step that changes no fence, envelope or result is a stutter.
LEMMA ResultStutter ==
  ASSUME envelopes' = envelopes,
         \A t \in Tasks : row'[t].fence = row[t].fence /\ row'[t].evidence = row[t].evidence
  PROVE  UNCHANGED Result!taskVars
<1>1. Epoch' = Epoch /\ Accepted' = Accepted
  BY Zenon DEF Epoch, Accepted
<1> QED BY Zenon, <1>1 DEF Result!taskVars, Epoch, Accepted

\* Accepting an envelope is Result!Accept.
LEMMA AcceptRefines ==
  ASSUME IInv, NEW t \in Tasks, NEW e \in envelopes,
         row[t].state # "succeeded", e.task = t, e.fence = row[t].fence,
         envelopes' = envelopes,
         row' = [row EXCEPT ![t] =
                   [row[t] EXCEPT !.state = "succeeded", !.attempt = e.fence, !.evidence = e]]
  PROVE  Result!Next
<1> DEFINE z == [row[t] EXCEPT !.state = "succeeded", !.attempt = e.fence, !.evidence = e]
<1>1. row[t] \in Task /\ e \in Evidence /\ e.fence \in Nat
  BY Zenon DEF IInv, TypeOK, Task
<1>2. z \in Task /\ z.fence = row[t].fence /\ z.evidence = e
  BY <1>1, Zenon DEF Task
<1>3. row' = [row EXCEPT ![t] = z]
  BY Zenon
<1> HIDE DEF z
<1>4. row'[t] = z /\ \A u \in Tasks : u # t => row'[u] = row[u]
  BY Zenon, <1>2, <1>3, RowUpdate DEF IInv, TypeOK
<1>5. Epoch' = Epoch
  BY <1>2, <1>4 DEF Epoch
<1>6. Accepted[t] = None /\ Epoch[t] = row[t].fence
  BY Zenon DEF IInv, AcceptedResultIsCurrent, Accepted, Epoch
<1>7. Accepted' = [Accepted EXCEPT ![t] = e]
  <2>1. Accepted' = [u \in Tasks |-> IF u = t THEN e ELSE Accepted[u]]
    BY <1>2, <1>4 DEF Accepted
  <2> QED BY Zenon, <2>1 DEF Accepted
<1>8. Result!Accept(t, e)
  BY Zenon, <1>5, <1>6, <1>7 DEF Result!Accept, Epoch, Accepted
<1> QED BY Zenon, <1>8 DEF Result!Next

\* Acquiring a lease is Result!NewAttempt.
LEMMA AcquireRefines ==
  ASSUME IInv, NEW r \in Runs, NEW t \in Tasks, AcquireContext(r, t)
  PROVE  Result!Next
<1>1. PICK now \in Reading :
        /\ Available(t, now)
        /\ row' = [row EXCEPT ![t] =
             [@ EXCEPT !.state = "leased", !.owner = CollectorOf[r],
                       !.expiry = now + LeaseDuration, !.fence = row[t].fence + 1, !.grant = None]]
  BY Zenon DEF AcquireContext
<1>2. row \in [Tasks -> Task]
  BY Zenon DEF IInv, TypeOK
<1>3. /\ row'[t].fence = row[t].fence + 1
      /\ \A u \in Tasks : row'[u].evidence = row[u].evidence
      /\ \A u \in Tasks : u # t => row'[u].fence = row[u].fence
  BY Zenon, <1>1, <1>2 DEF Task
<1>4. Accepted' = Accepted
  BY Zenon, <1>3 DEF Accepted
<1>5. Epoch' = [Epoch EXCEPT ![t] = @ + 1]
  <2>1. Epoch' = [u \in Tasks |-> IF u = t THEN Epoch[t] + 1 ELSE Epoch[u]]
    BY Zenon, <1>3 DEF Epoch
  <2> QED BY Zenon, <2>1 DEF Epoch
<1>6. Accepted[t] = None
  BY Zenon, <1>1 DEF IInv, AcceptedResultIsCurrent, Accepted, Available, Leasable, Active
<1>7. Result!NewAttempt(t)
  BY Zenon, <1>4, <1>5, <1>6 DEF Result!NewAttempt, Epoch, Accepted, AcquireContext
<1> QED BY Zenon, <1>7 DEF Result!Next

\* The updates of the task row that move neither its fence nor its result.
LEMMA BookkeepingRefines ==
  ASSUME IInv,
         \/ \E t \in Tasks : AddContext(t)
         \/ \E r \in Runs :
              \/ StartExecutionContext(r) \/ BeginCommitContext(r) \/ RenewContext(r)
              \/ RecordExecutionAuthorityContext(r) \/ RetryContext(r)
  PROVE  UNCHANGED Result!taskVars
<1> DEFINE Kept == \A u \in Tasks : row'[u].fence = row[u].fence
                                   /\ row'[u].evidence = row[u].evidence
<1> USE DEF IInv
<1>1. row \in [Tasks -> Task]
  BY Zenon DEF TypeOK
<1>2. ASSUME NEW t \in Tasks, AddContext(t) PROVE Kept
  BY Zenon, <1>1, <1>2 DEF AddContext, Task
<1>3. ASSUME NEW r \in Runs, NEW from, NEW to, NEW step, TransitionOwned(r, from, to, step)
      PROVE  Kept
  BY <1>1, <1>3 DEF TransitionOwned, Task
<1>4. ASSUME NEW r \in Runs, RenewContext(r) PROVE Kept
  BY <1>1, <1>4 DEF RenewContext, Task
<1>5. ASSUME NEW r \in Runs, RecordExecutionAuthorityContext(r) PROVE Kept
  BY <1>1, <1>5 DEF RecordExecutionAuthorityContext, Task
<1>6. ASSUME NEW r \in Runs, RetryContext(r) PROVE Kept
  <2>1. CASE UNCHANGED row
    BY Zenon, <2>1
  <2>2. CASE row' = [row EXCEPT ![run[r].task] =
                       [@ EXCEPT !.state = "retry_wait", !.owner = None, !.expiry = 0]]
    BY Zenon, <1>1, <2>2 DEF Task
  <2> QED BY Zenon, <1>6, <2>1, <2>2 DEF RetryContext
<1>7. Kept
  BY Zenon, <1>2, <1>3, <1>4, <1>5, <1>6 DEF StartExecutionContext, BeginCommitContext
<1>8. envelopes' = envelopes
  BY Zenon DEF AddContext, StartExecutionContext, BeginCommitContext, TransitionOwned, RenewContext,
         RecordExecutionAuthorityContext, RetryContext
<1> QED BY Zenon, <1>7, <1>8, ResultStutter

\* Every step is a step of TaskResult or a stutter.
LEMMA NextRefines == IInv /\ [Next]_vars => [Result!Next]_(Result!taskVars)
<1> SUFFICES ASSUME IInv, [Next]_vars PROVE [Result!Next]_(Result!taskVars)
  BY Zenon
<1>1. CASE \/ \E t \in Tasks : AddContext(t)
           \/ \E r \in Runs :
                \/ StartExecutionContext(r) \/ BeginCommitContext(r) \/ RenewContext(r)
                \/ RecordExecutionAuthorityContext(r) \/ RetryContext(r)
  BY Zenon, <1>1, BookkeepingRefines
<1>2. CASE UNCHANGED <<row, envelopes>>
  BY Zenon, <1>2, ResultStutter
<1>3. ASSUME NEW r \in Runs, NEW t \in Tasks, AcquireContext(r, t) PROVE Result!Next
  BY Zenon, <1>3, AcquireRefines
<1>4. ASSUME NEW r \in Runs, CreateEnvelope(r) PROVE Result!Next
  <2>1. envelopes \subseteq envelopes' /\ UNCHANGED row
    BY Zenon, <1>4 DEF CreateEnvelope
  <2>2. Epoch' = Epoch /\ Accepted' = Accepted
    BY Zenon, <2>1 DEF Epoch, Accepted
  <2>3. Result!Persist
    BY Zenon, <2>1, <2>2 DEF Result!Persist, Epoch, Accepted
  <2> QED BY Zenon, <2>3 DEF Result!Next
<1>5. ASSUME NEW r \in Runs, CommitContext(r), ~UNCHANGED row PROVE Result!Next
  <2> DEFINE t == run[r].task
  <2>1. /\ row[t].fence = run[r].fence /\ row[t].state = "committing"
        /\ row' = [row EXCEPT ![t] = [@ EXCEPT !.state = "succeeded",
                      !.attempt = run[r].fence, !.evidence = Envelope(r)]]
    BY Zenon, <1>5 DEF CommitContext, Owns
  <2>2. t \in Tasks /\ Envelope(r) \in envelopes
    BY Zenon, <1>5 DEF CommitContext, IInv, RunInv, PersistedInv
  <2>3. Envelope(r).task = t /\ Envelope(r).fence = run[r].fence
    BY Zenon DEF Envelope
  <2>4. row' = [row EXCEPT ![t] = [row[t] EXCEPT !.state = "succeeded",
                  !.attempt = Envelope(r).fence, !.evidence = Envelope(r)]]
    BY Zenon, <2>1, <2>3
  <2>5. envelopes' = envelopes
    BY Zenon, <1>5 DEF CommitContext
  <2> QED BY Zenon, <2>1, <2>2, <2>3, <2>4, <2>5, AcceptRefines
<1>6. ASSUME NEW c \in Reconcilers, ReconcileExpiredEvidence(c), ~UNCHANGED row
      PROVE  Result!Next
  <2>1. PICK e \in rec[c].batch :
          /\ Reconcilable(e, rec[c].at)
          /\ row' = [row EXCEPT ![e.task] =
               [@ EXCEPT !.state = "succeeded", !.attempt = e.fence, !.evidence = e]]
    BY Zenon, <1>6 DEF ReconcileExpiredEvidence
  <2>2. e \in envelopes /\ e.task \in Tasks
    BY <2>1 DEF IInv, PersistedInv, TypeOK, Evidence
  <2>3. envelopes' = envelopes
    BY Zenon, <1>6 DEF ReconcileExpiredEvidence
  <2> QED BY Zenon, <2>1, <2>2, <2>3, AcceptRefines DEF Reconcilable
<1>7. ASSUME NEW r \in Runs, CommitContext(r) PROVE UNCHANGED envelopes
  BY Zenon, <1>7 DEF CommitContext
<1>8. ASSUME NEW c \in Reconcilers, ReconcileExpiredEvidence(c) PROVE UNCHANGED envelopes
  BY Zenon, <1>8 DEF ReconcileExpiredEvidence
<1>9. ASSUME \/ Tick
             \/ \E r \in Runs : IssueGrant(r) \/ GetContext(r) \/ ExchangeContext(r) \/ Consume(r)
                  \/ Execute(r) \/ WriteCaptured(r) \/ AssembleContext(r) \/ Crash(r)
                  \/ CallFails(r)
             \/ \E c \in Reconcilers : ListExpiredEvidenceCandidates(c) \/ RunnerCrash(c)
             \/ UNCHANGED vars
      PROVE  UNCHANGED <<row, envelopes>>
  BY Zenon, <1>9 DEF Tick, IssueGrant, GetContext, ExchangeContext, Consume, Execute, WriteCaptured,
    AssembleContext, Crash, CallFails, ListExpiredEvidenceCandidates, RunnerCrash, vars
<1> QED
  BY Zenon, <1>1, <1>2, <1>3, <1>4, <1>5, <1>6, <1>7, <1>8, <1>9 DEF Next, Attempt, Reconcile

\* README.md: "accepts only one current fenced result".  Every behaviour of the
\* collection plane is a behaviour of TaskResult: attempts are numbered,
\* evidence is only added, a task takes one result, of its latest attempt,
\* and nothing follows it.
THEOREM Refinement == Spec => AcceptsOneCurrentResult
<1>1. Init => Result!Init
  BY DEF Init, NoRow, Result!Init
<1> QED BY <1>1, NextRefines, Invariance, PTL DEF Spec, AcceptsOneCurrentResult, Result!Spec
=============================================================================
