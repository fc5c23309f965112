------------------------ MODULE ToolExecutionProofs -------------------------
(***************************************************************************)
(* Proofs about DurableScheduler and, on them, about the executor that     *)
(* drives it, for any tasks, executions, attempts, outputs, lease          *)
(* duration, clock error and number of restores.                           *)
(***************************************************************************)
EXTENDS ToolExecution, TLAPS

-----------------------------------------------------------------------------
(* The scheduler alone: what holds of any client that keeps to Next.       *)

(* What every attempt row, of whatever age, says about its task.           *)
AttemptInv ==
  \A i \in AttemptIds : attempt[i].state # "none" =>
    /\ attempt[i].leaseEpoch <= task[attempt[i].task].leaseEpoch
    /\ attempt[i].state = "active" =>
         /\ task[attempt[i].task].state = "leased"
         /\ attempt[i].leaseEpoch = task[attempt[i].task].leaseEpoch
         /\ attempt[i].epoch = recovery.mirrored

(* What every task row says about its attempts and results.                *)
TaskInv ==
  \A t \in Tasks :
    /\ task[t].state = "leased" => \E i \in AttemptIds : attempt[i].state = "active" /\ attempt[i].task = t
    /\ task[t].state = "completed" => \E r \in results : r.task = t
    /\ task[t].state = "absent" => \A i \in AttemptIds : attempt[i].state # "none" => attempt[i].task # t

(* What every recorded result says about its task and attempt.             *)
ResultInv ==
  /\ \A r \in results :
       /\ task[r.task].state = "completed"
       /\ task[r.task].leaseEpoch = r.leaseEpoch
       /\ attempt[r.id].state = "accepted"
       /\ attempt[r.id].task = r.task
  /\ \A r, s \in results : r.task = s.task => r = s

IInv == TypeOK /\ AttemptInv /\ LeaseEpochsNeverReused /\ TaskInv /\ ResultInv

-----------------------------------------------------------------------------
(* The initial state satisfies the invariant.                              *)
LEMMA InitIInv == Init => IInv
<1> USE SchedulerAssumption
<1>1. ASSUME Tasks # {} PROVE (CHOOSE t \in Tasks : TRUE) \in Tasks
  BY <1>1
<1>2. ASSUME Init PROVE TypeOK
  BY <1>1, <1>2 DEF Init, TypeOK, NoTask, NoAttempt, TaskRows, AttemptRows, AttemptStates
<1>3. ASSUME Init PROVE AttemptInv /\ LeaseEpochsNeverReused /\ TaskInv /\ ResultInv
  BY <1>3 DEF Init, AttemptInv, LeaseEpochsNeverReused, TaskInv, ResultInv, NoTask, NoAttempt
<1> QED BY <1>2, <1>3 DEF IInv

(* Retiring attempts leaves rows.                                          *)
LEMMA RetireTypes ==
  ASSUME attempt \in [AttemptIds -> AttemptRows], NEW ids, NEW outcome \in AttemptStates
  PROVE  Retire(ids, outcome) \in [AttemptIds -> AttemptRows]
<1>1. \A i \in AttemptIds : attempt[i] \in AttemptRows
  OBVIOUS
<1>2. \A i \in AttemptIds : [attempt[i] EXCEPT !.state = outcome] \in AttemptRows
  BY <1>1 DEF AttemptRows
<1> QED BY <1>1, <1>2 DEF Retire

(* Every step keeps the rows well typed.                                   *)
LEMMA TypeStep == IInv /\ [Next]_vars => TypeOK'
<1> SUFFICES ASSUME TypeOK, [Next]_vars PROVE TypeOK'
  BY DEF IInv
<1> USE SchedulerAssumption DEF TypeOK, TaskRows, AttemptRows, AttemptStates
<1>1. ASSUME NEW t \in Tasks, NEW epoch \in 1..register, Create(t, epoch) PROVE TypeOK'
  BY <1>1 DEF Create
<1>2. ASSUME NEW t \in Tasks, NEW i \in AttemptIds, NEW d \in Drift, Lease(t, i, d) PROVE TypeOK'
  BY <1>2 DEF Lease, Leasable, Retire, Drift
<1>3. ASSUME NEW t \in Tasks, NEW d \in Drift, ReclaimExpired(t, d) PROVE TypeOK'
  <2>1. attempt' \in [AttemptIds -> AttemptRows]
    <3>1. attempt' = Retire(Active(t), "expired") /\ "expired" \in AttemptStates
      BY <1>3 DEF ReclaimExpired
    <3>2. attempt \in [AttemptIds -> AttemptRows]
      OBVIOUS
    <3> HIDE DEF TypeOK, TaskRows, AttemptRows, AttemptStates
    <3> QED BY <3>1, <3>2, RetireTypes
  <2>2. task' \in [Tasks -> TaskRows]
    <3>1. [task[t] EXCEPT !.state = "queued"] \in TaskRows
      OBVIOUS
    <3>2. task' = [task EXCEPT ![t] = [task[t] EXCEPT !.state = "queued"]] /\ task \in [Tasks -> TaskRows]
      BY <1>3 DEF ReclaimExpired
    <3> HIDE DEF TypeOK, TaskRows, AttemptRows, AttemptStates
    <3> QED BY <3>1, <3>2
  <2> QED BY <1>3, <2>1, <2>2 DEF ReclaimExpired
<1>4. ASSUME NEW i \in AttemptIds, NEW d \in Drift, Heartbeat(i, d) PROVE TypeOK'
  BY <1>4 DEF Heartbeat, Drift
<1>5. ASSUME NEW p \in Presentations, NEW seen, NEW timely, AcceptResult(p, seen, timely) PROVE TypeOK'
  <2>1. p.id \in AttemptIds /\ p.task \in Tasks
    BY DEF Presentations
  <2>2. CASE Accept(p, seen, timely)
    <3>1. task' \in [Tasks -> TaskRows]
      BY <2>1, <2>2 DEF Accept
    <3>2. attempt' \in [AttemptIds -> AttemptRows]
      <4>1. attempt' = Retire({p.id}, "accepted") /\ "accepted" \in AttemptStates
        BY <2>2 DEF Accept
      <4>2. attempt \in [AttemptIds -> AttemptRows]
        OBVIOUS
      <4> HIDE DEF TypeOK, TaskRows, AttemptRows, AttemptStates
      <4> QED BY <4>1, <4>2, RetireTypes
    <3>3. results' \subseteq Presentations
      BY <2>2 DEF Accept
    <3> QED BY <2>2, <3>1, <3>2, <3>3 DEF Accept
  <2>3. CASE Diagnose(p, seen, timely)
    BY <2>1, <2>3 DEF Diagnose
  <2>4. CASE Duplicate(p)
    BY <2>4 DEF Duplicate, vars
  <2> QED BY <1>5, <2>2, <2>3, <2>4 DEF AcceptResult
<1>6. ASSUME Restore PROVE TypeOK'
  <2>1. ASSUME NEW epoch \in 1..register, Rotate(epoch) PROVE TypeOK'
    <3>1. task' \in [Tasks -> TaskRows]
      BY <2>1 DEF Rotate
    <3>2. attempt' \in [AttemptIds -> AttemptRows]
      <4> DEFINE held == {i \in AttemptIds : attempt[i].state = "active"}
      <4>1. attempt' = Retire(held, "superseded") /\ "superseded" \in AttemptStates
        BY <2>1 DEF Rotate
      <4>2. attempt \in [AttemptIds -> AttemptRows]
        OBVIOUS
      <4> HIDE DEF TypeOK, TaskRows, AttemptRows, AttemptStates, held
      <4> QED BY <4>1, <4>2, RetireTypes
    <3> QED BY <2>1, <3>1, <3>2 DEF Rotate
  <2>2. ASSUME NEW epoch \in 1..register, EnableDualResultFence(epoch) PROVE TypeOK'
    BY <2>2 DEF EnableDualResultFence
  <2>3. CASE RotateExternalEpoch
    BY <2>3 DEF RotateExternalEpoch
  <2>4. CASE DisableProcessing
    BY <2>4 DEF DisableProcessing
  <2>5. CASE EnableDispatch
    BY <2>5 DEF EnableDispatch
  <2>6. CASE EnableIngress
    BY <2>6 DEF EnableIngress
  <2> QED BY <1>6, <2>1, <2>2, <2>3, <2>4, <2>5, <2>6 DEF Restore
<1>7. ASSUME Tick PROVE TypeOK'
  BY <1>7 DEF Tick
<1>8. CASE UNCHANGED vars
  BY <1>8 DEF vars
<1>9. ASSUME Present PROVE TypeOK'
  BY <1>5, <1>9 DEF Present, Presentations
<1> QED
  BY <1>1, <1>2, <1>3, <1>4, <1>6, <1>7, <1>8, <1>9 DEF Next, Dispatch, Renew

(* Every step that is not a stutter preserves the whole invariant.         *)
LEMMA CreateStep ==
  ASSUME IInv, NEW t \in Tasks, NEW epoch \in 1..register, Create(t, epoch)
  PROVE  AttemptInv' /\ LeaseEpochsNeverReused' /\ TaskInv' /\ ResultInv'
<1> USE DEF IInv, TypeOK, TaskRows, AttemptRows, Create
<1>1. AttemptInv'
  BY DEF AttemptInv, TaskInv
<1>2. LeaseEpochsNeverReused'
  BY DEF LeaseEpochsNeverReused
<1>3. TaskInv'
  BY DEF TaskInv
<1>4. ResultInv'
  BY DEF ResultInv, Presentations
<1> QED BY <1>1, <1>2, <1>3, <1>4

LEMMA LeaseStep ==
  ASSUME IInv, NEW t \in Tasks, NEW i \in AttemptIds, NEW d \in Drift, Lease(t, i, d)
  PROVE  AttemptInv' /\ LeaseEpochsNeverReused' /\ TaskInv' /\ ResultInv'
<1> USE DEF IInv, TypeOK, TaskRows, AttemptRows
<1> DEFINE old == IF task[t].state = "leased" THEN Active(t) ELSE {}
<1>1. /\ attempt'[i] = [state |-> "active", task |-> t, epoch |-> task[t].epoch,
                       leaseEpoch |-> task[t].leaseEpoch + 1, left |-> d + TTL]
      /\ \A j \in AttemptIds \ {i} : /\ attempt'[j].task = attempt[j].task
                                     /\ attempt'[j].leaseEpoch = attempt[j].leaseEpoch
                                     /\ attempt'[j].epoch = attempt[j].epoch
                                     /\ attempt'[j].state = IF j \in old THEN "expired" ELSE attempt[j].state
  BY DEF Lease, Leasable, Retire
<1>2. /\ task'[t].state = "leased"
      /\ task'[t].leaseEpoch = task[t].leaseEpoch + 1
      /\ task[t].state \in {"queued", "leased"}
      /\ task[t].epoch = recovery.mirrored
      /\ \A u \in Tasks \ {t} : task'[u] = task[u]
      /\ UNCHANGED <<results, recovery>>
      /\ attempt[i].state = "none"
  BY DEF Lease, Leasable
<1>3. \A j \in AttemptIds : attempt[j].task = t => attempt[j].state # "active" \/ j \in old
  BY DEF AttemptInv, Active
<1>a. task[t].leaseEpoch \in Nat /\ \A j \in AttemptIds : attempt[j].leaseEpoch \in Nat /\ attempt[j].task \in Tasks
  OBVIOUS
<1>4. AttemptInv'
  <2> SUFFICES ASSUME NEW j \in AttemptIds, attempt'[j].state # "none"
      PROVE /\ attempt'[j].leaseEpoch <= task'[attempt'[j].task].leaseEpoch
            /\ attempt'[j].state = "active" =>
                 /\ task'[attempt'[j].task].state = "leased"
                 /\ attempt'[j].leaseEpoch = task'[attempt'[j].task].leaseEpoch
                 /\ attempt'[j].epoch = recovery.mirrored
    BY <1>2 DEF AttemptInv
  <2>1. CASE j = i
    BY <2>1, <1>1, <1>2, <1>a
  <2>2. CASE j # i /\ attempt[j].task = t
    <3>1. attempt'[j].state # "active"
      BY <2>2, <1>1, <1>3
    <3>2. attempt[j].leaseEpoch <= task[t].leaseEpoch
      BY <2>2, <1>1 DEF AttemptInv, Active
    <3> QED BY <2>2, <3>1, <3>2, <1>1, <1>2, <1>a
  <2>3. CASE j # i /\ attempt[j].task # t
    BY <2>3, <1>1, <1>2, <1>a DEF AttemptInv, Active
  <2> QED BY <2>1, <2>2, <2>3
<1>5. LeaseEpochsNeverReused'
  <2>1. \A j \in AttemptIds \ {i} : attempt'[j].state # "none" => attempt[j].state # "none"
    BY <1>1 DEF Active
  <2>2. \A j \in AttemptIds \ {i} : attempt[j].state # "none" /\ attempt[j].task = t
                                    => attempt[j].leaseEpoch <= task[t].leaseEpoch
    BY DEF AttemptInv
  <2>3. \A j \in AttemptIds \ {i} : attempt'[j].state # "none" /\ attempt'[j].task = t
                                    => attempt'[j].leaseEpoch # attempt'[i].leaseEpoch
    BY <2>1, <2>2, <1>1, <1>a
  <2> QED BY <2>1, <2>3, <1>1 DEF LeaseEpochsNeverReused
<1>6. TaskInv'
  <2> SUFFICES ASSUME NEW u \in Tasks
      PROVE /\ task'[u].state = "leased" => \E j \in AttemptIds : attempt'[j].state = "active" /\ attempt'[j].task = u
            /\ task'[u].state = "completed" => \E r \in results' : r.task = u
            /\ task'[u].state = "absent" => \A j \in AttemptIds : attempt'[j].state # "none" => attempt'[j].task # u
    BY DEF TaskInv
  <2>1. CASE u = t
    BY <2>1, <1>1, <1>2
  <2>2. CASE u # t
    <3>1. \A j \in AttemptIds : attempt[j].task = u => j \notin old
      BY <2>2 DEF Active
    <3>2. \A j \in AttemptIds \ {i} : attempt[j].task = u => attempt'[j].state = attempt[j].state
      BY <1>1, <3>1
    <3>3. task'[u] = task[u]
      BY <2>2, <1>2
    <3>4. task[u].state = "leased" => \E j \in AttemptIds : attempt'[j].state = "active" /\ attempt'[j].task = u
      <4>1. ASSUME task[u].state = "leased"
            PROVE  \E j \in AttemptIds : attempt[j].state = "active" /\ attempt[j].task = u
        BY <4>1 DEF TaskInv
      <4>2. \A j \in AttemptIds : attempt[j].state = "active" /\ attempt[j].task = u
                                 => attempt'[j].state = "active" /\ attempt'[j].task = u
        <5> SUFFICES ASSUME NEW j \in AttemptIds, attempt[j].state = "active", attempt[j].task = u
                     PROVE  attempt'[j].state = "active" /\ attempt'[j].task = u
          OBVIOUS
        <5>1. attempt[i].state = "none"
          BY <1>2
        <5>2. j # i
          BY <5>1
        <5> QED BY <5>2, <1>1, <3>2
      <4> QED BY <4>1, <4>2
    <3>5. task[u].state = "completed" => \E r \in results' : r.task = u
      BY <1>2 DEF TaskInv
    <3>6. ASSUME task[u].state = "absent", NEW j \in AttemptIds, attempt'[j].state # "none"
          PROVE  attempt'[j].task # u
      <4>1. CASE j = i
        BY <4>1, <1>1, <2>2
      <4>2. CASE j # i
        BY <4>2, <3>6, <1>1, <3>2 DEF TaskInv
      <4> QED BY <4>1, <4>2
    <3> QED BY <3>3, <3>4, <3>5, <3>6
  <2> QED BY <2>1, <2>2
<1>7. ResultInv'
  <2> SUFFICES ASSUME NEW r \in results
      PROVE /\ task'[r.task].state = "completed"
            /\ task'[r.task].leaseEpoch = r.leaseEpoch
            /\ attempt'[r.id].state = "accepted"
            /\ attempt'[r.id].task = r.task
    BY <1>2 DEF ResultInv
  <2>1. r.task \in Tasks \ {t} /\ r.id \in AttemptIds \ {i} /\ r.id \notin old
    BY <1>2 DEF ResultInv, Presentations, Active
  <2> QED BY <1>1, <1>2, <2>1 DEF ResultInv
<1> QED BY <1>4, <1>5, <1>6, <1>7

(* A step that issues no attempt keeps the identity columns of every row,  *)
(* and so keeps lease epochs distinct.                                     *)
SameRows == \A j \in AttemptIds : /\ attempt'[j].task = attempt[j].task
                                  /\ attempt'[j].leaseEpoch = attempt[j].leaseEpoch
                                  /\ attempt'[j].epoch = attempt[j].epoch
                                  /\ (attempt'[j].state = "none") = (attempt[j].state = "none")

LEMMA SameRowsKeepEpochs ==
  ASSUME LeaseEpochsNeverReused, SameRows PROVE LeaseEpochsNeverReused'
BY DEF LeaseEpochsNeverReused, SameRows

(* Retiring active attempts touches nothing but their state.               *)
LEMMA RetireKeepsRows ==
  ASSUME TypeOK, NEW ids, NEW outcome \in AttemptStates \ {"none"}, attempt' = Retire(ids, outcome),
         \A j \in AttemptIds : j \in ids => attempt[j].state # "none"
  PROVE  /\ SameRows
         /\ \A j \in AttemptIds : attempt'[j].state = IF j \in ids THEN outcome ELSE attempt[j].state
<1>1. \A j \in AttemptIds : /\ attempt'[j].task = attempt[j].task
                            /\ attempt'[j].leaseEpoch = attempt[j].leaseEpoch
                            /\ attempt'[j].epoch = attempt[j].epoch
                            /\ attempt'[j].state = IF j \in ids THEN outcome ELSE attempt[j].state
  BY DEF Retire, TypeOK, AttemptRows
<1> QED BY <1>1 DEF SameRows

LEMMA ReclaimStep ==
  ASSUME IInv, NEW t \in Tasks, NEW d \in Drift, ReclaimExpired(t, d)
  PROVE  AttemptInv' /\ LeaseEpochsNeverReused' /\ TaskInv' /\ ResultInv'
<1>1. /\ SameRows
      /\ \A j \in AttemptIds : attempt'[j].state = IF j \in Active(t) THEN "expired" ELSE attempt[j].state
  <2>1. \A j \in AttemptIds : j \in Active(t) => attempt[j].state # "none"
    BY DEF Active
  <2> QED BY <2>1, RetireKeepsRows DEF ReclaimExpired, IInv, AttemptStates
<1>2. /\ task[t].state = "leased" /\ task'[t].state = "queued"
      /\ \A u \in Tasks : task'[u].leaseEpoch = task[u].leaseEpoch
      /\ \A u \in Tasks \ {t} : task'[u] = task[u]
      /\ UNCHANGED <<results, recovery>>
  BY DEF ReclaimExpired, IInv, TypeOK, TaskRows
<1>3. \A j \in AttemptIds : attempt[j].task \in Tasks
  BY DEF IInv, TypeOK, AttemptRows
<1>4. AttemptInv'
  <2> SUFFICES ASSUME NEW j \in AttemptIds, attempt'[j].state # "none"
      PROVE /\ attempt'[j].leaseEpoch <= task'[attempt'[j].task].leaseEpoch
            /\ attempt'[j].state = "active" =>
                 /\ task'[attempt'[j].task].state = "leased"
                 /\ attempt'[j].leaseEpoch = task'[attempt'[j].task].leaseEpoch
                 /\ attempt'[j].epoch = recovery.mirrored
    BY <1>2 DEF AttemptInv
  <2>1. attempt'[j].state = "active" => attempt[j].state = "active" /\ attempt[j].task # t
    BY <1>1 DEF Active
  <2> QED BY <2>1, <1>1, <1>2, <1>3 DEF SameRows, AttemptInv, IInv
<1>5. LeaseEpochsNeverReused'
  BY <1>1, SameRowsKeepEpochs DEF IInv
<1>6. TaskInv'
  <2> SUFFICES ASSUME NEW u \in Tasks
      PROVE /\ task'[u].state = "leased" => \E j \in AttemptIds : attempt'[j].state = "active" /\ attempt'[j].task = u
            /\ task'[u].state = "completed" => \E r \in results' : r.task = u
            /\ task'[u].state = "absent" => \A j \in AttemptIds : attempt'[j].state # "none" => attempt'[j].task # u
    BY DEF TaskInv
  <2>1. CASE u = t
    BY <2>1, <1>2
  <2>2. CASE u # t
    <3>1. \A j \in AttemptIds : attempt[j].task = u => attempt'[j].state = attempt[j].state
      BY <2>2, <1>1 DEF Active
    <3> QED BY <2>2, <3>1, <1>1, <1>2 DEF TaskInv, SameRows, IInv
  <2> QED BY <2>1, <2>2
<1>7. ResultInv'
  <2> SUFFICES ASSUME NEW r \in results
      PROVE /\ task'[r.task].state = "completed"
            /\ task'[r.task].leaseEpoch = r.leaseEpoch
            /\ attempt'[r.id].state = "accepted"
            /\ attempt'[r.id].task = r.task
    BY <1>2 DEF ResultInv, IInv
  <2>1. r.task \in Tasks \ {t} /\ r.id \in AttemptIds /\ r.id \notin Active(t)
    BY <1>2 DEF ResultInv, IInv, TypeOK, Presentations, Active
  <2> QED BY <1>1, <1>2, <2>1 DEF ResultInv, SameRows, IInv
<1> QED BY <1>4, <1>5, <1>6, <1>7

(* A step that moves only expiries, switches or diagnostics disturbs no    *)
(* conjunct: heartbeat, tick, refusal, and every restore step but Rotate.  *)
Quiet ==
  /\ SameRows
  /\ \A j \in AttemptIds : attempt'[j].state = attempt[j].state
  /\ UNCHANGED <<task, results>>
  /\ recovery'.mirrored = recovery.mirrored

LEMMA QuietStep ==
  ASSUME IInv, Quiet
  PROVE  AttemptInv' /\ LeaseEpochsNeverReused' /\ TaskInv' /\ ResultInv'
<1> USE DEF IInv, Quiet
<1>1. AttemptInv'
  BY DEF SameRows, AttemptInv
<1>2. LeaseEpochsNeverReused'
  BY SameRowsKeepEpochs
<1>3. TaskInv'
  BY DEF SameRows, TaskInv
<1>4. ResultInv'
  BY DEF SameRows, ResultInv, TypeOK, Presentations
<1> QED BY <1>1, <1>2, <1>3, <1>4

LEMMA HeartbeatIsQuiet ==
  ASSUME IInv, NEW i \in AttemptIds, NEW d \in Drift, Heartbeat(i, d) PROVE Quiet
BY DEF IInv, TypeOK, AttemptRows, Heartbeat, Quiet, SameRows

LEMMA TickIsQuiet == ASSUME IInv, Tick PROVE Quiet
BY DEF IInv, TypeOK, AttemptRows, Tick, Quiet, SameRows

LEMMA UnchangedRowsAreQuiet ==
  ASSUME UNCHANGED <<task, attempt, results>>, recovery'.mirrored = recovery.mirrored PROVE Quiet
BY DEF Quiet, SameRows

LEMMA AcceptStep ==
  ASSUME IInv, NEW p \in Presentations, NEW seen, NEW timely, Accept(p, seen, timely)
  PROVE  AttemptInv' /\ LeaseEpochsNeverReused' /\ TaskInv' /\ ResultInv'
<1>1. /\ p.id \in AttemptIds /\ p.task \in Tasks
      /\ attempt[p.id].state = "active" /\ attempt[p.id].task = p.task
      /\ p.leaseEpoch = attempt[p.id].leaseEpoch
      /\ task[p.task].state = "leased"
      /\ \A r \in results : r.task # p.task
  BY DEF Accept, Fenced, Active, Recorded, Presentations
<1>2. /\ SameRows
      /\ \A j \in AttemptIds : attempt'[j].state = IF j = p.id THEN "accepted" ELSE attempt[j].state
  <2>1. \A j \in AttemptIds : j \in {p.id} => attempt[j].state # "none"
    BY <1>1
  <2>2. /\ SameRows
        /\ \A j \in AttemptIds : attempt'[j].state = IF j \in {p.id} THEN "accepted" ELSE attempt[j].state
    <3>1. attempt' = Retire({p.id}, "accepted") /\ TypeOK /\ "accepted" \in AttemptStates \ {"none"}
      BY DEF Accept, IInv, AttemptStates
    <3> QED BY <2>1, <3>1, RetireKeepsRows
  <2> QED BY <2>2
<1>3. /\ task'[p.task].state = "completed"
      /\ \A u \in Tasks : task'[u].leaseEpoch = task[u].leaseEpoch
      /\ \A u \in Tasks \ {p.task} : task'[u] = task[u]
      /\ results' = results \cup {p}
      /\ UNCHANGED recovery
  BY <1>1 DEF Accept, IInv, TypeOK, TaskRows
<1>4. \A j \in AttemptIds : attempt[j].task \in Tasks /\ attempt[j].leaseEpoch \in Nat
  BY DEF IInv, TypeOK, AttemptRows
<1>5. \A j \in AttemptIds \ {p.id} : attempt[j].state = "active" => attempt[j].task # p.task
  BY <1>1 DEF IInv, AttemptInv, LeaseEpochsNeverReused
<1>6. AttemptInv'
  <2> SUFFICES ASSUME NEW j \in AttemptIds, attempt'[j].state # "none"
      PROVE /\ attempt'[j].leaseEpoch <= task'[attempt'[j].task].leaseEpoch
            /\ attempt'[j].state = "active" =>
                 /\ task'[attempt'[j].task].state = "leased"
                 /\ attempt'[j].leaseEpoch = task'[attempt'[j].task].leaseEpoch
                 /\ attempt'[j].epoch = recovery.mirrored
    BY <1>3 DEF AttemptInv
  <2>1. attempt'[j].state = "active" => attempt[j].state = "active" /\ attempt[j].task # p.task
    BY <1>2, <1>5
  <2>2. /\ attempt[j].state # "none" /\ attempt'[j].task = attempt[j].task
        /\ attempt'[j].leaseEpoch = attempt[j].leaseEpoch /\ attempt'[j].epoch = attempt[j].epoch
    BY <1>2 DEF SameRows
  <2>3. attempt'[j].leaseEpoch <= task'[attempt'[j].task].leaseEpoch
    BY <2>2, <1>3, <1>4 DEF AttemptInv, IInv
  <2>4. CASE attempt'[j].state = "active"
    BY <2>1, <2>2, <2>3, <2>4, <1>3, <1>4 DEF AttemptInv, IInv
  <2> QED BY <2>3, <2>4
<1>7. LeaseEpochsNeverReused'
  BY <1>2, SameRowsKeepEpochs DEF IInv
<1>8. TaskInv'
  <2> SUFFICES ASSUME NEW u \in Tasks
      PROVE /\ task'[u].state = "leased" => \E j \in AttemptIds : attempt'[j].state = "active" /\ attempt'[j].task = u
            /\ task'[u].state = "completed" => \E r \in results' : r.task = u
            /\ task'[u].state = "absent" => \A j \in AttemptIds : attempt'[j].state # "none" => attempt'[j].task # u
    BY DEF TaskInv
  <2>1. CASE u = p.task
    BY <2>1, <1>3
  <2>2. CASE u # p.task
    <3>1. \A j \in AttemptIds : attempt[j].task = u => attempt'[j].state = attempt[j].state
      BY <2>2, <1>1, <1>2
    <3> QED BY <2>2, <3>1, <1>2, <1>3 DEF TaskInv, SameRows, IInv
  <2> QED BY <2>1, <2>2
<1>9. ResultInv'
  <2>1. \A r, s \in results' : r.task = s.task => r = s
    BY <1>1, <1>3 DEF ResultInv, IInv
  <2>2. ASSUME NEW r \in results
        PROVE /\ task'[r.task].state = "completed"
              /\ task'[r.task].leaseEpoch = r.leaseEpoch
              /\ attempt'[r.id].state = "accepted"
              /\ attempt'[r.id].task = r.task
    <3>1. r.task \in Tasks \ {p.task} /\ r.id \in AttemptIds
      BY <1>1 DEF IInv, TypeOK, Presentations
    <3> QED BY <3>1, <1>2, <1>3 DEF ResultInv, SameRows, IInv
  <2>3. /\ task'[p.task].state = "completed"
        /\ task'[p.task].leaseEpoch = p.leaseEpoch
        /\ attempt'[p.id].state = "accepted"
        /\ attempt'[p.id].task = p.task
    BY <1>1, <1>2, <1>3 DEF IInv, AttemptInv, SameRows
  <2> QED BY <2>1, <2>2, <2>3, <1>3 DEF ResultInv
<1> QED BY <1>6, <1>7, <1>8, <1>9

LEMMA RotateStep ==
  ASSUME IInv, NEW epoch \in 1..register, Rotate(epoch)
  PROVE  AttemptInv' /\ LeaseEpochsNeverReused' /\ TaskInv' /\ ResultInv'
<1>1. /\ SameRows
      /\ \A j \in AttemptIds : attempt'[j].state = IF attempt[j].state = "active" THEN "superseded" ELSE attempt[j].state
  <2> DEFINE live == {i \in AttemptIds : attempt[i].state = "active"}
  <2>1. \A j \in AttemptIds : j \in live => attempt[j].state # "none"
    OBVIOUS
  <2>2. attempt' = Retire(live, "superseded")
    BY DEF Rotate
  <2>3. \A j \in AttemptIds : (j \in live) = (attempt[j].state = "active")
    OBVIOUS
  <2> HIDE DEF live
  <2>4. /\ SameRows
        /\ \A j \in AttemptIds : attempt'[j].state = IF j \in live THEN "superseded" ELSE attempt[j].state
    BY <2>1, <2>2, RetireKeepsRows DEF IInv, AttemptStates
  <2> QED BY <2>3, <2>4
<1>2. /\ \A u \in Tasks : /\ task[u].leaseEpoch \in Nat
                          /\ task'[u].leaseEpoch \in Nat
                          /\ task'[u].leaseEpoch >= task[u].leaseEpoch
                          /\ task'[u].state # "leased"
                          /\ task'[u].state = "absent" => task[u].state = "absent"
                          /\ task[u].state = "completed" => task'[u] = task[u]
                          /\ task'[u].state = "completed" => task[u].state = "completed"
      /\ UNCHANGED results
  BY DEF Rotate, IInv, TypeOK, TaskRows
<1>3. \A j \in AttemptIds : attempt[j].task \in Tasks /\ attempt[j].leaseEpoch \in Nat /\ attempt'[j].state # "active"
  BY <1>1 DEF IInv, TypeOK, AttemptRows
<1>4. AttemptInv'
  BY <1>1, <1>2, <1>3 DEF SameRows, AttemptInv, IInv
<1>5. LeaseEpochsNeverReused'
  BY <1>1, SameRowsKeepEpochs DEF IInv
<1>6. TaskInv'
  BY <1>1, <1>2 DEF TaskInv, SameRows, IInv
<1>7. ResultInv'
  BY <1>1, <1>2 DEF ResultInv, SameRows, IInv, TypeOK, Presentations
<1> QED BY <1>4, <1>5, <1>6, <1>7

(* The invariant is inductive.                                             *)
LEMMA StepIInv == IInv /\ [Next]_vars => IInv'
<1> SUFFICES ASSUME IInv, [Next]_vars PROVE AttemptInv' /\ LeaseEpochsNeverReused' /\ TaskInv' /\ ResultInv'
  BY TypeStep DEF IInv
<1>1. CASE Dispatch
  BY <1>1, CreateStep, LeaseStep, ReclaimStep DEF Dispatch
<1>2. CASE Renew
  BY <1>2, HeartbeatIsQuiet, QuietStep DEF Renew
<1>3. CASE Present
  <2>1. PICK p \in Presentations, seen \in Nat, timely \in Timeliness : AcceptResult(p, seen, timely)
    BY <1>3 DEF Present, Presentations, IInv, TypeOK, AttemptRows
  <2>2. CASE Accept(p, seen, timely)
    BY <2>2, AcceptStep
  <2>3. CASE Diagnose(p, seen, timely)
    BY <2>3, UnchangedRowsAreQuiet, QuietStep DEF Diagnose
  <2>4. CASE Duplicate(p)
    BY <2>4, UnchangedRowsAreQuiet, QuietStep DEF Duplicate, vars
  <2> QED BY <2>1, <2>2, <2>3, <2>4 DEF AcceptResult
<1>4. CASE Restore
  <2>1. ASSUME NEW epoch \in 1..register, EnableDualResultFence(epoch) PROVE Quiet
    BY <2>1, UnchangedRowsAreQuiet DEF EnableDualResultFence, IInv, TypeOK
  <2>2. CASE RotateExternalEpoch
    BY <2>2, UnchangedRowsAreQuiet, QuietStep DEF RotateExternalEpoch
  <2>3. CASE DisableProcessing \/ EnableDispatch \/ EnableIngress
    BY <2>3, UnchangedRowsAreQuiet, QuietStep DEF DisableProcessing, EnableDispatch, EnableIngress, IInv, TypeOK
  <2> QED BY <1>4, <2>1, <2>2, <2>3, QuietStep, RotateStep DEF Restore
<1>5. CASE Tick
  BY <1>5, TickIsQuiet, QuietStep
<1>6. CASE UNCHANGED vars
  BY <1>6, UnchangedRowsAreQuiet, QuietStep DEF vars
<1> QED BY <1>1, <1>2, <1>3, <1>4, <1>5, <1>6 DEF Next

LEMMA Inductive == Spec => []IInv
BY InitIInv, StepIInv, PTL DEF Spec

-----------------------------------------------------------------------------
(* Every reachable row has the columns its table declares.                 *)
THEOREM TypeCorrect == Spec => []TypeOK
<1>1. IInv => TypeOK
  BY DEF IInv
<1> QED BY <1>1, Inductive, PTL

(* A leased task has exactly one active attempt, under its current lease   *)
(* epoch and the adopted recovery epoch; any other task has none.          *)
THEOREM ExclusiveLease == Spec => []LeaseOwnership
<1>1. IInv => LeaseOwnership
  <2> SUFFICES ASSUME IInv, NEW t \in Tasks
      PROVE /\ (task[t].state = "leased") <=> (Active(t) # {})
            /\ \A i \in Active(t) : /\ Active(t) = {i}
                                    /\ attempt[i].leaseEpoch = task[t].leaseEpoch
                                    /\ attempt[i].epoch = recovery.mirrored
    BY DEF LeaseOwnership
  <2>1. (task[t].state = "leased") <=> (Active(t) # {})
    BY DEF IInv, TaskInv, AttemptInv, Active
  <2>2. ASSUME NEW i \in Active(t)
        PROVE /\ Active(t) = {i}
              /\ attempt[i].leaseEpoch = task[t].leaseEpoch
              /\ attempt[i].epoch = recovery.mirrored
    BY DEF IInv, AttemptInv, LeaseEpochsNeverReused, Active
  <2> QED BY <2>1, <2>2
<1> QED BY <1>1, Inductive, PTL

(* The lease epoch alone distinguishes every attempt a task ever had.      *)
THEOREM DistinctLeaseEpochs == Spec => []LeaseEpochsNeverReused
<1>1. IInv => LeaseEpochsNeverReused
  BY DEF IInv
<1> QED BY <1>1, Inductive, PTL

(* At most one result per task, from its newest lease, and every completed *)
(* task has one.                                                           *)
THEOREM SingleResult == Spec => [](OneAcceptedResult /\ CompletedHasResult)
<1>1. IInv => OneAcceptedResult
  <2> SUFFICES ASSUME IInv, NEW r \in results
      PROVE /\ Recorded(r.task) = {r}
            /\ task[r.task].state = "completed"
            /\ attempt[r.id].state = "accepted"
            /\ \A i \in Issued(r.task) : attempt[i].leaseEpoch <= r.leaseEpoch
    BY DEF OneAcceptedResult
  <2> QED BY DEF IInv, ResultInv, AttemptInv, Recorded, Issued
<1>2. IInv => CompletedHasResult
  BY DEF IInv, TaskInv, CompletedHasResult, Recorded
<1> QED BY <1>1, <1>2, Inductive, PTL

(* No step revives a lost lease.                                           *)
THEOREM NoRevival == Spec => LostLeaseStaysLost
<1> DEFINE Lost == \A i \in AttemptIds : attempt[i].state \in {"expired", "superseded"}
                                        => attempt'[i].state = attempt[i].state
<1>1. IInv /\ [Next]_vars => [Lost]_vars
  <2> SUFFICES ASSUME IInv, Next, NEW i \in AttemptIds, attempt[i].state \in {"expired", "superseded"}
      PROVE attempt'[i].state = attempt[i].state
    OBVIOUS
  <2>1. \A t \in Tasks : i \notin Active(t)
    BY DEF Active
  <2> USE DEF IInv, TypeOK, AttemptRows, Retire
  <2>2. CASE Dispatch
    BY <2>1, <2>2 DEF Dispatch, Create, Lease, Leasable, ReclaimExpired
  <2>3. CASE Renew
    BY <2>3 DEF Renew, Heartbeat
  <2>4. CASE Present
    BY <2>4 DEF Present, AcceptResult, Accept, Diagnose, Duplicate, vars, Fenced, Active
  <2>5. CASE Restore
    BY <2>5 DEF Restore, RotateExternalEpoch, Rotate, EnableDualResultFence,
                DisableProcessing, EnableDispatch, EnableIngress
  <2>6. CASE Tick
    BY <2>6 DEF Tick
  <2> QED BY <2>2, <2>3, <2>4, <2>5, <2>6 DEF Next
<1> QED BY <1>1, Inductive, PTL DEF Spec, LostLeaseStaysLost

(* A result is accepted only under the adopted epoch with intake open, and *)
(* never withdrawn.                                                        *)
THEOREM FencedAcceptance == Spec => AcceptanceIsFencedAndFinal
<1>1. IInv /\ [Next]_vars => [FencedAndFinal]_vars
  <2> SUFFICES ASSUME IInv, Next PROVE FencedAndFinal
    OBVIOUS
  <2>1. CASE Present
    <3>1. PICK p \in Presentations, seen \in Nat, timely \in Timeliness : AcceptResult(p, seen, timely)
      BY <2>1 DEF Present, Presentations, IInv, TypeOK, AttemptRows
    <3>2. CASE Accept(p, seen, timely)
      BY <3>2 DEF Accept, Fenced, Active, IInv, AttemptInv, FencedAndFinal
    <3>3. CASE Diagnose(p, seen, timely) \/ Duplicate(p)
      BY <3>3 DEF Diagnose, Duplicate, vars, FencedAndFinal
    <3> QED BY <3>1, <3>2, <3>3 DEF AcceptResult
  <2>2. CASE Dispatch \/ Renew \/ Restore \/ Tick
    BY <2>2 DEF Dispatch, Create, Lease, Leasable, ReclaimExpired, Renew, Heartbeat, Tick, Restore,
                RotateExternalEpoch, Rotate, EnableDualResultFence, DisableProcessing,
                EnableDispatch, EnableIngress, FencedAndFinal
  <2> QED BY <2>1, <2>2 DEF Next
<1> QED BY <1>1, Inductive, PTL DEF Spec, AcceptanceIsFencedAndFinal

-----------------------------------------------------------------------------
(* The executor: it uses the scheduler as the scheduler's specification    *)
(* allows, so that its theorems hold of the composition; an invocation     *)
(* settles once and is never run again after that.                         *)

Holding == {"run", "usage", "present", "commit"}
Dispatched == Holding \cup {"create", "get", "reclaim", "lease"}
PastGet == Holding \cup {"reclaim", "lease"}

(* The epochs in the rows were the register's once.                        *)
EpochInv ==
  /\ recovery.mirrored \in 1..register
  /\ \A t \in Tasks : /\ task[t].epoch <= recovery.mirrored
                      /\ task[t].state # "absent" => task[t].epoch >= 1
  /\ \A i \in AttemptIds : attempt[i].epoch <= recovery.mirrored

(* What a call in flight carries: epochs the register has reached, the     *)
(* attempt it was leased, and past the worker an output unless it erred.   *)
Carries(e) ==
  LET l == exec[e] IN
  /\ l.at \in Dispatched => l.dispatched \in 1..register
  /\ l.at \in PastGet \cup {"get"} => task[TaskOf[e]].state # "absent"
  /\ l.at \in PastGet => l.taskEpoch \in 1..register
  /\ l.at \in Holding =>
       \E i \in AttemptIds : l.held = {i} /\ attempt[i].state # "none" /\ attempt[i].task = TaskOf[e]
  /\ l.at \in {"usage", "present", "commit"} => l.erred \/ l.output \in Outputs
  /\ l.at \in {"present", "commit"} => ~l.erred
  /\ l.at = "commit" => \A i \in l.held : l.seen \in attempt[i].epoch..register

CarriesInv == \A e \in Executors : Carries(e)

ExecInv == IInv /\ ExecTypeOK /\ EpochInv /\ CarriesInv

-----------------------------------------------------------------------------
LEMMA ExecStart == ExecInit => ExecInv
<1> SUFFICES ASSUME ExecInit PROVE ExecInv
  OBVIOUS
<1>1. IInv
  BY InitIInv DEF ExecInit
<1>2. ExecTypeOK
  BY <1>1, ExecutorAssumption DEF IInv, ExecInit, ExecTypeOK, Idle, Local, Locations
<1>3. EpochInv
  BY DEF ExecInit, Init, EpochInv, NoTask, NoAttempt
<1>4. CarriesInv
  BY DEF ExecInit, Idle, CarriesInv, Carries, Dispatched, PastGet, Holding
<1> QED BY <1>1, <1>2, <1>3, <1>4 DEF ExecInv

(* The scheduler's steps the executor takes are steps its specification    *)
(* allows: epochs it has reached, attempts that were issued.               *)
LEMMA ScheduleStep ==
  ASSUME ExecInv, NEW e \in Executors, Step(e)
  PROVE  [Next]_vars
<1> DEFINE t == TaskOf[e]
<1>0. t \in Tasks /\ Carries(e)
  BY ExecutorAssumption DEF ExecInv, CarriesInv
<1>1. CASE CreateTask(e)
  <2>1. exec[e].dispatched \in 1..register
    BY <1>0, <1>1 DEF CreateTask, Carries, Dispatched
  <2>2. ASSUME Create(t, exec[e].dispatched) PROVE Next
    BY <1>0, <2>1, <2>2 DEF Next, Dispatch
  <2> QED BY <1>1, <2>2 DEF CreateTask, NoDatabase
<1>2. CASE ReclaimTask(e)
  BY <1>0, <1>2 DEF ReclaimTask, NoDatabase, Next, Dispatch
<1>3. CASE LeaseTask(e)
  BY <1>0, <1>3 DEF LeaseTask, NoDatabase, Next, Dispatch
<1>4. CASE Beat(e)
  <2>1. exec[e].held \subseteq AttemptIds
    BY DEF ExecInv, ExecTypeOK, Local
  <2> QED BY <1>4, <2>1 DEF Beat, NoDatabase, Next, Renew
<1>5. CASE PresentResult(e)
  <2>1. PICK i \in exec[e].held, timely \in Timeliness :
          LET p == Presentation(e, i) IN
          \/ AcceptResult(p, exec[e].seen, timely)
          \/ UNCHANGED vars
    BY <1>5 DEF PresentResult, AcceptResult, NoDatabase
  <2>2. i \in AttemptIds /\ attempt[i].state # "none" /\ attempt[i].task = t
    BY <1>0, <1>5 DEF PresentResult, Carries, Holding
  <2>3. /\ exec[e].output \in Outputs
        /\ exec[e].taskEpoch \in 1..register
        /\ exec[e].seen \in attempt[i].epoch..register
    BY <1>0, <1>5 DEF PresentResult, Carries, Holding, PastGet
  <2>4. Presentation(e, i) = [id |-> i, task |-> attempt[i].task, epoch |-> exec[e].taskEpoch,
                              leaseEpoch |-> attempt[i].leaseEpoch, output |-> exec[e].output]
    BY <2>2 DEF Presentation
  <2>5. ASSUME AcceptResult(Presentation(e, i), exec[e].seen, timely) PROVE Present
    BY <2>2, <2>3, <2>4, <2>5 DEF Present
  <2> QED BY <2>1, <2>5 DEF Next
<1>6. CASE \/ ReadEpoch(e) \/ GetTask(e) \/ (\E o \in Outputs : WorkerReturns(e, o)) \/ RecordUsage(e)
           \/ ReadRegister(e) \/ Converge(e) \/ Replay(e) \/ Retry(e) \/ GiveUp(e)
  BY <1>6 DEF ReadEpoch, GetTask, WorkerReturns, RecordUsage, ReadRegister, Converge, Replay, Retry,
              GiveUp, NoDatabase
<1> QED BY <1>1, <1>2, <1>3, <1>4, <1>5, <1>6 DEF Step

LEMMA DrivesScheduler == ASSUME ExecInv, [ExecNext]_allVars PROVE [Next]_vars
<1>1. CASE Faulty
  BY <1>1 DEF Faulty, WorkerErrs, Crash, NoDatabase
<1>2. CASE Passive
  BY <1>2 DEF Passive, Next
<1>3. CASE UNCHANGED allVars
  BY <1>3 DEF allVars, vars
<1> QED BY <1>1, <1>2, <1>3, ScheduleStep DEF ExecNext

(* What no scheduler step takes back: the register only advances, tasks    *)
(* stay created, and issued attempts keep their task and their epoch.      *)
Onward ==
  /\ register <= register'
  /\ \A t \in Tasks : task[t].state # "absent" => task'[t].state # "absent"
  /\ \A i \in AttemptIds : attempt[i].state # "none" =>
       /\ attempt'[i].state # "none"
       /\ attempt'[i].task = attempt[i].task
       /\ attempt'[i].epoch = attempt[i].epoch

LEMMA RowsMoveOnward == ASSUME IInv, EpochInv, [Next]_vars PROVE Onward /\ EpochInv'
<1> USE DEF IInv, TypeOK, TaskRows, AttemptRows, Onward, EpochInv
<1>1. CASE Dispatch
  <2>1. PICK t \in Tasks :
          \/ \E epoch \in 1..register : Create(t, epoch)
          \/ \E i \in AttemptIds, d \in Drift : Lease(t, i, d)
          \/ \E d \in Drift : ReclaimExpired(t, d)
    BY <1>1 DEF Dispatch
  <2>2. ASSUME NEW epoch \in 1..register, Create(t, epoch) PROVE Onward /\ EpochInv'
    BY <2>2 DEF Create
  <2>3. ASSUME NEW i \in AttemptIds, NEW d \in Drift, Lease(t, i, d) PROVE Onward /\ EpochInv'
    <3>1. /\ \A j \in AttemptIds \ {i} :
               /\ attempt'[j].epoch = attempt[j].epoch
               /\ attempt'[j].task = attempt[j].task
               /\ attempt[j].state # "none" => attempt'[j].state # "none"
          /\ attempt'[i].epoch = task[t].epoch /\ attempt[i].state = "none"
      BY <2>3 DEF Lease, Retire
    <3>2. /\ \A u \in Tasks : task'[u].epoch = task[u].epoch
          /\ \A u \in Tasks : task'[u].state # "absent" <=> task[u].state # "absent"
          /\ UNCHANGED <<recovery, register>>
      BY <2>3 DEF Lease, Leasable
    <3> QED BY <3>1, <3>2
  <2>4. ASSUME NEW d \in Drift, ReclaimExpired(t, d) PROVE Onward /\ EpochInv'
    BY <2>4 DEF ReclaimExpired, Retire
  <2> QED BY <2>1, <2>2, <2>3, <2>4
<1>2. CASE Renew
  BY <1>2 DEF Renew, Heartbeat
<1>3. CASE Present
  <2>1. PICK p \in Presentations, seen \in Nat, timely \in Timeliness : AcceptResult(p, seen, timely)
    <3>1. PICK i \in AttemptIds, o \in Outputs, epoch \in 1..register, timely \in Timeliness :
            \E seen \in attempt[i].epoch..register :
              AcceptResult([id |-> i, task |-> attempt[i].task, epoch |-> epoch,
                            leaseEpoch |-> attempt[i].leaseEpoch, output |-> o], seen, timely)
      BY <1>3 DEF Present
    <3> DEFINE p == [id |-> i, task |-> attempt[i].task, epoch |-> epoch,
                     leaseEpoch |-> attempt[i].leaseEpoch, output |-> o]
    <3>2. attempt[i].task \in Tasks /\ attempt[i].leaseEpoch \in Nat /\ attempt[i].epoch \in Nat
      OBVIOUS
    <3>3. epoch \in Nat /\ \A seen \in attempt[i].epoch..register : seen \in Nat
      BY <3>2
    <3>4. p \in Presentations
      BY <3>2, <3>3 DEF Presentations
    <3>5. PICK seen \in attempt[i].epoch..register : AcceptResult(p, seen, timely)
      BY <3>1
    <3> HIDE DEF p
    <3> QED BY <3>3, <3>4, <3>5
  <2>2. CASE Accept(p, seen, timely)
    <3>1. p.task \in Tasks /\ task[p.task].state = "leased"
      BY <2>2 DEF Accept, Fenced, Presentations
    <3> QED BY <2>2, <3>1 DEF Accept, Retire
  <2> QED BY <2>1, <2>2 DEF AcceptResult, Diagnose, Duplicate, vars
<1>4. CASE RotateExternalEpoch
  BY <1>4 DEF RotateExternalEpoch
<1>5. ASSUME NEW epoch \in 1..register, Rotate(epoch) PROVE Onward /\ EpochInv'
  BY <1>5 DEF Rotate, Retire
<1>6. ASSUME NEW epoch \in 1..register, EnableDualResultFence(epoch) PROVE Onward /\ EpochInv'
  BY <1>6 DEF EnableDualResultFence
<1>7. CASE DisableProcessing \/ EnableDispatch \/ EnableIngress
  <2>1. recovery'.mirrored = recovery.mirrored /\ UNCHANGED <<task, attempt, register>>
    BY <1>7 DEF DisableProcessing, EnableDispatch, EnableIngress
  <2> QED BY <2>1
<1>8. CASE Tick
  BY <1>8 DEF Tick
<1>9. CASE UNCHANGED vars
  BY <1>9 DEF vars
<1> QED BY <1>1, <1>2, <1>3, <1>4, <1>5, <1>6, <1>7, <1>8, <1>9 DEF Next, Restore

(* A call keeps what it carries while it does not step.                    *)
LEMMA OthersCarry ==
  ASSUME ExecInv, Onward, TypeOK', NEW e \in Executors, UNCHANGED exec[e]
  PROVE  Carries(e)'
<1>1. TaskOf[e] \in Tasks /\ Carries(e)
  BY ExecutorAssumption DEF ExecInv, CarriesInv
<1>2. exec[e] \in Local /\ register \in Nat /\ register' \in Nat
  BY DEF ExecInv, ExecTypeOK, IInv, TypeOK
<1> USE <1>1, <1>2 DEF ExecInv, IInv, TypeOK, AttemptRows, Onward, Local
<1>3. register' \in Nat
  BY DEF TypeOK
<1> QED BY <1>3 DEF Carries, Dispatched, PastGet, Holding

(* Only the execution that steps changes what it carries.                  *)
LEMMA StepCarries ==
  ASSUME ExecInv, Onward, TypeOK', EpochInv', NEW e \in Executors, Step(e)
  PROVE  CarriesInv'
<1> USE DEF ExecInv, Dispatched, PastGet, Holding
<1>0. TaskOf[e] \in Tasks /\ Carries(e) /\ exec[e] \in Local
  BY ExecutorAssumption DEF CarriesInv, ExecTypeOK
<1>a. exec \in [Executors -> Local] /\ register \in Nat /\ register' \in Nat
  BY DEF ExecTypeOK, TypeOK
<1>1. ASSUME NEW d \in Executors \ {e} PROVE Carries(d)'
  <2>1. UNCHANGED exec[d]
    BY <1>a DEF Step, ReadEpoch, CreateTask, GetTask, ReclaimTask, LeaseTask, Beat, WorkerReturns,
                RecordUsage, ReadRegister, PresentResult, Converge, Replay, Retry, GiveUp, Return, Goto, Leave
  <2> QED BY <2>1, OthersCarry
<1>2. Carries(e)'
  <2> USE <1>0, <1>a
  <2>1. CASE ReadEpoch(e)
    <3>1. register \in 1..register' /\ exec'[e] = [exec[e] EXCEPT !.at = "create", !.dispatched = register]
      BY <2>1 DEF ReadEpoch, NoDatabase, vars, EpochInv
    <3> QED BY <3>1 DEF Carries, Local
  <2>2. CASE CreateTask(e)
    <3>1. CASE exec'[e] = [exec[e] EXCEPT !.at = "get"]
      <4>1. task'[TaskOf[e]].state # "absent"
        BY <2>2, <3>1 DEF CreateTask, Create, Leave, Idle, NoDatabase, vars, IInv, TypeOK, Local
      <4> QED BY <2>2, <3>1, <4>1 DEF CreateTask, Carries, Onward, Local
    <3>2. CASE exec'[e] = [Idle EXCEPT !.at = "failed"]
      BY <3>2 DEF Carries, Idle
    <3> QED BY <2>2, <3>1, <3>2 DEF CreateTask, Goto, Leave
  <2>3. CASE GetTask(e)
    <3>1. /\ exec'[e].at \in {"replay", "reclaim", "lease"}
          /\ exec'[e].dispatched = exec[e].dispatched
          /\ exec'[e].taskEpoch = task[TaskOf[e]].epoch
      BY <2>3 DEF GetTask, Local
    <3>2. task[TaskOf[e]].epoch \in 1..register' /\ task'[TaskOf[e]].state # "absent"
      BY <2>3 DEF GetTask, Carries, NoDatabase, vars, EpochInv, IInv, TypeOK, TaskRows
    <3>3. exec[e].dispatched \in 1..register'
      BY <2>3 DEF GetTask, Carries, Onward, NoDatabase, vars
    <3> QED BY <3>1, <3>2, <3>3 DEF Carries
  <2>4. CASE ReclaimTask(e)
    BY <2>4 DEF ReclaimTask, Goto, Carries, Onward, Local
  <2>5. CASE LeaseTask(e)
    <3>1. PICK i \in AttemptIds, d \in Drift :
            \/ Lease(TaskOf[e], i, d) /\ exec' = [exec EXCEPT ![e].at = "run", ![e].held = {i}]
            \/ Leave(e, "failed")
      BY <2>5 DEF LeaseTask
    <3>2. CASE Leave(e, "failed")
      BY <3>2 DEF Leave, Idle, Carries
    <3>3. CASE Lease(TaskOf[e], i, d) /\ exec' = [exec EXCEPT ![e].at = "run", ![e].held = {i}]
      <4>1. attempt'[i].state # "none" /\ attempt'[i].task = TaskOf[e]
        BY <3>3 DEF Lease, Retire, IInv, TypeOK
      <4>2. exec'[e] = [exec[e] EXCEPT !.at = "run", !.held = {i}]
        BY <3>3
      <4> QED BY <2>5, <4>1, <4>2 DEF LeaseTask, Carries, Onward, Local
    <3> QED BY <3>1, <3>2, <3>3
  <2>6. CASE Beat(e)
    <3>1. /\ exec'[e].at = "run" /\ exec[e].at = "run"
          /\ exec'[e].held = exec[e].held /\ exec'[e].dispatched = exec[e].dispatched
          /\ exec'[e].taskEpoch = exec[e].taskEpoch
      BY <2>6 DEF Beat, Local
    <3> QED BY <3>1 DEF Carries, Onward
  <2>7. ASSUME NEW o \in Outputs, WorkerReturns(e, o) PROVE Carries(e)'
    BY <2>7 DEF WorkerReturns, Carries, Onward, Local
  <2>8. CASE RecordUsage(e)
    <3>1. CASE exec[e].erred = FALSE /\ exec'[e] = [exec[e] EXCEPT !.at = "present"]
      BY <2>8, <3>1 DEF RecordUsage, Carries, Onward, Local
    <3>2. CASE exec'[e].at \in {"converge", "failed"}
      BY <3>2 DEF Carries
    <3>3. CASE ~exec[e].lost /\ ~exec[e].erred /\ Goto(e, "present")
      BY <3>1, <3>3 DEF Goto, Local
    <3>4. CASE Leave(e, "converge") \/ Leave(e, "failed")
      BY <3>2, <3>4 DEF Leave, Idle
    <3> QED BY <2>8, <3>3, <3>4 DEF RecordUsage
  <2>9. CASE ReadRegister(e)
    <3>1. \A i \in AttemptIds : attempt'[i].epoch \in Nat /\ attempt'[i].epoch <= register'
      BY DEF EpochInv, TypeOK, AttemptRows
    <3>2. register' = register /\ exec'[e] = [exec[e] EXCEPT !.at = "commit", !.seen = register]
      BY <2>9 DEF ReadRegister, NoDatabase, vars
    <3> QED BY <2>9, <3>1, <3>2 DEF ReadRegister, Carries, Onward, Local
  <2>10. CASE PresentResult(e) \/ Converge(e) \/ Replay(e) \/ Retry(e) \/ GiveUp(e)
    <3>1. exec'[e].at \in {"done", "converge", "failed", "replay", "gaveup", "idle"}
      BY <2>10 DEF PresentResult, Converge, Replay, Retry, GiveUp, Return, Leave, Idle
    <3> QED BY <3>1 DEF Carries
  <2> QED BY <2>1, <2>2, <2>3, <2>4, <2>5, <2>6, <2>7, <2>8, <2>9, <2>10 DEF Step
<1> QED BY <1>1, <1>2 DEF CarriesInv

(* One execution's locals are replaced by well-typed ones.                 *)
LEMMA LocalUpdate ==
  ASSUME ExecTypeOK, NEW e \in Executors, NEW l \in Local, exec' = [exec EXCEPT ![e] = l]
  PROVE  exec' \in [Executors -> Local]
BY DEF ExecTypeOK

LEMMA LocationUpdate ==
  ASSUME ExecTypeOK, NEW e \in Executors, NEW location \in Locations,
         Goto(e, location) \/ Leave(e, location)
  PROVE  exec' \in [Executors -> Local]
<1>1. exec \in [Executors -> Local]
  BY DEF ExecTypeOK
<1>2. CASE Goto(e, location)
  <2>1. [exec[e] EXCEPT !.at = location] \in Local /\ exec' = [exec EXCEPT ![e] = [exec[e] EXCEPT !.at = location]]
    BY <1>1, <1>2 DEF Goto, Local
  <2> QED BY <2>1, LocalUpdate
<1>3. CASE Leave(e, location)
  <2>1. [Idle EXCEPT !.at = location] \in Local
    BY DEF Idle, Local
  <2> QED BY <1>3, <2>1, LocalUpdate DEF Leave
<1> QED BY <1>2, <1>3

LEMMA ExecTypes == ASSUME ExecInv, [ExecNext]_allVars, TypeOK' PROVE ExecTypeOK'
<1>a. /\ exec \in [Executors -> Local] /\ answer \in [Executors -> Outputs \cup {NoOutput}]
      /\ faults \in 0..MaxFaults /\ MaxFaults \in Nat /\ register \in Nat
      /\ tries \in [Executors -> 0..(MaximumAttempts - 1)] /\ MaximumAttempts \in Nat \ {0}
      /\ \A e \in Executors : task[TaskOf[e]].epoch \in Nat
  BY ExecutorAssumption DEF ExecInv, ExecTypeOK, TypeOK, TaskRows
<1>b. Idle \in Local
  BY DEF Idle, Local, Locations
<1>c. ASSUME NEW e \in Executors, NEW l \in Local, exec' = [exec EXCEPT ![e] = l]
      PROVE exec' \in [Executors -> Local]
  BY <1>c, LocalUpdate DEF ExecInv
<1>d. ASSUME NEW e \in Executors, NEW location \in Locations, Goto(e, location) \/ Leave(e, location)
      PROVE exec' \in [Executors -> Local]
  BY <1>d, LocationUpdate DEF ExecInv
<1>1. ASSUME NEW e \in Executors, Step(e) PROVE ExecTypeOK'
  <2>0. exec[e] \in Local
    BY <1>a
  <2>2. CASE ReadEpoch(e)
    <3>1. [exec[e] EXCEPT !.at = "create", !.dispatched = register] \in Local
      BY <1>a, <2>0 DEF Local, Locations
    <3>2. exec' = [exec EXCEPT ![e] = [exec[e] EXCEPT !.at = "create", !.dispatched = register]]
      BY <1>a, <2>2 DEF ReadEpoch
    <3> QED BY <1>a, <1>c, <2>2, <3>1, <3>2 DEF ReadEpoch, NoAnswer, ExecTypeOK
  <2>3. CASE CreateTask(e)
    BY <1>a, <1>d, <2>3 DEF CreateTask, NoAnswer, ExecTypeOK, Locations
  <2>4. CASE GetTask(e)
    <3>1. PICK location \in Locations :
            exec' = [exec EXCEPT ![e].taskEpoch = task[TaskOf[e]].epoch, ![e].at = location]
      BY <2>4 DEF GetTask, Locations
    <3>2. [exec[e] EXCEPT !.taskEpoch = task[TaskOf[e]].epoch, !.at = location] \in Local
      BY <1>a, <2>0 DEF Local
    <3>3. exec' = [exec EXCEPT ![e] = [exec[e] EXCEPT !.taskEpoch = task[TaskOf[e]].epoch, !.at = location]]
      BY <1>a, <3>1
    <3> QED BY <1>a, <1>c, <2>4, <3>2, <3>3 DEF GetTask, NoAnswer, ExecTypeOK
  <2>5. CASE ReclaimTask(e) \/ RecordUsage(e) \/ Converge(e)
    BY <1>a, <1>d, <2>5 DEF ReclaimTask, RecordUsage, Converge, NoAnswer, ExecTypeOK, Locations
  <2>6. CASE LeaseTask(e)
    <3>1. CASE Leave(e, "failed")
      BY <1>a, <1>d, <2>6, <3>1 DEF LeaseTask, NoAnswer, ExecTypeOK, Locations
    <3>2. ASSUME NEW i \in AttemptIds, exec' = [exec EXCEPT ![e].at = "run", ![e].held = {i}]
          PROVE ExecTypeOK'
      <4>1. [exec[e] EXCEPT !.at = "run", !.held = {i}] \in Local
        BY <2>0 DEF Local, Locations
      <4>2. exec' = [exec EXCEPT ![e] = [exec[e] EXCEPT !.at = "run", !.held = {i}]]
        BY <1>a, <3>2
      <4> QED BY <1>a, <1>c, <2>6, <4>1, <4>2 DEF LeaseTask, NoAnswer, ExecTypeOK
    <3> QED BY <2>6, <3>1, <3>2 DEF LeaseTask
  <2>7. CASE Beat(e)
    <3>1. [exec[e] EXCEPT !.lost = TRUE] \in Local
      BY <2>0 DEF Local
    <3>2. exec' = exec \/ exec' = [exec EXCEPT ![e] = [exec[e] EXCEPT !.lost = TRUE]]
      BY <1>a, <2>7 DEF Beat
    <3> QED BY <1>a, <1>c, <2>7, <3>1, <3>2 DEF Beat, NoAnswer, ExecTypeOK
  <2>8. ASSUME NEW o \in Outputs, WorkerReturns(e, o) PROVE ExecTypeOK'
    <3>1. [exec[e] EXCEPT !.at = "usage", !.output = o] \in Local
      BY <2>0 DEF Local, Locations
    <3>2. exec' = [exec EXCEPT ![e] = [exec[e] EXCEPT !.at = "usage", !.output = o]]
      BY <1>a, <2>8 DEF WorkerReturns
    <3> QED BY <1>a, <1>c, <2>8, <3>1, <3>2 DEF WorkerReturns, NoAnswer, ExecTypeOK
  <2>9. CASE ReadRegister(e)
    <3>1. [exec[e] EXCEPT !.at = "commit", !.seen = register] \in Local
      BY <1>a, <2>0 DEF Local, Locations
    <3>2. exec' = [exec EXCEPT ![e] = [exec[e] EXCEPT !.at = "commit", !.seen = register]]
      BY <1>a, <2>9 DEF ReadRegister
    <3> QED BY <1>a, <1>c, <2>9, <3>1, <3>2 DEF ReadRegister, NoAnswer, ExecTypeOK
  <2>10. CASE PresentResult(e)
    <3>1. \/ Return(e, exec[e].output)
          \/ NoAnswer /\ (Leave(e, "converge") \/ Leave(e, "failed"))
      BY <2>10 DEF PresentResult
    <3>2. exec[e].output \in Outputs \cup {NoOutput}
      BY <2>0 DEF Local
    <3> QED BY <1>a, <1>d, <3>1, <3>2 DEF Return, NoAnswer, ExecTypeOK, Locations
  <2>11. CASE Replay(e)
    BY <1>a, <1>d, <2>11 DEF Replay, Return, ExecInv, IInv, TypeOK, Recorded, Presentations, ExecTypeOK, Locations
  <2>12. CASE Retry(e)
    <3>1. tries' \in [Executors -> 0..(MaximumAttempts - 1)]
      <4>1. tries[e] + 1 \in 0..(MaximumAttempts - 1)
        BY <1>a, <2>12 DEF Retry
      <4> QED BY <1>a, <2>12, <4>1 DEF Retry
    <3> QED BY <1>a, <1>b, <1>c, <2>12, <3>1 DEF Retry, ExecTypeOK
  <2>13. CASE GiveUp(e)
    BY <1>a, <1>d, <2>13 DEF GiveUp, ExecTypeOK, Locations
  <2> QED BY <1>1, <2>2, <2>3, <2>4, <2>5, <2>6, <2>7, <2>8, <2>9, <2>10, <2>11, <2>12, <2>13 DEF Step
<1>2. ASSUME NEW e \in Executors, WorkerErrs(e) PROVE ExecTypeOK'
  <2>0. exec[e] \in Local
    BY <1>a
  <2>1. [exec[e] EXCEPT !.at = "usage", !.erred = TRUE] \in Local
    BY <2>0 DEF Local, Locations
  <2>2. exec' = [exec EXCEPT ![e] = [exec[e] EXCEPT !.at = "usage", !.erred = TRUE]]
    BY <1>a, <1>2 DEF WorkerErrs
  <2> QED BY <1>a, <1>c, <1>2, <2>1, <2>2 DEF WorkerErrs, ExecTypeOK
<1>3. ASSUME NEW e \in Executors, Crash(e) PROVE ExecTypeOK'
  BY <1>a, <1>b, <1>c, <1>3 DEF Crash, ExecTypeOK
<1>4. CASE UNCHANGED <<exec, answer, tries, faults>>
  BY <1>a, <1>4 DEF ExecTypeOK
<1> QED BY <1>1, <1>2, <1>3, <1>4 DEF ExecNext, Faulty, Passive, execVars, allVars

LEMMA ExecStep == ExecInv /\ [ExecNext]_allVars => ExecInv'
<1> SUFFICES ASSUME ExecInv, [ExecNext]_allVars PROVE ExecInv'
  OBVIOUS
<1>1. IInv' /\ TypeOK'
  BY DrivesScheduler, StepIInv DEF ExecInv, IInv
<1>2. Onward /\ EpochInv'
  BY DrivesScheduler, RowsMoveOnward DEF ExecInv
<1>3. CarriesInv'
  <2>1. ASSUME NEW e \in Executors, Step(e) PROVE CarriesInv'
    BY <1>1, <1>2, <2>1, StepCarries
  <2>2. ASSUME NEW e \in Executors, WorkerErrs(e) \/ Crash(e), NEW d \in Executors PROVE Carries(d)'
    <3>1. CASE d # e
      <4>1. UNCHANGED exec[d]
        BY <2>2, <3>1 DEF WorkerErrs, Crash, ExecInv, ExecTypeOK
      <4> QED BY <1>1, <1>2, <4>1, OthersCarry
    <3>2. CASE d = e /\ WorkerErrs(e)
      BY <3>2, <1>1, <1>2 DEF WorkerErrs, NoDatabase, vars, ExecInv, ExecTypeOK, Local, CarriesInv, Carries,
                  Dispatched, PastGet, Holding
    <3>3. CASE d = e /\ Crash(e)
      BY <3>3 DEF Crash, Idle, ExecInv, ExecTypeOK, Carries, Dispatched, PastGet, Holding
    <3> QED BY <2>2, <3>1, <3>2, <3>3
  <2>3. CASE UNCHANGED exec
    BY <1>1, <1>2, <2>3, OthersCarry DEF CarriesInv
  <2> QED BY <2>1, <2>2, <2>3 DEF ExecNext, Faulty, Passive, execVars, allVars, CarriesInv
<1> QED BY <1>1, <1>2, <1>3, ExecTypes DEF ExecInv

LEMMA ExecInvariant == ExecSpec => []ExecInv
BY ExecStart, ExecStep, PTL DEF ExecSpec

-----------------------------------------------------------------------------
(* The scheduler's rows and what every execution knows stay well typed,    *)
(* and what an execution presents is what it was leased.                   *)
THEOREM ExecTypeCorrect == ExecSpec => []ExecTypeOK
<1>1. ExecInv => ExecTypeOK
  BY DEF ExecInv
<1> QED BY <1>1, ExecInvariant, PTL

(* The executor calls the scheduler with nothing but tasks it created,     *)
(* epochs that were reached and attempts it was leased: its behaviours are *)
(* the scheduler's, and all that is proved of the scheduler holds of them. *)
THEOREM ExecutorDrivesScheduler == ExecSpec => Spec
<1>1. ExecInit => Init
  BY DEF ExecInit
<1>2. ExecInv /\ [ExecNext]_allVars => [Next]_vars
  BY DrivesScheduler
<1> QED BY <1>1, <1>2, ExecInvariant, PTL DEF ExecSpec, Spec

(* No worker is started for an invocation that has settled.                *)
THEOREM SettledNeverRuns == ExecSpec => NeverRerunSettled
<1> DEFINE A == \A e \in Executors :
                  exec[e].at = "lease" /\ exec'[e].at = "run" => Recorded(TaskOf[e]) = {}
<1>1. ExecInv /\ [ExecNext]_allVars => [A]_allVars
  <2> SUFFICES ASSUME ExecInv, ExecNext, NEW e \in Executors, exec[e].at = "lease", exec'[e].at = "run"
               PROVE  Recorded(TaskOf[e]) = {}
    OBVIOUS
  <2>1. exec \in [Executors -> Local] /\ TaskOf[e] \in Tasks
    BY ExecutorAssumption DEF ExecInv, ExecTypeOK
  <2>2. LeaseTask(e)
    <3>1. PICK d \in Executors : Step(d) \/ WorkerErrs(d) \/ Crash(d)
      BY DEF ExecNext, Faulty, Passive, execVars
    <3>2. d = e
      BY <2>1, <3>1 DEF WorkerErrs, Crash, Step, ReadEpoch, CreateTask, GetTask, ReclaimTask, LeaseTask,
                        Beat, WorkerReturns, RecordUsage, ReadRegister, PresentResult, Converge, Replay,
                        Retry, GiveUp, Return, Goto, Leave
    <3>3. ~WorkerErrs(e) /\ ~Crash(e)
      BY <2>1 DEF WorkerErrs, Crash, Idle
    <3> QED BY <3>1, <3>2, <3>3 DEF Step, Leave, Idle, ReadEpoch, CreateTask, GetTask, ReclaimTask, Beat,
                                   WorkerReturns, RecordUsage, ReadRegister, PresentResult, Converge, Replay, Retry, GiveUp
  <2>3. task[TaskOf[e]].state # "completed"
    BY <2>1, <2>2 DEF LeaseTask, Lease, Leasable, Leave, Idle
  <2> QED BY <2>3 DEF ExecInv, IInv, ResultInv, Recorded
<1> QED BY <1>1, ExecInvariant, PTL DEF ExecSpec, NeverRerunSettled

-----------------------------------------------------------------------------
(* What the recorded results say an invocation settled on.                 *)
SettledAs == [t \in Tasks |-> IF Recorded(t) = {} THEN NoOutput
                             ELSE (CHOOSE r \in Recorded(t) : TRUE).output]

LEMMA RecordedOutput ==
  ASSUME IInv, NEW t \in Tasks, NEW r \in results, r.task = t
  PROVE  SettledAs[t] = r.output /\ r.output \in Outputs
<1>1. Recorded(t) = {r}
  BY DEF IInv, ResultInv, Recorded
<1>2. r.output \in Outputs
  BY DEF IInv, TypeOK, Presentations
<1> QED BY <1>1, <1>2 DEF SettledAs

LEMMA SameRecords == ASSUME UNCHANGED results PROVE UNCHANGED SettledAs
BY DEF SettledAs, Recorded

(* Only an accepted result settles; every answer is the record.            *)
LEMMA AcceptSettles ==
  ASSUME ExecInv, ExecInv', NEW e \in Executors, NEW i \in exec[e].held, NEW timely,
         exec[e].at = "commit",
         Accept(Presentation(e, i), exec[e].seen, timely), Return(e, exec[e].output)
  PROVE  Promise!SettleAndAnswer(e, exec[e].output)
<1> DEFINE t == TaskOf[e]
           p == Presentation(e, i)
<1>1. t \in Tasks /\ p.task = t /\ p.output = exec[e].output
  BY ExecutorAssumption DEF Presentation
<1>2. Recorded(t) = {} /\ results' = results \cup {p}
  BY <1>1 DEF Accept
<1>3. SettledAs[t] = NoOutput
  BY <1>1, <1>2 DEF SettledAs
<1>4. (SettledAs')[t] = exec[e].output
  <2>1. p \in results' /\ p.task = t
    BY <1>1, <1>2
  <2>2. Recorded(t)' = {p}
    BY <1>1, <1>2 DEF Recorded
  <2> QED BY <1>1, <2>2 DEF SettledAs
<1>5. \A u \in Tasks \ {t} : (SettledAs')[u] = SettledAs[u]
  <2> SUFFICES ASSUME NEW u \in Tasks \ {t} PROVE (SettledAs')[u] = SettledAs[u]
    OBVIOUS
  <2>1. Recorded(u)' = Recorded(u)
    BY <1>1, <1>2 DEF Recorded
  <2> QED BY <2>1 DEF SettledAs
<1>6. SettledAs' = [SettledAs EXCEPT ![t] = exec[e].output]
  BY <1>1, <1>4, <1>5 DEF SettledAs
<1> QED BY <1>3, <1>6 DEF Promise!SettleAndAnswer, Return, SettledAs

LEMMA AnswersRecord ==
  ASSUME ExecInv, NEW e \in Executors, NEW r \in results, r.task = TaskOf[e],
         Return(e, r.output), UNCHANGED results
  PROVE  Promise!Answer(e)
<1>1. TaskOf[e] \in Tasks /\ IInv
  BY ExecutorAssumption DEF ExecInv
<1>2. SettledAs[TaskOf[e]] = r.output /\ r.output \in Outputs /\ UNCHANGED SettledAs
  BY <1>1, RecordedOutput, SameRecords
<1> QED BY <1>2, ExecutorAssumption DEF Promise!Answer, Return, SettledAs

LEMMA StepSettles ==
  ASSUME ExecInv, ExecInv', [ExecNext]_allVars
  PROVE  [Promise!Next]_<<SettledAs, answer>>
<1>1. ASSUME NEW e \in Executors, PresentResult(e) PROVE [Promise!Next]_<<SettledAs, answer>>
  <2>1. PICK i \in exec[e].held, timely \in Timeliness :
          LET p == Presentation(e, i) IN
          \/ Accept(p, exec[e].seen, timely) /\ Return(e, exec[e].output)
          \/ Duplicate(p) /\ Return(e, exec[e].output)
          \/ UNCHANGED <<results, answer>>
    BY <1>1 DEF PresentResult, Diagnose, NoAnswer, NoDatabase, vars
  <2>2. exec[e].output \in Outputs
    BY <1>1 DEF PresentResult, ExecInv, CarriesInv, Carries
  <2>3. CASE Accept(Presentation(e, i), exec[e].seen, timely) /\ Return(e, exec[e].output)
    BY <1>1, <2>2, <2>3, AcceptSettles DEF Promise!Next, PresentResult
  <2>4. CASE Duplicate(Presentation(e, i)) /\ Return(e, exec[e].output)
    <3>1. Presentation(e, i) \in results /\ UNCHANGED results
      BY <2>4 DEF Duplicate, vars
    <3>2. Presentation(e, i).task = TaskOf[e] /\ Presentation(e, i).output = exec[e].output
      BY DEF Presentation
    <3>3. Promise!Answer(e)
      BY <2>4, <3>1, <3>2, AnswersRecord
    <3> QED BY <3>3 DEF Promise!Next
  <2>5. CASE UNCHANGED <<results, answer>>
    BY <2>5, SameRecords
  <2> QED BY <2>1, <2>3, <2>4, <2>5
<1>2. ASSUME NEW e \in Executors, Replay(e) PROVE [Promise!Next]_<<SettledAs, answer>>
  <2>1. PICK r \in Recorded(TaskOf[e]) : Return(e, r.output)
    BY <1>2 DEF Replay
  <2>2. Promise!Answer(e)
    BY <1>2, <2>1, AnswersRecord DEF Replay, NoDatabase, vars, Recorded
  <2> QED BY <2>2 DEF Promise!Next
<1>3. ASSUME NEW e \in Executors, Crash(e) PROVE [Promise!Next]_<<SettledAs, answer>>
  <2>1. Promise!Forget(e)
    BY <1>3, SameRecords DEF Crash, NoDatabase, vars, Promise!Forget, SettledAs
  <2> QED BY <2>1 DEF Promise!Next
<1>4. ASSUME NEW e \in Executors,
             \/ ReadEpoch(e) \/ CreateTask(e) \/ GetTask(e) \/ ReclaimTask(e) \/ LeaseTask(e)
             \/ Beat(e) \/ (\E o \in Outputs : WorkerReturns(e, o)) \/ RecordUsage(e)
             \/ ReadRegister(e) \/ Converge(e) \/ Retry(e) \/ GiveUp(e) \/ WorkerErrs(e)
      PROVE UNCHANGED <<results, answer>>
  BY <1>4 DEF ReadEpoch, CreateTask, Create, GetTask, ReclaimTask, ReclaimExpired, LeaseTask, Lease, Beat,
              Heartbeat, WorkerReturns, RecordUsage, ReadRegister, Converge, Retry, GiveUp, WorkerErrs,
              NoDatabase, NoAnswer, vars
<1>5. ASSUME Passive PROVE UNCHANGED <<results, answer>>
  BY <1>5 DEF Passive, Tick, Restore, RotateExternalEpoch, Rotate, EnableDualResultFence,
              DisableProcessing, EnableDispatch, EnableIngress, execVars
<1>6. ASSUME UNCHANGED allVars PROVE UNCHANGED <<results, answer>>
  BY <1>6 DEF allVars
<1>7. UNCHANGED <<results, answer>> => UNCHANGED <<SettledAs, answer>>
  BY SameRecords
<1> QED BY <1>1, <1>2, <1>3, <1>4, <1>5, <1>6, <1>7, SameRecords DEF ExecNext, Faulty, Step

(* An invocation settles once, on one output, and every execution of it    *)
(* that returns answers with that output, whatever was leased again,       *)
(* expired, superseded or crashed before.                                  *)
THEOREM InvocationSettlesOnce == ExecSpec => SettlesOnce
<1>1. ExecInit => Promise!Init
  BY DEF ExecInit, Init, Promise!Init, Recorded
<1>2. ExecInv /\ ExecInv' /\ [ExecNext]_allVars => [Promise!Next]_<<SettledAs, answer>>
  BY StepSettles
<1> QED BY <1>1, <1>2, ExecInvariant, PTL DEF ExecSpec, SettlesOnce, Promise!Spec, SettledAs
=============================================================================
