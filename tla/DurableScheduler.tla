-------------------------- MODULE DurableScheduler --------------------------
(***************************************************************************)
(* The durable task scheduler (internal/scheduler/postgres/durable.go) and *)
(* the recovery fence a restore puts around it                             *)
(* (internal/recovery/postgres/scheduler.go, internal/recovery/register.go)*)
(*                                                                         *)
(* A task is leased to one physical attempt at a time.  The attempt's      *)
(* worker may present its result at any time, late, twice, or after the    *)
(* lease was reclaimed by another caller or superseded by a restore.  One  *)
(* action is one committed database transaction.                           *)
(*                                                                         *)
(* Time.  An attempt row carries `left`, the time from the database's now  *)
(* to its expires_at.  A service instance reads its own clock before it    *)
(* opens its transaction, so the reading it acts on differs from the       *)
(* database's now by some d in Drift: negative when it is slow or the      *)
(* transaction waited for its locks, positive when it is fast.             *)
(***************************************************************************)
EXTENDS Integers, FiniteSets

CONSTANTS
  Tasks,       \* task identities of one scope
  AttemptIds,  \* physical attempt identities, random and never reused
  Outputs,     \* distinguishable worker outputs (their digests)
  TTL,         \* lease duration
  Skew,        \* bound on a caller's clock error, either way
  MaxEpoch     \* bound: recovery epochs the external register reaches

ASSUME SchedulerAssumption ==
  /\ TTL \in Nat \ {0}
  /\ Skew \in Nat
  /\ MaxEpoch \in Nat \ {0}
  /\ Tasks # {}

VARIABLES
  task,         \* agent_tasks: one row per task
  attempt,      \* worker_attempts: one row per physical attempt
  results,      \* worker_results: the accepted results
  diagnostics,  \* result_diagnostics: attempts whose presented result was refused
  recovery,     \* recovery_state: the mirrored epoch and the three switches
  register      \* the external non-rollback epoch register

vars == <<task, attempt, results, diagnostics, recovery, register>>

Drift == (-Skew)..Skew

\* With agreeing clocks a worker that finished before it presented finished
\* inside its unexpired lease; otherwise either clock may say it did not.
Timeliness == IF Skew = 0 THEN {TRUE} ELSE BOOLEAN

TaskRows == [state : {"absent", "queued", "leased", "completed"},
             epoch : Nat, leaseEpoch : Nat]

AttemptStates == {"none", "active", "expired", "superseded", "accepted"}

AttemptRows == [state : AttemptStates, task : Tasks,
                epoch : Nat, leaseEpoch : Nat, left : Int]

\* What a worker presents for acceptance.  The epoch is the one its executor
\* read from the task row when it created the task.
Presentations == [id : AttemptIds, task : Tasks, epoch : Nat,
                  leaseEpoch : Nat, output : Outputs]

NoTask == [state |-> "absent", epoch |-> 0, leaseEpoch |-> 0]
NoAttempt == [state |-> "none", task |-> CHOOSE t \in Tasks : TRUE,
              epoch |-> 0, leaseEpoch |-> 0, left |-> 0]

Active(t) == {i \in AttemptIds : attempt[i].state = "active" /\ attempt[i].task = t}

Issued(t) == {i \in AttemptIds : attempt[i].state # "none" /\ attempt[i].task = t}

Expired(i, d) == attempt[i].left <= d

Retire(ids, outcome) ==
  [i \in AttemptIds |->
     IF i \in ids THEN [attempt[i] EXCEPT !.state = outcome] ELSE attempt[i]]

-----------------------------------------------------------------------------
(* A fresh installation: epoch 1, every switch on.                         *)

Init ==
  /\ task = [t \in Tasks |-> NoTask]
  /\ attempt = [i \in AttemptIds |-> NoAttempt]
  /\ results = {}
  /\ diagnostics = {}
  /\ recovery = [mirrored |-> 1, intake |-> TRUE, dispatch |-> TRUE, ingress |-> TRUE]
  /\ register = 1

(* Dispatch is admitted in the mutating transaction itself: the switch is  *)
(* on and the mirror agrees with the external register.                    *)
DispatchAdmitted == recovery.dispatch /\ register = recovery.mirrored

Create(t, epoch) ==
  /\ DispatchAdmitted
  /\ epoch = recovery.mirrored
  /\ task[t].state = "absent"
  /\ task' = [task EXCEPT ![t] = [state |-> "queued", epoch |-> epoch, leaseEpoch |-> 0]]
  /\ UNCHANGED <<attempt, results, diagnostics, recovery, register>>

(* Mutant of Leasable: the state of the task is not looked at.             *)
LeasableInAnyState(t, d) ==
  /\ DispatchAdmitted
  /\ task[t].state # "absent"
  /\ \A a \in Active(t) : Expired(a, d)
  /\ task[t].epoch = recovery.mirrored

(* A queued task, or a leased one whose attempt has expired, goes to a     *)
(* fresh attempt under the next lease epoch.                               *)
Leasable(t, d) ==
  /\ DispatchAdmitted
  /\ \/ task[t].state = "queued"
     \/ /\ task[t].state = "leased"
        /\ \A a \in Active(t) : Expired(a, d)
  /\ task[t].epoch = recovery.mirrored

Lease(t, i, d) ==
  /\ Leasable(t, d)
  /\ attempt[i].state = "none"
  /\ attempt' = [Retire(IF task[t].state = "leased" THEN Active(t) ELSE {}, "expired")
                   EXCEPT ![i] = [state |-> "active", task |-> t, epoch |-> task[t].epoch,
                                  leaseEpoch |-> task[t].leaseEpoch + 1, left |-> d + TTL]]
  /\ task' = [task EXCEPT ![t].state = "leased", ![t].leaseEpoch = @ + 1]
  /\ UNCHANGED <<results, diagnostics, recovery, register>>

(* Mutant of ReclaimExpired: the attempt row is left as it is.             *)
ReclaimTaskRowOnly(t, d) ==
  /\ task[t].state = "leased"
  /\ \A a \in Active(t) : Expired(a, d)
  /\ task' = [task EXCEPT ![t].state = "queued"]
  /\ UNCHANGED <<attempt, results, diagnostics, recovery, register>>

(* Mutant of ReclaimExpired: a lease is taken whether or not it has run    *)
(* out.                                                                    *)
ReclaimUnexpired(t, d) ==
  /\ task[t].state = "leased"
  /\ attempt' = Retire(Active(t), "expired")
  /\ task' = [task EXCEPT ![t].state = "queued"]
  /\ UNCHANGED <<results, diagnostics, recovery, register>>

ReclaimExpired(t, d) ==
  /\ task[t].state = "leased"
  /\ \A a \in Active(t) : Expired(a, d)
  /\ attempt' = Retire(Active(t), "expired")
  /\ task' = [task EXCEPT ![t].state = "queued"]
  /\ UNCHANGED <<results, diagnostics, recovery, register>>

(* Renewal is a compare-and-set on the full lease identity: only the       *)
(* active attempt's own lease, not yet expired, is extended.               *)
Heartbeat(i, d) ==
  /\ attempt[i].state = "active"
  /\ task[attempt[i].task].state = "leased"
  /\ ~Expired(i, d)
  /\ attempt' = [attempt EXCEPT ![i].left = d + TTL]
  /\ UNCHANGED <<task, results, diagnostics, recovery, register>>

(* Mutant of Fenced: the lease is identified, whether it stands is not     *)
(* checked.                                                                *)
FencedByIdentityOnly(p, seen, timely) ==
  /\ recovery.intake
  /\ recovery.mirrored = task[p.task].epoch
  /\ seen = task[p.task].epoch
  /\ p.epoch = task[p.task].epoch
  /\ p.leaseEpoch = attempt[p.id].leaseEpoch
  /\ timely

(* Mutant of Fenced: the intake switch is not read.                        *)
FencedWithoutIntake(p, seen, timely) ==
  /\ recovery.mirrored = task[p.task].epoch
  /\ seen = task[p.task].epoch
  /\ task[p.task].state = "leased"
  /\ p.epoch = task[p.task].epoch
  /\ p.leaseEpoch = attempt[p.id].leaseEpoch
  /\ p.id \in Active(p.task)
  /\ timely
  /\ ~Expired(p.id, 0)

(* The fence a presented result must pass.  `seen` is the register value   *)
(* read before the transaction began; `timely` says the completion time    *)
(* lies inside the lease by the clocks of worker and database.             *)
Fenced(p, seen, timely) ==
  /\ recovery.intake
  /\ recovery.mirrored = task[p.task].epoch
  /\ seen = task[p.task].epoch
  /\ task[p.task].state = "leased"
  /\ p.epoch = task[p.task].epoch
  /\ p.leaseEpoch = attempt[p.id].leaseEpoch
  /\ p.id \in Active(p.task)
  /\ timely
  /\ ~Expired(p.id, 0)

Recorded(t) == {r \in results : r.task = t}

Accept(p, seen, timely) ==
  /\ Recorded(p.task) = {}
  /\ Fenced(p, seen, timely)
  /\ results' = results \cup {p}
  /\ task' = [task EXCEPT ![p.task].state = "completed"]
  /\ attempt' = Retire({p.id}, "accepted")
  /\ UNCHANGED <<diagnostics, recovery, register>>

(* A refusal is retained only when a result is already recorded or the     *)
(* task still has an active attempt to compare with.                       *)
Diagnose(p, seen, timely) ==
  /\ p \notin results
  /\ \/ Recorded(p.task) # {}
     \/ Active(p.task) # {} /\ ~Fenced(p, seen, timely)
  /\ diagnostics' = diagnostics \cup {p.id}
  /\ UNCHANGED <<task, attempt, results, recovery, register>>

Duplicate(p) ==
  /\ p \in results
  /\ UNCHANGED vars

AcceptResult(p, seen, timely) ==
  Accept(p, seen, timely) \/ Diagnose(p, seen, timely) \/ Duplicate(p)

-----------------------------------------------------------------------------
(* The restore's side.                                                     *)

RotateExternalEpoch ==
  /\ register < MaxEpoch
  /\ register' = register + 1
  /\ UNCHANGED <<task, attempt, results, diagnostics, recovery>>

(* The recovered scheduler adopts the epoch: everything goes off, every    *)
(* active attempt is superseded, and unfinished tasks carry the new epoch  *)
(* and a lease epoch no earlier attempt holds.                             *)
Rotate(epoch) ==
  /\ epoch > recovery.mirrored
  /\ recovery' = [mirrored |-> epoch, intake |-> FALSE, dispatch |-> FALSE, ingress |-> FALSE]
  /\ attempt' = Retire({i \in AttemptIds : attempt[i].state = "active"}, "superseded")
  /\ task' = [t \in Tasks |->
                IF task[t].state \in {"queued", "leased"}
                THEN [state |-> "queued", epoch |-> epoch, leaseEpoch |-> task[t].leaseEpoch + 1]
                ELSE task[t]]
  /\ UNCHANGED <<results, diagnostics, register>>

EnableDualResultFence(epoch) ==
  /\ recovery.mirrored = epoch
  /\ ~recovery.dispatch
  /\ ~recovery.ingress
  /\ recovery' = [recovery EXCEPT !.intake = TRUE]
  /\ UNCHANGED <<task, attempt, results, diagnostics, register>>

(* The isolation and runtime ports, implemented outside this repository:   *)
(* they switch processing off and on in the recovery state.                *)
DisableProcessing ==
  /\ recovery' = [recovery EXCEPT !.intake = FALSE, !.dispatch = FALSE, !.ingress = FALSE]
  /\ UNCHANGED <<task, attempt, results, diagnostics, register>>

EnableDispatch ==
  /\ recovery' = [recovery EXCEPT !.dispatch = TRUE]
  /\ UNCHANGED <<task, attempt, results, diagnostics, register>>

EnableIngress ==
  /\ recovery' = [recovery EXCEPT !.ingress = TRUE]
  /\ UNCHANGED <<task, attempt, results, diagnostics, register>>

(* Time passes for every active lease; below -Skew every reading agrees    *)
(* that the lease is over.                                                 *)
Tick ==
  /\ attempt' = [i \in AttemptIds |->
                   IF attempt[i].state = "active" /\ attempt[i].left > -Skew
                   THEN [attempt[i] EXCEPT !.left = @ - 1] ELSE attempt[i]]
  /\ UNCHANGED <<task, results, diagnostics, recovery, register>>

-----------------------------------------------------------------------------

Present ==
  \E i \in AttemptIds, o \in Outputs, epoch \in 1..register, timely \in Timeliness :
    LET a == attempt[i]
        p == [id |-> i, task |-> a.task, epoch |-> epoch, leaseEpoch |-> a.leaseEpoch, output |-> o]
    IN /\ a.state # "none"
       /\ \E seen \in a.epoch..register : AcceptResult(p, seen, timely)

Dispatch ==
  \E t \in Tasks :
    \/ \E epoch \in 1..register : Create(t, epoch)
    \/ \E i \in AttemptIds, d \in Drift : Lease(t, i, d)
    \/ \E d \in Drift : ReclaimExpired(t, d)

Renew == \E i \in AttemptIds, d \in Drift : Heartbeat(i, d)

Restore ==
  \/ RotateExternalEpoch
  \/ \E epoch \in 1..register : Rotate(epoch) \/ EnableDualResultFence(epoch)
  \/ DisableProcessing
  \/ EnableDispatch
  \/ EnableIngress

Next == Dispatch \/ Renew \/ Present \/ Restore \/ Tick

Spec == Init /\ [][Next]_vars

-----------------------------------------------------------------------------
(* Properties.                                                             *)

(* Every row has the columns its table declares.                           *)
TypeOK ==
  /\ task \in [Tasks -> TaskRows]
  /\ attempt \in [AttemptIds -> AttemptRows]
  /\ results \subseteq Presentations
  /\ diagnostics \subseteq AttemptIds
  /\ recovery \in [mirrored : Nat, intake : BOOLEAN, dispatch : BOOLEAN, ingress : BOOLEAN]
  /\ register \in Nat

(* A task is in one worker's hands or in none: leased exactly when one     *)
(* attempt is active, which holds the task's current lease epoch and the   *)
(* epoch the database has adopted.  Lease, ReclaimExpired, AcceptResult    *)
(* and Rotate each rewrite task and attempt in their own statements.       *)
LeaseOwnership ==
  \A t \in Tasks :
    /\ (task[t].state = "leased") <=> (Active(t) # {})
    /\ \A i \in Active(t) : /\ Active(t) = {i}
                            /\ attempt[i].leaseEpoch = task[t].leaseEpoch
                            /\ attempt[i].epoch = recovery.mirrored

(* No two attempts ever issued for one task share a lease epoch, across    *)
(* expiry, reclaim and restore, so the lease epoch alone tells a stale     *)
(* worker from the current one (UNIQUE(task_id,lease_epoch)).              *)
LeaseEpochsNeverReused ==
  \A i, j \in AttemptIds :
    /\ attempt[i].state # "none" /\ attempt[j].state # "none"
    /\ attempt[i].task = attempt[j].task
    /\ attempt[i].leaseEpoch = attempt[j].leaseEpoch
    => i = j

(* At most one result is ever accepted per task, it completes the task,    *)
(* and it comes from the newest lease the task was given: no attempt was   *)
(* issued after the accepted one.                                          *)
OneAcceptedResult ==
  \A r \in results :
    /\ Recorded(r.task) = {r}
    /\ task[r.task].state = "completed"
    /\ attempt[r.id].state = "accepted"
    /\ \A i \in Issued(r.task) : attempt[i].leaseEpoch <= r.leaseEpoch

(* A completed task always has the result that completed it, so a replay   *)
(* never finds a completed task with nothing to replay.                    *)
CompletedHasResult ==
  \A t \in Tasks : task[t].state = "completed" => Recorded(t) # {}

(* A lease that was lost is lost for good: an expired or superseded        *)
(* attempt is never revived by a heartbeat and never accepted.             *)
LostLeaseStaysLost ==
  [][\A i \in AttemptIds : attempt[i].state \in {"expired", "superseded"}
                             => attempt'[i].state = attempt[i].state]_vars

(* A result is accepted only under the epoch the database has adopted and  *)
(* with intake open, and it is never withdrawn or replaced.                *)
FencedAndFinal ==
  /\ results \subseteq results'
  /\ \A r \in results' \ results : /\ r.epoch = recovery.mirrored
                                   /\ attempt[r.id].epoch = recovery.mirrored
                                   /\ recovery.intake

AcceptanceIsFencedAndFinal == [][FencedAndFinal]_vars
=============================================================================
