--------------------------- MODULE ToolExecution ----------------------------
(***************************************************************************)
(* ScheduledToolExecutor (internal/execution/workerdispatch.go) over the   *)
(* durable scheduler: several executions of the same invocation, in one    *)
(* process or in several, concurrent or one after another's crash, each    *)
(* driving Create, Lease, the worker under renewal, and AcceptResult.      *)
(*                                                                         *)
(* One action is one call the executor makes; between two calls every      *)
(* other executor, the clock and a restore may take steps.  A failed call  *)
(* is repeated as often as the tool's signed envelope allows, and then     *)
(* given up: the error is recorded as the step's outcome and fails the     *)
(* run.  A crash loses the executor's local state only: a workflow that    *)
(* had recorded no outcome runs the step again.                            *)
(***************************************************************************)
EXTENDS DurableScheduler

CONSTANTS
  Executors,  \* executions of invocations
  TaskOf,     \* the task identity an execution's idempotency key maps to
  NoOutput,   \* no output yet
  MaximumAttempts,  \* attempts the signed envelope allows at once: 1 unless it is safe-immediate
  MaxFaults   \* bound: crashes, worker errors and ended contexts together

ASSUME ExecutorAssumption ==
  /\ TaskOf \in [Executors -> Tasks]
  /\ NoOutput \notin Outputs
  /\ MaximumAttempts \in Nat \ {0}
  /\ MaxFaults \in Nat

VARIABLES
  exec,    \* local state of each execution
  answer,  \* what an execution returned to its caller
  tries,   \* attempts of the step's dispatch loop that failed and were repeated
  faults   \* crashes, worker errors and ended contexts so far

execVars == <<exec, answer, tries, faults>>
allVars == <<task, attempt, results, diagnostics, recovery, register, exec, answer, tries, faults>>

Locations == {"idle", "create", "get", "reclaim", "lease", "run", "usage",
              "present", "commit", "converge", "replay", "failed", "gaveup", "done"}

\* `held` is the set with the attempt leased by this execution, if any.
Local == [at : Locations, dispatched : Nat, taskEpoch : Nat, held : SUBSET AttemptIds,
          lost : BOOLEAN, erred : BOOLEAN, output : Outputs \cup {NoOutput}, seen : Nat]

Idle == [at |-> "idle", dispatched |-> 0, taskEpoch |-> 0, held |-> {}, lost |-> FALSE,
         erred |-> FALSE, output |-> NoOutput, seen |-> 0]

ExecInit ==
  /\ Init
  /\ exec = [e \in Executors |-> Idle]
  /\ answer = [e \in Executors |-> NoOutput]
  /\ tries = [e \in Executors |-> 0]
  /\ faults = 0

Goto(e, location) == exec' = [exec EXCEPT ![e].at = location]

(* From here on the call reads none of its locals again: it only reads the *)
(* record or returns.                                                      *)
Leave(e, location) == exec' = [exec EXCEPT ![e] = [Idle EXCEPT !.at = location]]

NoDatabase == UNCHANGED vars
NoAnswer == UNCHANGED <<answer, tries, faults>>

(* The recovery epoch is read before anything else.                        *)
ReadEpoch(e) ==
  /\ exec[e].at = "idle"
  /\ exec' = [exec EXCEPT ![e].at = "create", ![e].dispatched = register]
  /\ NoDatabase /\ NoAnswer

(* Create converges on the row that is there; anything that denies it      *)
(* fails the call.                                                         *)
CreateTask(e) ==
  /\ exec[e].at = "create"
  /\ NoAnswer
  /\ \/ Create(TaskOf[e], exec[e].dispatched) /\ Goto(e, "get")
     \/ /\ DispatchAdmitted
        /\ exec[e].dispatched = recovery.mirrored
        /\ task[TaskOf[e]].state # "absent"
        /\ Goto(e, "get") /\ NoDatabase
     \/ /\ ~DispatchAdmitted \/ exec[e].dispatched # recovery.mirrored
        /\ Leave(e, "failed") /\ NoDatabase

(* The row is read back outside the creating transaction.                  *)
GetTask(e) ==
  /\ exec[e].at = "get"
  /\ LET row == task[TaskOf[e]] IN
     exec' = [exec EXCEPT ![e].taskEpoch = row.epoch,
                          ![e].at = CASE row.state = "completed" -> "replay"
                                      [] row.state = "leased" -> "reclaim"
                                      [] OTHER -> "lease"]
  /\ NoDatabase /\ NoAnswer

ReclaimTask(e) ==
  /\ exec[e].at = "reclaim"
  /\ Goto(e, "lease")
  /\ NoAnswer
  /\ \E d \in Drift :
       \/ ReclaimExpired(TaskOf[e], d)
       \/ /\ task[TaskOf[e]].state # "leased" \/ \E a \in Active(TaskOf[e]) : ~Expired(a, d)
          /\ NoDatabase

LeaseTask(e) ==
  /\ exec[e].at = "lease"
  /\ NoAnswer
  /\ \E i \in AttemptIds, d \in Drift :
       \/ /\ Lease(TaskOf[e], i, d)
          /\ exec' = [exec EXCEPT ![e].at = "run", ![e].held = {i}]
       \/ ~Leasable(TaskOf[e], d) /\ Leave(e, "failed") /\ NoDatabase

(* One beat of the renewal loop: an advanced epoch or a refused heartbeat  *)
(* loses the lease and cancels the worker, whose return is still awaited.  *)
Beat(e) ==
  /\ exec[e].at = "run" /\ ~exec[e].lost
  /\ NoAnswer
  /\ \E i \in exec[e].held, d \in Drift :
       \/ /\ register = exec[e].dispatched
          /\ Heartbeat(i, d)
          /\ UNCHANGED exec
       \/ /\ register # exec[e].dispatched \/ attempt[i].state # "active" \/ Expired(i, d)
          /\ exec' = [exec EXCEPT ![e].lost = TRUE]
          /\ NoDatabase

WorkerReturns(e, o) ==
  /\ exec[e].at = "run"
  /\ exec' = [exec EXCEPT ![e].at = "usage", ![e].output = o]
  /\ NoDatabase /\ NoAnswer

WorkerErrs(e) ==
  /\ exec[e].at = "run"
  /\ faults < MaxFaults
  /\ exec' = [exec EXCEPT ![e].at = "usage", ![e].erred = TRUE]
  /\ faults' = faults + 1
  /\ NoDatabase /\ UNCHANGED <<answer, tries>>

(* Every attempt's usage is recorded before its outcome is decided; a lost *)
(* lease converges on the record, a worker error leaves the lease to       *)
(* expire, a result is presented.                                          *)
RecordUsage(e) ==
  /\ exec[e].at = "usage"
  /\ \/ exec[e].lost /\ Leave(e, "converge")
     \/ ~exec[e].lost /\ exec[e].erred /\ Leave(e, "failed")
     \/ ~exec[e].lost /\ ~exec[e].erred /\ Goto(e, "present")
  /\ NoDatabase /\ NoAnswer

(* AcceptResult reads the register before it opens its transaction.        *)
ReadRegister(e) ==
  /\ exec[e].at = "present"
  /\ exec' = [exec EXCEPT ![e].at = "commit", ![e].seen = register]
  /\ NoDatabase /\ NoAnswer

Presentation(e, i) ==
  [id |-> i, task |-> TaskOf[e], epoch |-> exec[e].taskEpoch,
   leaseEpoch |-> attempt[i].leaseEpoch, output |-> exec[e].output]

Return(e, o) ==
  /\ Leave(e, "done")
  /\ answer' = [answer EXCEPT ![e] = o]
  /\ tries' = [tries EXCEPT ![e] = 0]
  /\ UNCHANGED faults

(* Mutant of PresentResult: a diagnosed refusal returns the worker's own   *)
(* output instead of converging on the record.                             *)
PresentResultUnconverged(e) ==
  /\ exec[e].at = "commit"
  /\ \E i \in exec[e].held, timely \in Timeliness :
       LET p == Presentation(e, i) IN
       (Accept(p, exec[e].seen, timely) \/ Diagnose(p, exec[e].seen, timely))
         /\ Return(e, exec[e].output)

(* Accepted or duplicate returns the output; a diagnosed refusal converges *)
(* on the record; no active attempt at all is an error without diagnostic. *)
PresentResult(e) ==
  /\ exec[e].at = "commit"
  /\ \E i \in exec[e].held, timely \in Timeliness :
       LET p == Presentation(e, i) IN
       \/ Accept(p, exec[e].seen, timely) /\ Return(e, exec[e].output)
       \/ Duplicate(p) /\ Return(e, exec[e].output)
       \/ /\ Diagnose(p, exec[e].seen, timely)
          /\ Leave(e, "converge")
          /\ NoAnswer
       \/ /\ Recorded(p.task) = {} /\ Active(p.task) = {}
          /\ Leave(e, "failed")
          /\ NoDatabase /\ NoAnswer

Converge(e) ==
  /\ exec[e].at = "converge"
  /\ Leave(e, IF task[TaskOf[e]].state = "completed" THEN "replay" ELSE "failed")
  /\ NoDatabase /\ NoAnswer

(* The accepted output, read back from the record.                         *)
Replay(e) ==
  /\ exec[e].at = "replay"
  /\ NoDatabase
  /\ \E r \in Recorded(TaskOf[e]) : Return(e, r.output)

(* The dispatch loop of the step: a failed attempt is repeated at once, up *)
(* to the bound of the envelope.                                           *)
Retry(e) ==
  /\ exec[e].at = "failed"
  /\ tries[e] + 1 < MaximumAttempts
  /\ exec' = [exec EXCEPT ![e] = Idle]
  /\ tries' = [tries EXCEPT ![e] = @ + 1]
  /\ NoDatabase /\ UNCHANGED <<answer, faults>>

(* The last attempt failed, or the step's context has ended: the error is  *)
(* returned, recorded as the step's outcome, and nothing asks again.       *)
GiveUp(e) ==
  /\ exec[e].at = "failed"
  /\ \/ tries[e] + 1 = MaximumAttempts /\ UNCHANGED faults
     \/ faults < MaxFaults /\ faults' = faults + 1
  /\ Leave(e, "gaveup")
  /\ tries' = [tries EXCEPT ![e] = 0]
  /\ NoDatabase /\ UNCHANGED answer

(* A process dies anywhere, even after the outcome was computed and before *)
(* the workflow recorded it.                                               *)
Crash(e) ==
  /\ exec[e].at # "idle"
  /\ faults < MaxFaults
  /\ faults' = faults + 1
  /\ exec' = [exec EXCEPT ![e] = Idle]
  /\ answer' = [answer EXCEPT ![e] = NoOutput]
  /\ tries' = [tries EXCEPT ![e] = 0]
  /\ NoDatabase

Step(e) ==
  \/ ReadEpoch(e) \/ CreateTask(e) \/ GetTask(e) \/ ReclaimTask(e) \/ LeaseTask(e)
  \/ Beat(e) \/ (\E o \in Outputs : WorkerReturns(e, o)) \/ RecordUsage(e)
  \/ ReadRegister(e) \/ PresentResult(e) \/ Converge(e) \/ Replay(e)
  \/ Retry(e) \/ GiveUp(e)

Faulty == \E e \in Executors : WorkerErrs(e) \/ Crash(e)

Passive == (Tick \/ Restore) /\ UNCHANGED execVars

ExecNext == (\E e \in Executors : Step(e)) \/ Faulty \/ Passive

ExecSpec == ExecInit /\ [][ExecNext]_allVars

-----------------------------------------------------------------------------
(* Scheduling.  Every call returns, every worker finishes, and a failed    *)
(* call is repeated or given up.  The renewal beats at a third of the      *)
(* lease, so time does not run a lease out under a live execution; the     *)
(* lease of a dead one does run out.                                       *)

Progress(e) ==
  \/ ReadEpoch(e) \/ CreateTask(e) \/ GetTask(e) \/ ReclaimTask(e) \/ LeaseTask(e)
  \/ (\E o \in Outputs : WorkerReturns(e, o)) \/ RecordUsage(e)
  \/ ReadRegister(e) \/ PresentResult(e) \/ Converge(e) \/ Replay(e)
  \/ Retry(e) \/ GiveUp(e)

HeldByLive(i) ==
  \E e \in Executors : /\ i \in exec[e].held
                       /\ exec[e].at \in {"run", "usage", "present", "commit"}
                       /\ ~exec[e].erred

TimelyTick ==
  /\ Tick
  /\ \A i \in AttemptIds :
       attempt[i].state = "active" /\ HeldByLive(i) => attempt[i].left - 1 > Skew
  /\ UNCHANGED execVars

LiveNext == (\E e \in Executors : Step(e)) \/ Faulty \/ TimelyTick

LiveSpec ==
  /\ ExecInit
  /\ [][LiveNext]_allVars
  /\ \A e \in Executors : WF_allVars(Progress(e))
  /\ WF_allVars(TimelyTick)

-----------------------------------------------------------------------------
(* Properties.                                                             *)

(* The scheduler's state and the executions' stay in their domains.        *)
ExecTypeOK ==
  /\ TypeOK
  /\ exec \in [Executors -> Local]
  /\ answer \in [Executors -> Outputs \cup {NoOutput}]
  /\ tries \in [Executors -> 0..(MaximumAttempts - 1)]
  /\ faults \in 0..MaxFaults

(* The worker never runs again for an invocation that has settled: no      *)
(* lease is handed out once a result is recorded, whoever asks.            *)
NeverRerunSettled ==
  [][\A e \in Executors :
       exec[e].at = "lease" /\ exec'[e].at = "run" => Recorded(TaskOf[e]) = {}]_allVars

(* All executions of one invocation answer with one output, the recorded   *)
(* one, whether they produced it, presented a duplicate, lost their lease  *)
(* or replayed it, and the record never changes: SettledOnce.              *)
Promise == INSTANCE SettledOnce WITH
  Invocations <- Tasks, Callers <- Executors, InvocationOf <- TaskOf, Unsettled <- NoOutput,
  settled <- [t \in Tasks |-> IF Recorded(t) = {} THEN NoOutput
                             ELSE (CHOOSE r \in Recorded(t) : TRUE).output]

SettlesOnce == Promise!Spec

(* What a caller may count on, the attempts of its step being bounded:     *)
(* every call is answered or given up; an execution that holds the lease   *)
(* under renewal is answered, whatever competitors and dead leases do,     *)
(* unless its worker errs or its process dies; and an attempt that starts  *)
(* once the invocation has settled is answered with what was settled.      *)
EveryCallConcludes ==
  /\ <>[](\A e \in Executors : answer[e] # NoOutput \/ exec[e].at = "gaveup")
  /\ \A e \in Executors :
       /\ (exec[e].at = "run") ~>
            (answer[e] # NoOutput \/ exec[e].erred \/ (exec[e] = Idle /\ tries[e] = 0))
       /\ (exec[e].at = "idle" /\ Recorded(TaskOf[e]) # {}) ~> (answer[e] # NoOutput)

=============================================================================
