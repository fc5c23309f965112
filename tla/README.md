# Verification of the AnvilKit agent service

TLA+ specifications of the protocols in this repository, the TLC
configurations that check them and the proofs that hold for every instance.
Paths are relative to `src/`.

## The system

A modular monolith in Go over PostgreSQL and the DBOS durable-workflow engine.
One process serves the API, runs the workflow of every agent run, leases work
to workers and talks to the authoritative domain owner. Several processes may
run at once, each may die at any point, and the database may be restored to an
earlier point in time.

| Component | State | Operations | Interaction | What makes it correct |
|---|---|---|---|---|
| Durable scheduler (`internal/scheduler/postgres/durable.go`) | task, attempt, result and diagnostic rows; mirrored recovery epoch, dispatch and intake gates | create, lease, heartbeat, reclaim, accept result | called by the tool executor; rotated by a restore | one holder per task, one accepted result, nothing stale accepted |
| Scheduled tool execution (`internal/execution/workerdispatch.go`) | local only | `Execute`, up to the attempts the envelope signs, once more after a crash | drives the scheduler, a worker and the usage meter | an invocation settles once and is answered with the record |
| Governed effect (`internal/execution/executor.go`, `internal/domaincommit`, `internal/execution/domainowner.go`) | run aggregate, submission journal, owner's redemptions, artifact, budget | commit, reconcile, escalate, resolve, terminalize | workflow step and operator command over the same rows; commands to the owner | no effect before the boundary, one decision, run = journal = owner |
| Agent workflow (`internal/workflow`) | recorded steps, durable waits | turns, waits, commit loop | calls the executor; signalled by the interrupt service | first recorded result wins, no lost wake, no unpaged run |
| Run aggregate (`internal/runs`, `internal/idempotency`, `internal/journal`) | state, version, event sequence, receipts | create, transition, reconstruct | compare-and-set by everybody | legal transitions only, gapless events, idempotent commands |
| Interrupts (`internal/interrupts`, `internal/cancellation`) | requests, responses, deadlines, cancellation intents | open, respond, expire, cancel, reconcile | API, workflow, children | one decision per request, cancellation always completes |
| Budget (`internal/budget`) | reservations, observations, settlements, generations | reserve, observe, reconcile, supersede, fence | executor and scheduler | reserved plus spent never above the cap, settled once |
| Artifact custody (`internal/artifacts`, `internal/securityaudit`) | metadata row, object, grants, protected decisions and outcomes | record, advance, hold, delete, expire, grant, use | executions advance, custodians hold and delete, the sweep finishes; every custody decision through the audit | held content survives, destruction is owned and finished, the audit tells the truth |
| Apply authorization (`internal/runapp/applyauthorization.go`, `internal/applyauth`, `internal/execution/applyauthority.go`) | command receipts, recorded issuances, journal facts, evidence | issue under a receipt, converge on the operation | API clients that repeat themselves; run, approval and authority re-read | one capability per command, each accounted for |
| Event streams (`internal/events`, `internal/events/spool`) | event log, cursors, record files on the volume | replay, stream, snapshot, record, spool, drain | SSE clients that reconnect; the reconciler | no gap, no frame after revocation, no disconnect lost silently |
| Queue (`internal/queue`) | outbox, inbox, dead letters | deliver, deduplicate, replay | at-least-once transport | no message lost or handled twice |
| Restore (`internal/recovery`) | external epoch register, stage evidence | 13 staged steps, rotation | stops and restarts everything | no work of the lost timeline accepted |
| Runtime dispatch (`internal/dispatch`, `internal/agent/runner`) | task, attempt, result and evidence rows | ensure, open, mark, close, commit, revoke | a workflow turn drives it and a runtime release answers; cancellation and the end of a run revoke | one current attempt, the newest settles within its lease, what is late only leaves evidence |
| Model gateway, lifecycle, authority, auth, API, … | see `PROJECT.json` | | | |

The behaviours that are hard to test are listed with their lines under
`hazards` in `PROJECT.json`.

## Modules

**DurableScheduler** models the Postgres scheduler with the recovery epoch.
`task`, `attempt`, `results`, `diagnostics` are the four tables;
`recovery` is the row with the mirrored epoch and the two gates; `register` is
the external recovery epoch. Every method of the store is one action, since it
is one transaction under row locks: `Create`, `Lease`, `Heartbeat`,
`ReclaimExpired`, `AcceptResult` (with `Accept`, `Diagnose`, `Duplicate`),
`Rotate`. Clocks of different instances differ by at most `Skew`: every
comparison with a lease picks its drift. `AcceptResult` reads the register
before its transaction, so the epoch it saw is a parameter.

**ToolExecution** extends it with the executor's calls, one action per call and
one local state per execution, with crashes, worker errors and restores between
any two. `Retry` is the bounded loop of `dispatch`, `GiveUp` its end: the error is
recorded as the step's result and nothing asks again. **SettledOnce** is the
promise: an invocation settles to one output and every caller is answered with it.
`SettlesOnce` is the refinement.

**DomainCommit** models one approved run from the accepted approval to the end
of its governed effect. `run` is the aggregate (status and version, moved by
compare-and-set), `journal` the write-ahead submission row under the database
trigger that guards its transitions, `effect` what the owner redeemed, `wire`
the commands on their way, `wf` what the engine recorded, `local` the state of
each execution of the workflow step and of each operator between two calls.
`Apply` is the executor's transition helper with its convergence rule;
`Finalizable` the trigger; `AfterCommit` the commit loop.

**InterruptWait** models one run that stops for people. `run` is the aggregate,
`request` the input or approval request of each turn, `wf` what the engine
recorded (where the workflow is, its turn and wake, the version it carries),
`step` the step in flight between its load of the run and its write, `expiry` the
idempotency row of the expiry transaction, `signals` and `delivered` the engine's
topics and seen keys, `call` each API call between reading the clock, writing,
acknowledging in the authority journal and signalling. The workflow's steps are
those of `AgentRunWorkflow` with the executor's operations: a step loads the run,
writes and returns, and a crash in between runs it again. Every step may also end
the run: `Decide` by a refusal, a halt, a failing action or a question outside
planning, `Finalize` by a rejected candidate, `StepFails` by an error or by stale
authority, `WaitAgain` by its wake budget; `WorkflowErrs` is the error that ends
the workflow itself. `Terminalize`, `SettleBudget` and `ReturnEnded` are the
terminal step, `budget` what it has done with the hold. `Accept` is `AcceptInput`
and `DecideApproval`; cancellation and discard take the run at any point.
`RequestsSettleOnce` refines **SettledOnce** a second time, with requests for
invocations and API calls for callers.

**BudgetLedger** models the budget of one root run. `hold` is the reservation
row of each generation, `metered` and `finals` the observations recorded for
it; `FenceExpired`, `Reserve`, `Observe`, `RecordFinal`, `Settle` and
`FenceCancelled` are the statements of the Postgres ledger, one transaction
each. `wf` is the workflow of each generation as far as money goes: prepare and
reserve, dispatch gate, provider call, observation, terminal transition,
settlement and the two recovery sweeps, with a step between any two calls.
`canceller` is the cancellation, `Cancel` first and the recovery sweep after it;
`billed`, `inflight` and `revoked` are what the runner committed, what the
provider has not answered, and what was revoked while it was open. `sweep` is
the usage each process read of the holds it settles, which its compare-and-set
rests on.

**ArtifactCustody** models the life of one artifact. `record` is the metadata row
with its version, hold and deletion claim, `object` the bytes, `grant` each
reader's grant with its audited row, `audit` the terms and outcome of each
decision (an action at a version), `task` where each process is in its
operation, with what it read of the row. `Lookup`, `Put` and `Create` are the three
calls of `Create` under `RecordCandidate`, between any two of which other executions
and custody go on; `object` tells bytes put back after an erasure (`restored`) from
those of the first writing; `Load`, `Withdraw`, `Move` a `Transition`; `AskHold` and
`AskDelete` the custody commands, which share `Authorize` and `RecordOutcome`
with the sweep; `Claim`, `Revoke`, `Erase`, `Tombstone` the steps of `destroy`;
`Adopt` is `ResumeMutation` under the decision the claim names.

**CommandReceipts** models the two-phase receipt of an idempotent command:
`Claim`, `Replay` and `TakeOver` are the outcomes of `Begin`, then `Record` or
`Abandon`, fenced by the claim's epoch. The command is left open.
**ApplyIssuance** extends it with the one that issues a capability, a step per
call: check, look up, resolve and sign, audit, journal, account, record. A token
is its identity, and the run, approval, artifact and authority are one fact,
whether the decision `standing` behind a command holds. Both implement
**SettledOnce**: keys settle on outcomes, commands on capabilities.

**EventStream** models one run's public events and one client. `log` and `aged`
are the newest event and the newest beyond retention; `stream` is each connection
as the service sees it, with the frames flushed to it and not read (`wire`);
`stored` the connections with a cursor record, `spool` the record files, oldest
first, `sweep` the records left of the reconciler's pass over them, `lost` what
was reported lost. `Replay` to `HangUp` is `Serve`, `RecordCursor` to
`SpoolRefused` is `recordCursor` with `SpoolCursor`, `BeginSweep` to `Release` is
`Drain`. A record is never changed on its way, so only the connection it belongs
to is kept of it.

**RuntimeDispatch** models the turns of one run and the runtime executions they
cost. `task`, `attempt`, `result` and `evidence` are the four tables of migration
0030, an attempt's number standing for its lease epoch and its statement too;
`turn` is what each process knows of the turn it runs, `stopped` that the run is
cancelled or ended. `EnsureTask`, `OpenAttempt`, `MarkDispatched`, `CloseAttempt`,
`RevokeLeases` and the three outcomes of `Commit` (`Commit`, `CommitFailure`,
`RecordEvidence`) are the repository's transactions, `Evaluate` its predicate;
`Replay`, `Unanswered`, `GiveUp`, `Unattributable` are the branches of `Turn`. A
turn re-executed while its first process lives is two turns of one task.
`TurnsSettleOnce` refines **SettledOnce**, tasks for invocations and turns for
callers.

A module `XProofs` holds the theorems about `X`; every component module has one
(`ToolExecutionProofs` also holds those about `DurableScheduler`,
`ApplyIssuanceProofs` those about `CommandReceipts`). The `MC*` modules only give
model values and symmetries.

## What is checked

| Run | Shows | Bounds |
|---|---|---|
| `tool_execution` | leases have one owner and never come back, acceptance is fenced and final; an invocation settles once, is never rerun, all callers agree | 2 executions of 1 try, 2 attempts, 1 restore, 2 faults, clock error 1 |
| `tool_liveness` | every call ends, a renewed lease or a settled invocation with the answer | 2 executions, 2 tries each, 4 attempts, no restore, 2 faults, renewal on time |
| `domain_commit` | no effect before the boundary; run, journal, artifact and owner agree | 2 executions, 1 crash, 1 failing call; window 1, hold 3, guard 4: the loop sends, counts, escalates, holds and releases |
| `domain_operators` | one decision, told truthfully; decisions final; a run at the boundary is settled or paged, a paged run is settled | 1 execution, 2 operators, window 2, hold 2, guard 4, 1 crash |
| `interrupt_wait` | run, request and workflow stay in step over steps that fail, a request settles once, an ended run was ended by its workflow or a deadline, what another authority took stays taken, waits end | 2 turns, 2 callers for the first request, 1 crash, 2 wakes; the second turn's request is left to the deadline |
| `budget_ledger` | usage is neither lost nor counted twice, what is held and what was metered stay under the cap, holds only lose authority, completed and cancelled runs give their holds back | 2 generations of 2 turns, cap for one bound and one settled turn, 1 crash, elapsing at any time: a retry is granted or denied by what the first generation spent |
| `artifact_custody` | held content survives, destruction is owned, audited truthfully and finished, nothing is read after it | 2 commands in flight, whose processes also run the 2 executions that create and advance the artifact, and one of them the sweep; 1 reader, 1 fault, 2 moves |
| `apply_issuance` | one capability per command, answered only with its account; a late holder decides nothing; the command keeps the receipt protocol | 2 repetitions, 1 other key, 1 other command under the same key; 3 claim epochs, 3 tokens, 1 fault |
| `event_stream` | delivery in order, revocation stops the stream, disconnects accounted for and placed, the volume within its capacity | 3 events in pages of 2, 2 connections after 1 of the previous process, room for 2 records, 1 fault |
| `runtime_dispatch` | one current attempt, the newest settles in its lease, evidence stays true, no attempt is forgotten, what ended stays, every run of a turn gets the one registered result | 2 processes on one turn, 2 attempts each, 4 numbers, lease 1, retry budget 1, 3 instants, 1 fault |
| `late_answer`, `repeated_issuance` | each shows where a comment says more than the code does; see Findings | the smallest instance with the behaviour |

More tasks add independent copies, since no action touches two of them. Two
attempts let one be late beside its successor; the proofs cover any number. Two
executions and one crash reach every pair of interleaved calls; a second crash
only repeats a restart. Two executions of an artifact are what it takes for one to
write what the other recorded and custody destroyed. The commit loop's counts
matter only relative to each other (window, hold, guard), and `CommitAssumption`
is the relation the configuration enforces. Two callers are the least that race; a
caller answers one request, and its lateness for the first while the second is
open is within the bounds. A lost signal and a restarted workflow are one fault
each and meet at the deadline only; a wait that spends its wakes fails the run,
which the two wakes of the run do not reach and the proofs, for any number, do. A
third generation only repeats what the second meets; the cap lets the second in
beside one settled turn and not beside two or beside an unsettled first. Two
custody commands, one of them the sweep's neighbour, are every pair of processes
that meet at one version; two moves are a hold or an advance before the claim, and
the states behind `scanning` differ from it only in the purposes they admit. Three
claim epochs are a claim, its takeover and the claim after an abandon. Three
events in pages of two are a full page and a rest, which is where authority can go
and a write can fail between two events; an inherited record, one of the run and
no room for a third make the volume full, and one unreadable record stands before
another. One refusal lets a sweep go on; two, which end it, are beyond the run's
one fault (the safety theorems cover them). Two processes on one turn replace each
other's attempts, and a third would only replace again; three instants put an
observation, a commit and a replacement before, at and after a deadline.

Properties come with a mutant each: a change to a definition that a plausible
bug would make and that the property's run refutes.

### Fairness

`ToolExecution!LiveSpec`: every call returns, a failed attempt is repeated as
often as the envelope signs and then given up (`executor.go:2667`), a step whose
process died is invoked again, the worker ends, and time passes without running a
lease out under a live execution (the renewal beats at a third of the lease).
Nothing makes a worker succeed.
`DomainCommit!LiveSpec`: every call returns or times out, the engine runs an
unfinished workflow again after a crash, a paged operator keeps answering. Nothing
makes a command arrive at the owner. Liveness excludes failing calls, since one
such call releases the run unsettled (see below).
`InterruptWait!LiveSpec`: the engine runs and recovers the workflow (`Advance`)
and deadlines pass. Only a crash repeats a step: an error is recorded and ends the
wait too (`workflow.go:984`), but no error is owed to a step that could have gone
on, so that no wait counts on one; an expiry barred by its key or by the run's
version can only err (`ExpiryBarred`). Callers and operators owe nothing.
`BudgetLedger!LiveSpec`: workflows are run and recovered, provider calls of a live
process return, the recovery sweep comes back. A call whose process died may stay
open for ever (`Lost`), and then the cancellation stays open with it. Nobody has
to retry, cancel or let a hold elapse.
`ArtifactCustody!LiveSpec`: calls of a live process return, and the sweep, a timer
in every instance, comes back even beside other work (strong fairness, since a
claimed record is looked at only when its process is free). Nobody has to ask.
`EventStream!LiveSpec`: the reconciler sweeps at start and on its interval.
Neither client, store, run nor clock owes anything; faults are finite.

`CHECK_DEADLOCK FALSE` is set for `DomainCommit`, `InterruptWait`,
`BudgetLedger`, `ArtifactCustody`, `ApplyIssuance`, `EventStream` and
`RuntimeDispatch`: their protocols end, or their clocks and identities are bounded.

## What is proved

Each theorem holds for every value of the constants that the `...Assumption` of
its module admits: they say that bounds and durations are numbers, that `None`
is none of the values it is compared with, and, where the code's configuration
enforces one, the relation between two of them. The bounds that keep TLC finite
are arbitrary numbers here. Per component the argument is an inductive
invariant, a lemma per action that keeps it, and theorems that follow from it.
The invariants add to the checked properties what they rest on, which is the
part worth reading. Type correctness is proved for every component
(`TypeCorrect` and its namesakes below) and therefore not repeated in the runs:

**ToolExecutionProofs**, first on the scheduler (`TypeCorrect`, `ExclusiveLease`,
`DistinctLeaseEpochs`, `SingleResult`, `NoRevival`, `FencedAcceptance`): lease
epochs of issued attempts never exceed their task's, active attempts carry the
current lease and the adopted recovery epoch, accepted rows belong to accepted
attempts. Then on the executor (`ExecTypeCorrect`, `ExecutorDrivesScheduler`,
`SettledNeverRuns`, `InvocationSettlesOnce`): every epoch in a row was the
register's once, and what a call in flight carries was read from a row. So every
step of the executor is a step of the scheduler or leaves it alone, the
scheduler's theorems hold of the composition, and it implements `SettledOnce`.

**DomainCommitProofs** (`TypeCorrect`, `WrittenAhead`, `OneStory`,
`OperatorsToldTruly`, `DecidedOnce`): the version tells where a run is; whatever
is in the journal or at the owner has the boundary behind it; a snapshot an actor
carries is a state the run is in or has left, so a late write misses its version;
an operator past his decision is named by a journal that says the same.

**InterruptWaitProofs** (`TypeCorrect`, `RunFollows`, `TakenStays`,
`RequestsSettle`): where the workflow stands decides what run and request of its
turn may be (`Placed`, `Faces`, `Waits`), for a step that runs again after its
transaction too; a run that ended was ended at a place where the workflow
concludes or by an expired request (`Cause`); a step that has written left its
mark on the run or lost it to a cancellation (`Snapshot`); a version the workflow
carries, or a snapshot its step took, tells the truth for as long as it is current
and binds nothing afterwards (`Carried`, `Snapshot`); a caller past its decision
is the one whose answer the row has. Requests implement `SettledOnce`.

**BudgetLedgerProofs** (`TypeCorrect`, `UsageIsExact`, `CapStands`,
`RowsMoveForward`). What is held is under the cap, and so is what may still come
to be spent: a generation owes its bound while it is in its turns and what it has
metered otherwise (`Promised`); a released hold means a run that no retry will
start again (`RunInv`), without which releasing a bound would make room for
spending it. The sums are folds over finite sets; what the proofs need of them
is shown by taking a smallest counterexample, since induction theorems that take
an operator are out of reach.

**ArtifactCustodyProofs** (`TypeCorrect`, `HoldsProtect`, `DestructionHasOwner`,
`AuditToldTruly`, `NoLateAccess`): a claim is a recorded decision taken on an
unheld row; bytes that a late execution puts back stay bytes of an erased
artifact; an audit outcome is what became of the decision (`Verdict`); what a
process saw is the row for as long as the version stands. Each step keeps the rows
and its own process; what the others rely on survives any row that only moves on
(`Onward`).

**ApplyIssuanceProofs**, first on receipts (`ReceiptTypes`, `ExclusiveClaim`,
`HoldersDecide`, `OutcomesStand`, `ReceiptsImplementSettledOnce`): answers are
the recorded outcomes, a claim under the row's own epoch finds none recorded, a
row nobody claimed is empty. The fence of `Record` is decided by the epoch
alone: a late holder's is below the row's. Then on the issuance
(`IssuanceTypeCorrect`, `AnswersAreAccounted`, `IssuesOneCapability`):
`IssuanceKeepsReceipts` gives it every theorem about receipts; from its audit or
lookup on a caller carries the issuance recorded for its own command, from its
account on with evidence, and recorded outcomes are issuances of the command of
their row. This ties receipts, which know keys, to operations, which know
commands: a key is bound to one command at its first claim.

**EventStreamProofs** (`TypeCorrect`, `InOrder`, `RevocationStops`,
`DisconnectsStay`): what is under way on the client's connection continues what it
has, up to the stream's cursor or one unconfirmed frame past it (`Continues`); the
record of a disconnect names what was flushed, but for one unconfirmed frame, and
nothing beyond; after withdrawal each place of a stream has a number of frames it
may have written (`Allowed`); a closed connection is in the store, on the volume
or lost, and the volume never holds more than its capacity
(`DisconnectsAccounted`); a sweep only knows files of the volume, and removes the
one that is stored.

**RuntimeDispatchProofs** (`DispatchTypes`, `NewestAttemptOnly`,
`NewestAttemptSettles`, `EvidenceStaysTrue`, `NoAttemptForgotten`, `ClosedForEver`,
`TurnSettlesOnce`): attempts are numbered without gaps, the open one is the
newest and has its task's deadline, and a task without attempts has no row yet
(`TaskOK`); no two turns hold one attempt, and none holds the registered one
(`HeldByOne`), so a turn past its dispatch presents a result of its own; what
evidence cites is closed, and what is closed never changes (`Kept`), which is why
evidence stays true. Each step is examined once for the rows and once for the
turn that took it.

Only model-checked: the liveness properties (`EveryCallConcludes`,
`BoundaryIsWatched`, `EscalationIsSettled`, `WaitsEnd`, `CompletedRunSettles`,
`CancelledRunConcludes`, `ClaimedIsDestroyed`, `HeldRecordsArePlaced`), since
fairness needs ENABLED and this prover does not reach it.

## Findings

1. `late_answer`: the owner's answer after escalation cannot settle the run in
   production; the trigger of migration 0016 demands an operator, the failed
   write ends the workflow in error. The in-memory journal allows the write, so
   tests over it pass.
2. `repeated_issuance`: a repetition of an issuance under another key, or after a
   crash between its evidence and its receipt, finds the capability and is
   refused, because its evidence states the time of the repetition.

Seen in the source, reached by the models and not kept as runs:

- A tool step invoked again after its process died meets the lease its first
  invocation took. Unless that runs out within the attempts the envelope signs, made
  at once, the step records the refusal and the run fails
  (`execution/workerdispatch.go:192` against `workflow/workflow.go:111`, "operations
  must be idempotent for one OpID"). `EveryCallConcludes` promises no more.
- When the process dies between the transition to refused and its settlement, the
  repeated step takes the refused run for a failure it cannot record, answers
  superseded and never releases the hold (`execution/executor.go:2594`, against line
  2625). Hence `CompletedRunSettles` speaks of completed runs.
- An execution that looked an artifact up before another recorded it can put the
  bytes back after custody erased them, and the tombstone lands over them or before
  them (`artifacts/artifacts.go:537`, against line 246). No grant reaches them
  (`NoAccessAfterErasure`), and no sweep looks at them.
- A frame flushed to a connection whose client has left counts as received in the
  record of the disconnect (`events/sse.go:143`: "always what the client actually
  received"). `DisconnectsAccounted` counts what lies unread on the connection.
- A terminalization that loses to an accepted answer leaves the answered run with a
  superseded workflow; a settlement that fails after the transition is not repeated,
  since the error is the step's result.

Further:

- A preparation that reserves after a cancellation listed the run's holds leaves
  one that is neither fenced nor settled nor released (`execution/executor.go:678`
  against `budget/budget.go:600`; the comment at `interrupts/service.go:295` rules
  out "a stranded hold behind a terminal run nothing comes back to").
- A turn already past its look at the run opens its task after the one revocation of
  a cancellation: it is neither refused nor revoked, and if its process dies the
  reconciler waits for it. Nothing ends an attempt at its deadline by itself, though
  one "nobody can hear from stops being current after it"
  (`dispatch/coordinator.go:122`).
- A late result of an attempt that outlived its lease can expire the task under its
  current attempt, whose own result is then refused
  (`dispatch/postgres/repository.go:619`).
- When issuing the credential, offering the context or settling fails, the turn
  ends and its attempt stays current until the run ends (`agent/runner/runner.go:378`).
- One failing call at the boundary ends the workflow with the run unsettled and
  unescalated, and no successor takes it over (`workflow/workflow.go:813`, against
  the comment at line 802).
- An answer accepted between the expiry's load of the run and its transaction is a
  version conflict before the expiry looks at the request; the answered run has no
  driver (`idempotency/store.go:109`, against `execution/executor.go:1290`).
- A turn whose answer is committed and not metered when its process dies is
  stopped by the dispatch gate if its hold has elapsed, and its cost is never
  counted (`execution/executor.go:748`, against line 769).
- Every sweep opens a new trace, which is part of a decision's terms, so an expiry
  interrupted between its authorization and its change conflicts with itself for
  ever (`artifacts/artifacts.go:939`, against `securityaudit/audit.go:82`). A
  custodian who repeats under another trace meets the same.
- The orphan path expires a record under legal hold (`artifacts/artifacts.go:979`),
  and a crash between tombstone and outcome leaves the decision open, since
  nothing looks at a deleted record again.
- `SetLegalHold` at a moved version can close as a conflict although an earlier
  attempt of the same decision applied it, once another change followed.
- A process that dies between `PutOnce` and the record leaves an object nothing
  names (`artifacts/artifacts.go:537`).
- A snapshot of a run idle for longer than the retention answers with a cursor
  that the replay refuses as expired (`events/postgres/replay.go:78`).
- Any error of a revalidation, a cancelled request included, is recorded as
  "authority-revoked" (`events/sse.go:189`).
- `MaximumConnections` never limits, since each request builds its own stream
  (`runapp/app.go:306`).
- One provisional frame may follow withdrawn authority, since it is not cleared on
  its own (`events/sse.go:244`); `RevokedStreamStops` allows for it.
- A record whose file is placed and whose directory flush fails is reported as lost
  and is on the volume (`events/spool/spool.go:173`).
- A crash between the issuance's audit and its journal fact leaves the fact
  unwritten, since the repetition finds the issuance (`applyauth/applyauth.go:226`).
- An operator's repetition after a crash does not settle the budget
  (`execution/executor.go:2464`, as does `Commit` for a run already failed).
- A submission repeated after the token's expiry is rejected although the first
  was redeemed (`execution/domainowner.go:88`).
- A rejection between `ReadApproval`'s two reads leaves the workflow the old
  version; it exits superseded over a run in review (`execution/executor.go:1268`).
- The expiry step, run again after a crash, meets its own key under another
  version and ends in error with the budget held (`execution/executor.go:1318`).
- A result whose task has no active attempt is refused without the diagnostic
  promised for "every non-current result" (`scheduler/postgres/durable.go:423`).
- `RecordCancellation` can overwrite the reconciled stamp of the recovery sweep
  (`interrupts/postgres/store.go:404`).
- An approval is recorded on a run that is already cancelling, since
  `DecideApproval` moves, and looks at, no state when it approves.
- A cancellation may release a hold between the provider's answer and its
  observation, which is then refused (`budget/budget.go:687`).
- A generation whose process dies after the run failed and before the settlement,
  and whose run is retried, is never final: its worst case stays held.
- `ReserveChild` counts the root's own standing hold, so an executing root whose
  bound is its cap admits no child.
- Nothing inserts `executor_leases`, so the reconciler's tool check is always
  clear (`cancellation/reconciler.go:165`).
- A failed delegation turn is not metered (`execution/executor.go:1113`).

## Plan

1. Durable scheduler and tool execution. *Done, proved.*
2. Governed domain effect. *Done, proved.*
3. Interrupts and the workflow's waits. *Done, proved.* Cancellation over a
   hierarchy and children; its evidence row.
4. Budget ledger with supersession, fences and the cancellation of one run.
   *Done, proved.* Child reservations and discard.
5. Artifact custody with the protected audit. *Done, proved.*
6. Command receipts and the issuance of apply authorizations. *Done, proved.*
   Operator commands and rotation of signing keys.
7. Event streams and the disconnect spool. *Done, proved.* Outbox, inbox, dead
   letters.
8. Runtime dispatch: tasks, attempts, the fenced commit. *Done, proved.* The
   callbacks of a running attempt.
9. Run service: creation, event sequence, retry generations.
10. Restore orchestration over the scheduler with a real rollback; in-memory
   scheduler's dead letters, model gateway custody, lifecycle.

Abstract specifications worth stating: settled once (done), exactly-once
handling for the queue, a bank-like ledger for the budget, an append-only log
for events. Theorems worth proving next: child
reservations under a parent's cap, the event sequence of a run over its retry
generations, the scheduler's exclusion under a real rollback, each with its
component. A component gets one run for its safety and liveness together where
its state space allows, and a finding's run gives way where a component needs
one.

## Not modelled

Configuration, transport, encoding, schema validation, prompts, providers and
the release tools keep no protocol state; `PROJECT.json` lists each with its
reason. Within the models: evidence appends (idempotent; their failure is that
of a neighbouring call), logging, and operator denials that change nothing. In
`InterruptWait` retry generations, outcomes of child runs, and runs without a
governed effect.
In `BudgetLedger` child reservations, discard, exposure reports, the engine's
stop of a cancelled workflow (which may or may not reach a step in flight), and
a second live execution of one workflow.
In `ArtifactCustody` the checks that refuse a caller before anything is written,
the journal receipt after an outcome, and the audit's hash chain. In
`ApplyIssuance` signing and key custody, and receipts that expire. In
`EventStream` the contents of events, the reason of a disconnect, corruption of
the store, and the outbox. In `RuntimeDispatch` the comparison of the predicate's
fields with the record (a turn presents those of the attempt it opened), the same
statement presented twice, a runtime's callbacks, delegate turns, and the in-memory
repository, which shares `Evaluate`. About two fifths of the implementation's lines are
generated contracts and clients, wiring and configuration, which keep no state to
model.
