---------------------------- MODULE BudgetLedger ----------------------------
(***************************************************************************)
(* The budget of one root run: the reservations of its generations in      *)
(* budget/postgres.Ledger, the controller that reserves, meters, settles   *)
(* and fences them (internal/budget), and its users: the workflow of every *)
(* generation (execution.Executor) and the cancellation of the run         *)
(* (internal/interrupts).  Every statement of the ledger is one            *)
(* transaction under a row or advisory lock; the callers read first and    *)
(* write later, and die in between.                                        *)
(*                                                                         *)
(* A hold's upper bound is what it takes from the root's headroom.         *)
(*                                                                         *)
(* Left out: child runs (ReserveChild counts the root's own hold against   *)
(* the root's limit and so admits no child beside it), discard, the commit *)
(* boundary (DomainCommit), exposure reports, identity drift of a replayed *)
(* reservation, and a second live execution of one workflow.               *)
(***************************************************************************)
EXTENDS Integers, FiniteSets, FiniteSetsExt

CONSTANTS
  MaxGeneration, \* generations of the run; every retry starts one
  MaxTurns,      \* turns of one workflow
  TurnCost,      \* what a billed turn costs
  Bound,         \* MaximumCostMicros of the run
  Cap,           \* MaximumReservedMicros of the root
  MaxCrashes     \* bound: deaths of a workflow's or the canceller's process

Gens == 1..MaxGeneration
Turns == 1..MaxTurns

ASSUME BudgetAssumption ==
  /\ MaxGeneration \in Nat \ {0} /\ MaxTurns \in Nat \ {0} /\ MaxCrashes \in Nat
  /\ TurnCost \in Nat \ {0} /\ Bound \in Nat /\ Cap \in Nat
  /\ TurnCost * MaxTurns <= Bound /\ Bound <= Cap

VARIABLES
  run,       \* status and generation of the aggregate
  hold,      \* the reservation row of each generation
  metered,   \* turns whose observation the ledger has recorded
  finals,    \* finality observations the ledger has recorded
  elapsed,   \* holds whose lifetime is over by the clock
  billed,    \* turns whose answer, and cost, the runner has committed
  inflight,  \* generations with a provider call that has no completion
  revoked,   \* generations whose call was revoked while it was open
  wf,        \* the workflow of each generation: recorded steps and the step in flight
  sweep,     \* usage each process has read of the holds it is settling
  canceller, \* the cancellation: how far it is, holds left to visit
  crashes

ledgerVars == <<hold, metered, finals>>
vars == <<run, hold, metered, finals, elapsed, billed, inflight, revoked, wf,
          sweep, canceller, crashes>>

Processes == 0..MaxGeneration
Canceller == 0                    \* the other processes are the workflows
None == -1                        \* a hold that is not being settled
NoSweep == [g \in Gens |-> None]

Unreserved == [reserved |-> FALSE, upper |-> 0, observed |-> 0, final |-> FALSE,
               released |-> FALSE, expired |-> FALSE, cancelled |-> FALSE]
Reserved == [Unreserved EXCEPT !.reserved = TRUE, !.upper = Bound]

Start(at) == [at |-> at, turn |-> 1, end |-> "none", seen |-> 0, release |-> FALSE, then |-> "none"]

Statuses == {"preparing", "running", "completed", "failed", "refused", "cancelling", "cancelled"}
Ends == {"completed", "failed", "refused"}
Steps == {"unstarted", "prepare", "check", "reserve", "ready", "turn", "gated", "open", "billed",
          "metered", "terminal", "settle", "finalize", "reread", "reconcile", "sweeping", "cancelled",
          "superseded", "ended"}

Init ==
  /\ run = [status |-> "preparing", generation |-> 1]
  /\ hold = [g \in Gens |-> Unreserved]
  /\ metered = [g \in Gens |-> {}] /\ finals = [g \in Gens |-> {}]
  /\ elapsed = {}
  /\ billed = [g \in Gens |-> {}] /\ inflight = {} /\ revoked = {}
  /\ wf = [g \in Gens |-> Start(IF g = 1 THEN "prepare" ELSE "unstarted")]
  /\ sweep = [p \in Processes |-> NoSweep]
  /\ canceller = [at |-> "idle", todo |-> {}]
  /\ crashes = 0

-----------------------------------------------------------------------------
(* The ledger.                                                             *)

Held(holds) == {g \in Gens : holds[g].reserved /\ ~holds[g].released}
Total(amount, gens) == MapThenSumSet(LAMBDA g : amount[g], gens)
Uppers(holds) == [g \in Gens |-> holds[g].upper]
Exposure(holds) == Total(Uppers(holds), Held(holds))

(* An elapsed hold loses its authority to dispatch and nothing else.       *)
FenceExpired(holds) ==
  [g \in Gens |-> IF g \in Held(holds) \cap elapsed
                  THEN [holds[g] EXCEPT !.expired = TRUE] ELSE holds[g]]

Fenced(h) == h.expired \/ h.cancelled \/ h.released

(* Mutant of Headroom: fenced holds are not counted.                       *)
HeadroomOfCurrent(holds) ==
  Total(Uppers(holds), {g \in Held(holds) : ~Fenced(holds[g])}) <= Cap - Bound

Headroom(holds) == Exposure(holds) <= Cap - Bound

(* Mutant of Recordable: a released hold is open to new usage.             *)
RecordableReleased(g, cost) == cost <= hold[g].upper - hold[g].observed \/ hold[g].released

(* An observation that was not recorded before, on a fenced hold too.      *)
Recordable(g, cost) == ~hold[g].released /\ cost <= hold[g].upper - hold[g].observed

(* Mutant of SettleOutcome: no comparison with the usage the caller read.  *)
SettleOutcomeBlind(g, cost, release) ==
  IF ~hold[g].final THEN "refused"
  ELSE IF hold[g] = [hold[g] EXCEPT !.observed = cost, !.upper = cost, !.released = release]
  THEN "stands"
  ELSE IF hold[g].released THEN "refused"
  ELSE "settled"

(* Settle, by a caller that read the usage cost and settles at it.         *)
SettleOutcome(g, cost, release) ==
  IF ~hold[g].final THEN "refused"
  ELSE IF hold[g] = [hold[g] EXCEPT !.observed = cost, !.upper = cost, !.released = release]
  THEN "stands"
  ELSE IF hold[g].released THEN "refused"
  ELSE IF hold[g].observed # cost THEN "conflict"
  ELSE "settled"

(* One settlement of process p.  A lost compare-and-set is answered with a *)
(* new read; the rounds are bounded above the usage a hold can still get.  *)
Settle(p, g, release) ==
  LET cost == sweep[p][g]
      outcome == SettleOutcome(g, cost, release)
  IN /\ hold' = IF outcome = "settled"
                THEN [hold EXCEPT ![g].observed = cost, ![g].upper = cost, ![g].released = release]
                ELSE hold
     /\ sweep' = [sweep EXCEPT ![p] = IF outcome = "refused" THEN NoSweep
                                      ELSE [@ EXCEPT ![g] = IF outcome = "conflict"
                                                            THEN hold[g].observed ELSE None]]
     /\ UNCHANGED <<metered, finals>>

BeginSweep(p, chosen) ==
  sweep' = [sweep EXCEPT ![p] = [g \in Gens |-> IF g \in chosen THEN hold[g].observed ELSE None]]

Sweeping(p) == {g \in Gens : sweep[p][g] # None}

(* Mutant of CancelledFinal: a hold the workflow made final is passed by.  *)
CancelledConcluded == {g \in Held(hold) : hold[g].cancelled /\ "cancellation" \in finals[g]}

CancelledFinal == {g \in Held(hold) : hold[g].cancelled /\ hold[g].final}
SupersededFinal ==
  {g \in Held(hold) : g < run.generation /\ hold[g].final /\ hold[g].upper # hold[g].observed}

-----------------------------------------------------------------------------
(* The workflow of a generation.                                           *)

(* Nothing of an ended workflow is read again.                             *)
Goto(g, at) ==
  wf' = [wf EXCEPT ![g] = IF at = "ended" THEN Start("ended") ELSE [@ EXCEPT !.at = at]]
End(g, end) == wf' = [wf EXCEPT ![g].at = "terminal", ![g].end = end]
OtherVars == <<elapsed, revoked, crashes>>
Local == UNCHANGED <<run, ledgerVars, billed, inflight, sweep, canceller, OtherVars>>

(* load: another generation, or a cancellation, supersedes the workflow.   *)
Superseded(g) == run.generation # g \/ run.status \in {"cancelling", "cancelled"}

(* Prepare; a replacement first settles the superseded holds.              *)
Prepare(g) ==
  /\ wf[g].at = "prepare"
  /\ Goto(g, IF Superseded(g) THEN "ended" ELSE IF g = 1 THEN "check" ELSE "superseded")
  /\ Local

(* A replacement needs its prior's hold open, if the prior ever reserved.  *)
CheckReserve(g) ==
  /\ wf[g].at = "check"
  /\ IF run.generation = g /\ (g = 1 \/ ~hold[g - 1].released)
     THEN Goto(g, "reserve") ELSE End(g, "refused")
  /\ Local

(* Ledger.Reserve: elapsed holds are fenced, a replay is answered unless   *)
(* its hold is fenced, a new hold needs headroom.  A refusal rolls back.   *)
Reserve(g) ==
  /\ wf[g].at = "reserve"
  /\ LET holds == FenceExpired(hold)
         granted == IF hold[g].reserved THEN ~Fenced(holds[g]) ELSE Headroom(holds)
     IN /\ hold' = IF ~granted THEN hold
                   ELSE IF hold[g].reserved THEN holds ELSE [holds EXCEPT ![g] = Reserved]
        /\ IF granted THEN Goto(g, "ready") ELSE End(g, "refused")
  /\ UNCHANGED <<run, metered, finals, billed, inflight, sweep, canceller, OtherVars>>

PreparationReady(g) ==
  /\ wf[g].at = "ready"
  /\ IF Superseded(g) THEN Goto(g, "ended") /\ UNCHANGED run
     ELSE Goto(g, "turn") /\ run' = [run EXCEPT !.status = "running"]
  /\ UNCHANGED <<ledgerVars, billed, inflight, sweep, canceller, OtherVars>>

(* ExecuteTurn up to Dispatch's reading of the hold.                       *)
Gate(g) ==
  /\ wf[g].at = "turn"
  /\ IF Superseded(g) THEN Goto(g, "ended")
     ELSE IF hold[g].reserved /\ ~Fenced(hold[g]) /\ g \notin elapsed THEN Goto(g, "gated")
     ELSE End(g, "failed")
  /\ Local

(* The runner answers a replayed turn from what it committed and opens a   *)
(* call otherwise.                                                         *)
RunTurn(g) ==
  /\ wf[g].at = "gated"
  /\ IF wf[g].turn \in billed[g] THEN Goto(g, "billed") /\ UNCHANGED inflight
     ELSE Goto(g, "open") /\ inflight' = inflight \cup {g}
  /\ revoked' = revoked \ {g}
  /\ UNCHANGED <<run, ledgerVars, billed, sweep, canceller, elapsed, crashes>>

(* The call completes.  An answer is committed, with what it cost, unless  *)
(* the attempt was revoked; else the turn fails without a cost.            *)
Answer(g) ==
  /\ wf[g].at = "open"
  /\ inflight' = inflight \ {g}
  /\ \/ g \notin revoked /\ Goto(g, "billed") /\ billed' = [billed EXCEPT ![g] = @ \cup {wf[g].turn}]
     \/ End(g, "failed") /\ UNCHANGED billed
  /\ UNCHANGED <<run, ledgerVars, sweep, canceller, OtherVars>>

(* Observe of a turn's cost.  Refused, it fails the turn.                  *)
Observe(g) ==
  /\ wf[g].at = "billed"
  /\ IF wf[g].turn \in metered[g] THEN Goto(g, "metered") /\ UNCHANGED <<hold, metered>>
     ELSE IF Recordable(g, TurnCost)
     THEN /\ Goto(g, "metered")
          /\ hold' = [hold EXCEPT ![g].observed = @ + TurnCost]
          /\ metered' = [metered EXCEPT ![g] = @ \cup {wf[g].turn}]
     ELSE End(g, "failed") /\ UNCHANGED <<hold, metered>>
  /\ UNCHANGED <<run, finals, billed, inflight, sweep, canceller, OtherVars>>

(* The turn is recorded: the workflow goes on, completes or fails.         *)
NextStep(g) ==
  /\ wf[g].at = "metered"
  /\ \/ wf[g].turn < MaxTurns /\ wf' = [wf EXCEPT ![g].at = "turn", ![g].turn = @ + 1]
     \/ End(g, "completed")
     \/ End(g, "failed")
  /\ Local

-----------------------------------------------------------------------------
(* The terminal step: the run's transition, then settleRunBudget.          *)

(* Mutant of Terminalize: a repeated step does not settle again.           *)
TerminalizeOnce(g) ==
  /\ wf[g].at = "terminal"
  /\ IF Superseded(g) \/ run.status = wf[g].end THEN Goto(g, "ended") /\ UNCHANGED run
     ELSE Goto(g, "settle") /\ run' = [run EXCEPT !.status = wf[g].end]
  /\ UNCHANGED <<ledgerVars, billed, inflight, sweep, canceller, OtherVars>>

(* A refusal that runs again finds a run it may no longer refuse, and      *)
(* takes it for superseded.                                                *)
Terminalize(g) ==
  /\ wf[g].at = "terminal"
  /\ IF Superseded(g) \/ run.status = "refused" THEN Goto(g, "ended") /\ UNCHANGED run
     ELSE Goto(g, "settle") /\ run' = [run EXCEPT !.status = wf[g].end]
  /\ UNCHANGED <<ledgerVars, billed, inflight, sweep, canceller, OtherVars>>

ReadHold(g) ==
  /\ wf[g].at = "settle"
  /\ Goto(g, IF ~hold[g].reserved THEN "ended"
             ELSE IF hold[g].released THEN "superseded" ELSE "finalize")
  /\ Local

(* A finality observation: recorded once, refused on a released hold.      *)
RecordFinal(g, identity) ==
  /\ identity \in finals[g] \/ Recordable(g, 0)
  /\ hold' = [hold EXCEPT ![g].final = TRUE]
  /\ finals' = [finals EXCEPT ![g] = @ \cup {identity}]
  /\ UNCHANGED metered

Finalize(g) ==
  /\ wf[g].at = "finalize"
  /\ IF "settlement" \in finals[g] \/ Recordable(g, 0)
     THEN RecordFinal(g, "settlement") /\ Goto(g, "reread")
     ELSE UNCHANGED ledgerVars /\ Goto(g, "ended")
  /\ UNCHANGED <<run, billed, inflight, sweep, canceller, OtherVars>>

Reread(g) ==
  /\ wf[g].at = "reread"
  /\ wf' = [wf EXCEPT ![g].at = "reconcile", ![g].seen = hold[g].observed]
  /\ Local

SweepThen(g, chosen, release, then) ==
  /\ wf' = [wf EXCEPT ![g].at = "sweeping", ![g].seen = 0, ![g].release = release, ![g].then = then]
  /\ BeginSweep(g, chosen)

(* Reconcile: the current generation settles at the usage it read, with    *)
(* the release its end grants; a superseded one on the superseded terms.   *)
Reconcile(g) ==
  /\ wf[g].at = "reconcile"
  /\ IF g < run.generation
     THEN IF wf[g].seen # hold[g].observed THEN Goto(g, "ended") /\ UNCHANGED sweep
          ELSE SweepThen(g, SupersededFinal \cap {g}, FALSE, "cancelled")
     ELSE IF wf[g].seen # hold[g].observed THEN Goto(g, "reread") /\ UNCHANGED sweep
          ELSE SweepThen(g, {g}, wf[g].end # "failed", "cancelled")
  /\ UNCHANGED <<run, ledgerVars, billed, inflight, canceller, OtherVars>>

RecoverCancelled(g) ==
  /\ wf[g].at = "cancelled"
  /\ SweepThen(g, CancelledFinal, TRUE, "superseded")
  /\ UNCHANGED <<run, ledgerVars, billed, inflight, canceller, OtherVars>>

(* The sweep of superseded holds, in Prepare and at the end.               *)
RecoverSuperseded(g) ==
  /\ wf[g].at = "superseded"
  /\ SweepThen(g, SupersededFinal, FALSE, IF wf[g].end = "none" THEN "check" ELSE "ended")
  /\ UNCHANGED <<run, ledgerVars, billed, inflight, canceller, OtherVars>>

(* One settlement of a workflow's sweep, or its end.  A refused settlement *)
(* refuses the preparation and ends a terminal step in error.              *)
SettleNext(g) ==
  /\ wf[g].at = "sweeping"
  /\ \/ /\ Sweeping(g) = {}
        /\ Goto(g, wf[g].then) /\ UNCHANGED <<ledgerVars, sweep>>
     \/ \E h \in Sweeping(g) :
          /\ Settle(g, h, wf[g].release)
          /\ IF SettleOutcome(h, sweep[g][h], wf[g].release) # "refused" THEN UNCHANGED wf
             ELSE IF wf[g].then = "check" THEN End(g, "refused") ELSE Goto(g, "ended")
  /\ UNCHANGED <<run, billed, inflight, canceller, OtherVars>>

-----------------------------------------------------------------------------
(* Cancellation: the handler, and after its failure the recovery sweep.    *)

CancelAt(at, todo) == canceller' = [at |-> at, todo |-> todo]
CancelLocal == UNCHANGED <<run, ledgerVars, billed, inflight, sweep, wf, OtherVars>>

RequestCancellation ==
  /\ canceller.at = "idle" /\ run.status \in {"preparing", "running"}
  /\ run' = [run EXCEPT !.status = "cancelling"]
  /\ CancelAt("revoke", {})
  /\ UNCHANGED <<ledgerVars, billed, inflight, sweep, wf, OtherVars>>

(* RevokeRun cancels the attempts that are open.  Only the handler does.   *)
RevokeRun ==
  /\ canceller.at = "revoke"
  /\ revoked' = revoked \cup inflight
  /\ CancelAt("list", {})
  /\ UNCHANGED <<run, ledgerVars, billed, inflight, sweep, wf, elapsed, crashes>>

ListHolds ==
  /\ canceller.at = "list"
  /\ CancelAt("fence", {g \in Held(hold) : ~hold[g].cancelled})
  /\ CancelLocal

FenceCancelled ==
  /\ canceller.at = "fence"
  /\ IF canceller.todo = {} THEN CancelAt("prove", {}) /\ UNCHANGED hold
     ELSE \E g \in canceller.todo :
       /\ hold' = IF hold[g].released THEN hold ELSE [hold EXCEPT ![g].cancelled = TRUE]
       /\ CancelAt("fence", canceller.todo \ {g})
  /\ UNCHANGED <<run, metered, finals, billed, inflight, sweep, wf, OtherVars>>

Unconcluded == {g \in Held(hold) : hold[g].cancelled /\ ~hold[g].final}

(* The reconciler, over the provider's records.  Unsettled, the run stays  *)
(* cancelling and the recovery sweep starts over; settled, the holds to    *)
(* conclude are listed.                                                    *)
Prove ==
  /\ canceller.at = "prove"
  /\ IF inflight # {} THEN CancelAt("list", {}) ELSE CancelAt("conclude", Unconcluded)
  /\ CancelLocal

(* ConcludeCancelledRun: finality for each listed hold, then the sweep of  *)
(* the cancelled ones.                                                     *)
Conclude ==
  /\ canceller.at = "conclude"
  /\ IF canceller.todo = {}
     THEN BeginSweep(Canceller, CancelledFinal) /\ CancelAt("release", {}) /\ UNCHANGED ledgerVars
     ELSE \E g \in canceller.todo :
       /\ IF "cancellation" \in finals[g] \/ Recordable(g, 0)
          THEN RecordFinal(g, "cancellation") /\ CancelAt("conclude", canceller.todo \ {g})
          ELSE UNCHANGED ledgerVars /\ CancelAt("list", {})
       /\ UNCHANGED sweep
  /\ UNCHANGED <<run, billed, inflight, wf, OtherVars>>

ReleaseNext ==
  /\ canceller.at = "release"
  /\ \/ /\ Sweeping(Canceller) = {}
        /\ CancelAt("finish", {}) /\ UNCHANGED <<ledgerVars, sweep>>
     \/ \E g \in Sweeping(Canceller) :
          /\ Settle(Canceller, g, TRUE)
          /\ IF SettleOutcome(g, sweep[Canceller][g], TRUE) = "refused"
             THEN CancelAt("list", {}) ELSE UNCHANGED canceller
  /\ UNCHANGED <<run, billed, inflight, wf, OtherVars>>

FinishCancellation ==
  /\ canceller.at = "finish"
  /\ run' = [run EXCEPT !.status = "cancelled"]
  /\ CancelAt("ended", {})
  /\ UNCHANGED <<ledgerVars, billed, inflight, sweep, wf, OtherVars>>

-----------------------------------------------------------------------------
(* An explicit retry advances the generation and starts its workflow.      *)
Retry ==
  /\ run.status = "failed" /\ run.generation < MaxGeneration
  /\ run' = [status |-> "preparing", generation |-> run.generation + 1]
  /\ wf' = [wf EXCEPT ![run.generation + 1] = Start("prepare")]
  /\ UNCHANGED <<ledgerVars, billed, inflight, sweep, canceller, OtherVars>>

(* A hold's lifetime ends; nobody asks after that of a released hold.      *)
Elapse(g) ==
  /\ g \in Held(hold) \ elapsed
  /\ elapsed' = elapsed \cup {g}
  /\ UNCHANGED <<run, ledgerVars, billed, inflight, sweep, canceller, wf, revoked, crashes>>

(* A workflow's process dies: the step in flight runs again from its       *)
(* start.  A provider call stays open until the step opens another.        *)
StepStart(w) ==
  IF w.at \in {"gated", "open", "billed", "metered"} THEN "turn"
  ELSE IF w.end # "none" THEN "terminal" ELSE "prepare"

Crash(g) ==
  /\ crashes < MaxCrashes /\ wf[g].at \notin {"unstarted", "prepare", "turn", "terminal", "ended"}
  /\ wf' = [wf EXCEPT ![g] = [Start(StepStart(@)) EXCEPT !.turn = wf[g].turn, !.end = wf[g].end]]
  /\ sweep' = [sweep EXCEPT ![g] = NoSweep]
  /\ crashes' = crashes + 1
  /\ UNCHANGED <<run, ledgerVars, elapsed, billed, inflight, revoked, canceller>>

(* The handler or the recovery sweep dies, and the next scan starts over.  *)
CancellerCrash ==
  /\ crashes < MaxCrashes /\ canceller.at \notin {"idle", "list", "ended"}
  /\ CancelAt("list", {})
  /\ sweep' = [sweep EXCEPT ![Canceller] = NoSweep]
  /\ crashes' = crashes + 1
  /\ UNCHANGED <<run, ledgerVars, elapsed, billed, inflight, revoked, wf>>

Workflow(g) ==
  \/ Prepare(g) \/ CheckReserve(g) \/ Reserve(g) \/ PreparationReady(g)
  \/ Gate(g) \/ RunTurn(g) \/ Answer(g) \/ Observe(g) \/ NextStep(g)
  \/ Terminalize(g) \/ ReadHold(g) \/ Finalize(g) \/ Reread(g) \/ Reconcile(g)
  \/ RecoverCancelled(g) \/ RecoverSuperseded(g) \/ SettleNext(g)

Cancellation ==
  \/ RevokeRun \/ ListHolds \/ FenceCancelled \/ Prove \/ Conclude \/ ReleaseNext \/ FinishCancellation

Next ==
  \/ \E g \in Gens : Workflow(g) \/ Elapse(g) \/ Crash(g)
  \/ Cancellation \/ RequestCancellation \/ CancellerCrash
  \/ Retry

Spec == Init /\ [][Next]_vars

(* The engine runs and recovers every workflow, calls return, and the      *)
(* recovery sweep comes back.  Nobody has to cancel or retry.              *)
Fairness ==
  /\ \A g \in Gens : WF_vars(Workflow(g))
  /\ WF_vars(Cancellation)

LiveSpec == Spec /\ Fairness

-----------------------------------------------------------------------------
TypeOK ==
  /\ run \in [status : Statuses, generation : Gens]
  /\ hold \in [Gens -> [reserved : BOOLEAN, upper : 0..Bound, observed : 0..Bound,
                        final : BOOLEAN, released : BOOLEAN, expired : BOOLEAN,
                        cancelled : BOOLEAN]]
  /\ metered \in [Gens -> SUBSET Turns] /\ billed \in [Gens -> SUBSET Turns]
  /\ finals \in [Gens -> SUBSET {"settlement", "cancellation"}]
  /\ elapsed \in SUBSET Gens /\ inflight \in SUBSET Gens /\ revoked \in SUBSET Gens
  /\ wf \in [Gens -> [at : Steps, turn : Turns, end : Ends \cup {"none"}, seen : 0..Bound,
                      release : BOOLEAN, then : {"none", "check", "cancelled", "superseded", "ended"}]]
  /\ sweep \in [Processes -> [Gens -> None..Bound]]
  /\ canceller \in [at : {"idle", "revoke", "list", "fence", "prove", "conclude", "release", "finish", "ended"},
                    todo : SUBSET Gens]
  /\ crashes \in 0..MaxCrashes

(* What a hold says was spent is the usage recorded for it, each turn once *)
(* and none overwritten, whoever settles it while usage is landing.        *)
LedgerBalances == \A g \in Gens : hold[g].observed = TurnCost * Cardinality(metered[g])

(* The run's holds never take more than the root's bound, whatever failed, *)
(* elapsed or was cancelled before.                                        *)
RunHoldsWithinCap == Exposure(hold) <= Cap

(* What the ledger has metered, over all generations and whatever became   *)
(* of their holds, never exceeds the root's bound: no fence, settlement or *)
(* retry makes room by forgetting what was spent.                          *)
MeteredWithinCap == Total([g \in Gens |-> hold[g].observed], Gens) <= Cap

(* The root's bound stands, for what is held and for what was spent.       *)
RootIsNotExceeded == RunHoldsWithinCap /\ MeteredWithinCap

(* A hold gains no authority and loses no usage: fences, finality and      *)
(* release are for ever, usage grows, the bound shrinks, and a released    *)
(* hold does not change.                                                   *)
Forward(before, after) ==
  /\ before.released => after = before
  /\ \A flag \in {"reserved", "final", "expired", "cancelled"} : before[flag] => after[flag]
  /\ before.observed <= after.observed
  /\ before.reserved => after.upper <= before.upper

LedgerMovesForward == [][\A g \in Gens : Forward(hold[g], hold'[g])]_vars

(* A run that completed gives its hold back, although the process may die  *)
(* anywhere between the transition and the settlement.  A refused run need *)
(* not: its repeated terminalization is taken for superseded and settles   *)
(* nothing, against executor.go:2625.  Nor need one whose settlement       *)
(* failed for want of the database, which is not modelled here: the engine *)
(* records the error and never repeats the step.                           *)
CompletedRunSettles == run.status = "completed" ~> run.generation \notin Held(hold)

(* A provider call whose process died before the completion was recorded.  *)
Lost == \E g \in inflight : wf[g].at # "open"

(* A cancellation concludes, with every hold it fenced released, unless a  *)
(* provider call never reports.                                            *)
CancelledRunConcludes ==
  (run.status = "cancelling") ~>
    (Lost \/ (run.status = "cancelled" /\ \A g \in Held(hold) : ~hold[g].cancelled))
=============================================================================
