---------------------------- MODULE DomainCommit ----------------------------
(***************************************************************************)
(* The governed domain effect of one approved run: Executor.Commit,        *)
(* Terminalize and ResolveEscalation (internal/execution/executor.go)      *)
(* driven by the commit loop of the workflow (internal/workflow) and by    *)
(* operators, over the run aggregate, the submission journal in Postgres   *)
(* and the domain owner that verifies and redeems the authorization.       *)
(*                                                                         *)
(* One action is one call to a store, to the current authority or to the   *)
(* owner.  The engine records the first result of a step and drops the     *)
(* later ones; a crash loses an execution's local state only.              *)
(*                                                                         *)
(* Left out: evidence appends (idempotent by identity; their failure is    *)
(* that of the call next to them), lease revocation after a stop, and the  *)
(* denials of an operator without authority, which change nothing.         *)
(***************************************************************************)
EXTENDS Integers

CONSTANTS
  Executions,         \* executions of the run's workflow, alive or recovered
  Operators,          \* operators admitted by current authority
  ReconcileLimit,     \* uncertain reconciliations before escalation
  HoldWakes,          \* commitHoldWakes
  MaximumCommitWakes, \* the spin guard
  MaxCrashes,         \* bound: process deaths
  MaxErrors           \* bound: calls that fail

ASSUME CommitAssumption ==
  /\ Executions \cap Operators = {}
  /\ {ReconcileLimit, HoldWakes, MaximumCommitWakes} \subseteq Nat \ {0}
  /\ ReconcileLimit <= MaximumCommitWakes \div 2
  /\ {MaxCrashes, MaxErrors} \subseteq Nat

VARIABLES
  run,       \* the aggregate: status and version
  journal,   \* the submission row: status, attempts, who resolved it
  permitted, \* current authority (and the approval) still permit the run
  expired,   \* the authorization's validity interval is over
  wire,      \* executions whose command is on its way to the owner
  effect,    \* the outcome the owner redeemed, if any
  artifact,  \* the candidate artifact is committed
  budget,    \* the run's reservation
  wf,        \* what the engine recorded of the workflow
  local,     \* local state of executions and operators
  answer,    \* what an operator was told
  crashes, errors

runVars == <<run, artifact, budget>>
ownerVars == <<permitted, expired, wire, effect>>
faultVars == <<crashes, errors>>
vars == <<run, journal, permitted, expired, wire, effect, artifact, budget, wf, local,
          answer, crashes, errors>>

Actors == Executions \cup Operators

Outcomes == {"confirmed", "conflict", "rejected"}
SubmissionStatusOf == [confirmed |-> "applied", conflict |-> "conflict", rejected |-> "rejected"]
RunStateOf == [confirmed |-> "completed", conflict |-> "conflict", rejected |-> "failed"]
Decided == {SubmissionStatusOf[o] : o \in Outcomes}
DomainOutcomeOf(status) == CHOOSE o \in Outcomes : SubmissionStatusOf[o] = status

\* "stopped" stands for a halt and for a typed denial of the gate.
Results == {"none", "completed", "conflict", "failed", "superseded", "stopped", "error",
            "refused", "unsettled", "escalated"}

Ended == {"completed", "conflict", "failed", "superseded", "unresolved", "errored"}

Locations == {"idle", "gate", "issue", "approve", "recheck", "record", "begin", "mark",
              "send", "sent", "journal", "ask", "count", "escalate", "finalize", "artifact",
              "settle", "fail", "budget", "read", "resolve", "return"}

RunStates == [status : {"awaiting_approval", "committing", "awaiting_domain_confirmation",
                        "completed", "conflict", "failed", "cancelling"}, version : 0..4]

Reviewed == [status |-> "awaiting_approval", version |-> 0]

Idle == [at |-> "idle", stage |-> "commit", wake |-> 0, snapshot |-> Reviewed,
         reply |-> "none", held |-> "none", result |-> "none"]

Init ==
  /\ run = Reviewed
  /\ journal = [status |-> "none", attempts |-> 0, resolvedBy |-> {}]
  /\ permitted = TRUE /\ expired = FALSE
  /\ wire = {} /\ effect = "none"
  /\ artifact = FALSE /\ budget = "held"
  /\ wf = [stage |-> "commit", wake |-> 0]
  /\ local = [a \in Actors |-> Idle]
  /\ answer = [o \in Operators |-> "none"]
  /\ crashes = 0 /\ errors = 0

-----------------------------------------------------------------------------
Goto(a, location) == local' = [local EXCEPT ![a].at = location]

\* What a returned call no longer needs is forgotten.
Finish(a, result) ==
  local' = [local EXCEPT ![a] = [@ EXCEPT !.at = "return", !.result = result,
                                          !.snapshot = Reviewed, !.held = "none"]]

Only(a) == UNCHANGED <<ownerVars, wf, answer, faultVars>>

(* load: another authority owns a cancelling run.                          *)
Begin(x, stage, location, result) ==
  /\ local[x].at = "idle" /\ wf.stage = stage
  /\ local' = [local EXCEPT ![x] =
       [Idle EXCEPT !.at = IF run.status = "cancelling" THEN "return" ELSE location,
                    !.stage = stage, !.wake = wf.wake, !.snapshot = run,
                    !.result = IF run.status = "cancelling" THEN "superseded" ELSE result]]
  /\ UNCHANGED <<runVars, journal>> /\ Only(x)

LoadCommit(x) ==
  Begin(x, "commit",
        CASE run.status = "completed" -> "budget"
          [] run.status \in {"conflict", "failed"} -> "return"
          [] run.status = "awaiting_domain_confirmation" -> "journal"
          [] OTHER -> "gate",
        IF run.status \in {"conflict", "failed"} THEN run.status ELSE "none")

(* Terminalize refuses a run whose effect may exist.                       *)
LoadTerminal(x) ==
  Begin(x, "terminalize",
        CASE run.status = "awaiting_domain_confirmation" -> "return"
          [] run.status = "failed" -> "budget"
          [] OTHER -> "fail",
        IF run.status = "awaiting_domain_confirmation" THEN "error" ELSE "none")

(* One read of current authority, with the approval it may have revoked.   *)
Authorized(x, here, next) ==
  /\ local[x].at = here
  /\ IF permitted THEN Goto(x, next) ELSE Finish(x, "stopped")
  /\ UNCHANGED <<runVars, journal>> /\ Only(x)

CheckGate(x) == Authorized(x, "gate", "issue")

Issue(x) ==
  Authorized(x, "issue",
             IF local[x].snapshot.status = "awaiting_approval" THEN "approve" ELSE "recheck")

Recheck(x) == Authorized(x, "recheck", "record")

(* apply: one compare-and-set transition that converges on its own effect. *)
Apply(a, from, target, next) ==
  LET seen == local[a].snapshot
      moved == [status |-> target, version |-> seen.version + 1]
      legal == run.version = seen.version /\ run.status \in from
  IN
  /\ run' = IF legal THEN moved ELSE run
  /\ IF legal \/ run = moved
       THEN local' = [local EXCEPT ![a].at = next, ![a].snapshot = moved,
                                   ![a].result = IF next = "return" THEN target ELSE "none"]
       ELSE Finish(a, "superseded")
  /\ UNCHANGED <<artifact, budget, journal>> /\ Only(a)

Approve(x) ==
  local[x].at = "approve" /\ Apply(x, {"awaiting_approval"}, "committing", "recheck")

BeginDomainConfirmation(x) ==
  /\ local[x].at = "begin"
  /\ Apply(x, {"committing"}, "awaiting_domain_confirmation", "mark")

RecordFailure(x) ==
  /\ local[x].at = "fail"
  /\ Apply(x, {"awaiting_approval", "committing", "conflict"}, "failed", "budget")

-----------------------------------------------------------------------------
(* The journal.                                                            *)

(* Create is insert-once; the row of a decided operation is in the way.    *)
EnsureSubmission(x) ==
  /\ local[x].at = "record"
  /\ journal' = IF journal.status = "none" THEN [journal EXCEPT !.status = "recorded"] ELSE journal
  /\ IF journal.status \in Decided THEN Finish(x, "error") ELSE Goto(x, "begin")
  /\ UNCHANGED runVars /\ Only(x)

(* Mutant of MarkIssued: the intent is not made durable.                   *)
MarkNothing(x) ==
  /\ local[x].at = "mark"
  /\ Goto(x, "send")
  /\ UNCHANGED <<runVars, journal>> /\ Only(x)

MarkIssued(x) ==
  /\ local[x].at = "mark"
  /\ \/ /\ journal.status \in {"recorded", "issued"}
        /\ journal' = [journal EXCEPT !.status = "issued"]
        /\ Goto(x, "send")
     \/ /\ journal.status \notin {"recorded", "issued"}
        /\ Finish(x, "error") /\ UNCHANGED journal
  /\ UNCHANGED runVars /\ Only(x)

Send(x) ==
  /\ local[x].at = "send"
  /\ wire' = wire \cup {x}
  /\ Goto(x, "sent")
  /\ UNCHANGED <<runVars, journal, permitted, expired, effect, wf, answer, faultVars>>

(* The caller gives up on the answer; the command may still arrive.        *)
Timeout(x) ==
  /\ local[x].at = "sent"
  /\ Finish(x, "unsettled")
  /\ UNCHANGED <<runVars, journal>> /\ Only(x)

(* reconcileDomain: the row decides whether to send, ask or settle.        *)
ReadJournal(x) ==
  /\ local[x].at = "journal"
  /\ \/ journal.status = "none" /\ Finish(x, "unsettled")
     \/ journal.status = "recorded" /\ Goto(x, "mark")
     \/ /\ journal.status \in {"issued", "escalated"}
        /\ local' = [local EXCEPT ![x].at = "ask", ![x].held = journal.status]
     \/ /\ journal.status \in Decided
        /\ local' = [local EXCEPT ![x].at = "finalize",
                                  ![x].reply = DomainOutcomeOf(journal.status)]
  /\ UNCHANGED <<runVars, journal>> /\ Only(x)

AskOwner(x) ==
  /\ local[x].at = "ask"
  /\ \/ /\ effect # "none"
        /\ local' = [local EXCEPT ![x].at = "finalize", ![x].reply = effect]
     \/ effect = "none" /\ local[x].held = "issued" /\ Goto(x, "count")
     \/ effect = "none" /\ local[x].held = "escalated" /\ Finish(x, "escalated")
  /\ UNCHANGED <<runVars, journal>> /\ Only(x)

(* What a wake learns of a row it could not count.                         *)
Hold == IF journal.status = "escalated" THEN "escalated" ELSE "unsettled"

(* Mutant of RecordUncertainty: the window never closes.                   *)
RecordUncertaintyOnly(x) ==
  /\ local[x].at = "count"
  /\ journal' = [journal EXCEPT !.attempts = 1]
  /\ Finish(x, "unsettled")
  /\ UNCHANGED runVars /\ Only(x)

RecordUncertainty(x) ==
  /\ local[x].at = "count"
  /\ \/ /\ journal.status = "issued"
        /\ journal' = [journal EXCEPT !.attempts = @ + 1]
        /\ IF journal.attempts + 1 >= ReconcileLimit THEN Goto(x, "escalate")
                                                     ELSE Finish(x, "unsettled")
     \/ journal.status # "issued" /\ Finish(x, Hold) /\ UNCHANGED journal
  /\ UNCHANGED runVars /\ Only(x)

Escalate(x) ==
  /\ local[x].at = "escalate"
  /\ journal' = IF journal.status = "issued" THEN [journal EXCEPT !.status = "escalated"] ELSE journal
  /\ Finish(x, IF journal.status \in {"issued", "escalated"} THEN "escalated" ELSE "error")
  /\ UNCHANGED runVars /\ Only(x)

(* Mutant of Finalizable: the row accepts any decision at any time.        *)
FinalizableAlways(next) == journal.status # "none"

(* guard_domain_operation_identity: the trigger lets an issued row be      *)
(* decided and a decided row be repeated; an escalated row needs the       *)
(* audited resolution.                                                     *)
Finalizable(next) == journal.status \in {"issued", next}

(* Mutant of Finalize: a refused write is taken for a converged one.       *)
FinalizeIgnoresRefusal(a) ==
  LET outcome == local[a].reply IN
  /\ local[a].at = "finalize"
  /\ journal' = IF Finalizable(SubmissionStatusOf[outcome])
                  THEN [journal EXCEPT !.status = SubmissionStatusOf[outcome]] ELSE journal
  /\ Goto(a, IF outcome = "confirmed" THEN "artifact" ELSE "settle")
  /\ UNCHANGED runVars /\ Only(a)

(* settleDomain, first half: the journal is decided before the run is.     *)
(* A run already in the outcome's state converges.                         *)
Finalize(a) ==
  LET outcome == local[a].reply IN
  /\ local[a].at = "finalize"
  /\ \/ /\ Finalizable(SubmissionStatusOf[outcome])
        /\ journal' = [journal EXCEPT !.status = SubmissionStatusOf[outcome]]
        /\ IF local[a].snapshot.status = RunStateOf[outcome]
             THEN Finish(a, RunStateOf[outcome])
             ELSE Goto(a, IF outcome = "confirmed" THEN "artifact" ELSE "settle")
     \/ /\ ~Finalizable(SubmissionStatusOf[outcome])
        /\ Finish(a, "error") /\ UNCHANGED journal
  /\ UNCHANGED runVars /\ Only(a)

EnsureCommitted(a) ==
  /\ local[a].at = "artifact"
  /\ artifact' = TRUE
  /\ Goto(a, "settle")
  /\ UNCHANGED <<run, budget, journal>> /\ Only(a)

(* settleDomain, second half: ConfirmDomain, RecordDomainConflict or       *)
(* RecordDomainRejection.                                                  *)
Settle(a) ==
  /\ local[a].at = "settle"
  /\ Apply(a, {"awaiting_domain_confirmation"}, RunStateOf[local[a].reply],
           IF local[a].reply = "conflict" THEN "return" ELSE "budget")

(* settleRunBudget: completion releases the hold, failure keeps the cost;  *)
(* a conflict has left the reservation to the rebase.                      *)
SettleRunBudget(a) ==
  LET status == local[a].snapshot.status IN
  /\ local[a].at = "budget"
  /\ budget' = IF status = "completed" \/ budget = "released" THEN "released" ELSE "settled"
  /\ Finish(a, status)
  /\ UNCHANGED <<run, artifact, journal>> /\ Only(a)

-----------------------------------------------------------------------------
(* The engine and the commit loop.                                         *)

AfterCommit(result) ==
  CASE result \in Ended -> [wf EXCEPT !.stage = result]
    [] result \in {"stopped", "error"} -> [wf EXCEPT !.stage = "terminalize"]
    [] result = "escalated" /\ wf.wake + 1 >= HoldWakes -> [wf EXCEPT !.stage = "unresolved"]
    [] wf.wake + 1 = MaximumCommitWakes -> [wf EXCEPT !.stage = "errored"]
    [] OTHER -> [wf EXCEPT !.wake = @ + 1]

AfterTerminal(result) == [wf EXCEPT !.stage = IF result = "error" THEN "errored" ELSE result]

(* The first result of a step is the one recorded.                         *)
RecordStep(x) ==
  LET l == local[x] IN
  /\ x \in Executions /\ l.at = "return"
  /\ wf' = IF l.stage # wf.stage \/ l.wake # wf.wake THEN wf
           ELSE IF l.stage = "commit" THEN AfterCommit(l.result) ELSE AfterTerminal(l.result)
  /\ local' = [local EXCEPT ![x] = Idle]
  /\ UNCHANGED <<runVars, journal, ownerVars, answer, faultVars>>

-----------------------------------------------------------------------------
(* Operators, who act on a page.  `reply` holds an operator's decision,    *)
(* made once and repeated until it is answered.                            *)

LoadResolution(o) ==
  /\ local[o].at = "idle" /\ answer[o] # "ok"
  /\ journal.status \in {"escalated"} \cup Decided
  /\ \E outcome \in Outcomes :
       /\ local[o].reply \in {"none", outcome}
       /\ local' = [local EXCEPT ![o] = [Idle EXCEPT !.at = "read", !.snapshot = run,
                                                     !.reply = outcome]]
  /\ UNCHANGED <<runVars, journal>> /\ Only(o)

(* Mutant of ReadEscalation: a decided row refuses its own operator too.   *)
ReadEscalationOnce(o) ==
  /\ local[o].at = "read"
  /\ IF journal.status = "escalated" THEN Goto(o, "resolve") ELSE Finish(o, "refused")
  /\ UNCHANGED <<runVars, journal>> /\ Only(o)

(* A decided row answers its own operator again and refuses the others;    *)
(* only an escalated row of a run at the boundary is resolved.             *)
ReadEscalation(o) ==
  /\ local[o].at = "read"
  /\ \/ /\ journal.status = SubmissionStatusOf[local[o].reply] /\ o \in journal.resolvedBy
        /\ Goto(o, "finalize")
     \/ /\ journal.status = "escalated"
        /\ local[o].snapshot.status = "awaiting_domain_confirmation"
        /\ Goto(o, "resolve")
     \/ /\ ~ /\ journal.status = SubmissionStatusOf[local[o].reply]
             /\ o \in journal.resolvedBy
        /\ ~ /\ journal.status = "escalated"
             /\ local[o].snapshot.status = "awaiting_domain_confirmation"
        /\ Finish(o, "refused")
  /\ UNCHANGED <<runVars, journal>> /\ Only(o)

(* Mutant of Resolve: the write does not compare the escalated state.      *)
ResolveUnconditionally(o) ==
  /\ local[o].at = "resolve"
  /\ journal' = [journal EXCEPT !.status = SubmissionStatusOf[local[o].reply], !.resolvedBy = {o}]
  /\ Goto(o, "finalize")
  /\ UNCHANGED runVars /\ Only(o)

Resolve(o) ==
  /\ local[o].at = "resolve"
  /\ \/ /\ journal.status = "escalated"
        /\ journal' = [journal EXCEPT !.status = SubmissionStatusOf[local[o].reply],
                                      !.resolvedBy = {o}]
        /\ Goto(o, "finalize")
     \/ /\ journal.status # "escalated"
        /\ UNCHANGED journal
        /\ IF journal.status = SubmissionStatusOf[local[o].reply] /\ o \in journal.resolvedBy
             THEN Goto(o, "finalize") ELSE Finish(o, "refused")
  /\ UNCHANGED runVars /\ Only(o)

(* A superseded settlement is not told apart from a settled one.           *)
AnswerOperator(o) ==
  /\ o \in Operators /\ local[o].at = "return"
  /\ answer' = [answer EXCEPT ![o] = IF local[o].result \in {"refused", "error"}
                                       THEN local[o].result ELSE "ok"]
  /\ local' = [local EXCEPT ![o] = [Idle EXCEPT !.reply = local[o].reply]]
  /\ UNCHANGED <<runVars, journal, ownerVars, wf, faultVars>>

-----------------------------------------------------------------------------
(* The domain owner and the environment.                                   *)

(* VerifyingDomainPort.Commit: an expired authorization is rejected before *)
(* the redemption record is consulted; a redeemed operation replays its    *)
(* outcome; anything else is redeemed now.                                 *)
Arrive(x) ==
  /\ x \in wire
  /\ wire' = wire \ {x}
  /\ \E outcome \in Outcomes :
       /\ expired => outcome = "rejected"
       /\ ~expired /\ effect # "none" => outcome = effect
       /\ effect' = IF expired THEN effect ELSE outcome
       /\ local' = IF local[x].at # "sent" THEN local
                   ELSE [local EXCEPT ![x].at = "finalize", ![x].reply = outcome]
  /\ UNCHANGED <<runVars, journal, permitted, expired, wf, answer, faultVars>>

Expire ==
  /\ ~expired /\ expired' = TRUE
  /\ UNCHANGED <<runVars, journal, permitted, wire, effect, wf, local, answer, faultVars>>

Withdraw ==
  /\ permitted /\ permitted' = FALSE
  /\ UNCHANGED <<runVars, journal, expired, wire, effect, wf, local, answer, faultVars>>

RequestCancellation ==
  /\ run.status \in {"awaiting_approval", "conflict"}
  /\ run' = [status |-> "cancelling", version |-> run.version + 1]
  /\ UNCHANGED <<artifact, budget, journal, ownerVars, wf, local, answer, faultVars>>

(* A process dies; an operator keeps the decision and may repeat it.       *)
Crash(a) ==
  /\ local[a].at # "idle" /\ crashes < MaxCrashes
  /\ crashes' = crashes + 1
  /\ local' = [local EXCEPT ![a] = IF a \in Operators THEN [Idle EXCEPT !.reply = local[a].reply]
                                                       ELSE Idle]
  /\ UNCHANGED <<runVars, journal, ownerVars, wf, answer, errors>>

(* A call fails.  An uncertain count that cannot be written still holds.   *)
CallFails(a) ==
  /\ local[a].at \notin {"idle", "send", "sent"} /\ errors < MaxErrors
  /\ errors' = errors + 1
  /\ Finish(a, IF local[a].at = "count" THEN Hold ELSE "error")
  /\ UNCHANGED <<runVars, journal, ownerVars, wf, answer, crashes>>

-----------------------------------------------------------------------------
SettleDomain(a) == Finalize(a) \/ EnsureCommitted(a) \/ Settle(a) \/ SettleRunBudget(a)

Commit(x) ==
  \/ LoadCommit(x) \/ CheckGate(x) \/ Issue(x) \/ Approve(x) \/ Recheck(x)
  \/ EnsureSubmission(x) \/ BeginDomainConfirmation(x) \/ MarkIssued(x) \/ Send(x) \/ Timeout(x)
  \/ ReadJournal(x) \/ AskOwner(x) \/ RecordUncertainty(x) \/ Escalate(x) \/ SettleDomain(x)

Terminalize(x) == LoadTerminal(x) \/ RecordFailure(x)

Execute(x) == Commit(x) \/ Terminalize(x) \/ RecordStep(x)

ResolveEscalation(o) ==
  LoadResolution(o) \/ ReadEscalation(o) \/ Resolve(o) \/ SettleDomain(o) \/ AnswerOperator(o)

Environment ==
  \/ \E x \in Executions : Arrive(x)
  \/ Expire \/ Withdraw \/ RequestCancellation
  \/ \E a \in Actors : Crash(a) \/ CallFails(a)

Next ==
  \/ \E x \in Executions : Execute(x)
  \/ \E o \in Operators : ResolveEscalation(o)
  \/ Environment

Spec == Init /\ [][Next]_vars

(* Every call returns or times out, the engine runs an unfinished workflow *)
(* again, and a paged operator keeps answering.  Nothing makes a command   *)
(* arrive.                                                                 *)
LiveSpec ==
  /\ Spec
  /\ \A x \in Executions : WF_vars(Execute(x))
  /\ \A o \in Operators : WF_vars(ResolveEscalation(o))
-----------------------------------------------------------------------------
(* Properties.                                                             *)

(* Every variable stays in its domain; faults and wakes stay within their *)
(* bounds.                                                                 *)
TypeOK ==
  /\ run \in RunStates
  /\ journal \in [status : {"none", "recorded", "issued", "escalated"} \cup Decided,
                  attempts : Nat,
                  resolvedBy : SUBSET Operators]
  /\ permitted \in BOOLEAN /\ expired \in BOOLEAN /\ artifact \in BOOLEAN
  /\ wire \subseteq Executions /\ effect \in Outcomes \cup {"none"}
  /\ budget \in {"held", "settled", "released"}
  /\ wf \in [stage : {"commit", "terminalize"} \cup Ended, wake : 0..MaximumCommitWakes - 1]
  /\ local \in [Actors -> [at : Locations, stage : {"commit", "terminalize"},
                           wake : 0..MaximumCommitWakes - 1, snapshot : RunStates,
                           reply : Outcomes \cup {"none"}, held : {"none", "issued", "escalated"},
                           result : Results]]
  /\ answer \in [Operators -> {"none", "ok", "error", "refused"}]
  /\ crashes \in 0..MaxCrashes /\ errors \in 0..MaxErrors

(* The aggregate reached the submit boundary.                              *)
CrossedBoundary == run.status = "awaiting_domain_confirmation" \/ run.version >= 3

(* Write-ahead: nothing is on its way to the owner, and the owner has      *)
(* redeemed nothing, unless the intent is in the journal and the run is at *)
(* the boundary or settled past it; a run stopped or cancelled before it   *)
(* caused no effect and never will.                                        *)
NoEffectBeforeBoundary ==
  wire # {} \/ effect # "none" =>
    journal.status \notin {"none", "recorded"} /\ CrossedBoundary

(* However executions and operators interleave, the state the run settled  *)
(* to is the one the journal decided, and the artifact is committed        *)
(* exactly for the applied ones, before the run completes.                 *)
RunFollowsJournal ==
  /\ run.status = "completed" => journal.status = "applied" /\ artifact
  /\ run.status = "conflict" => journal.status = "conflict"
  /\ run.status = "failed" /\ run.version = 3 => journal.status = "rejected"
  /\ run.status = "failed" /\ run.version < 3 => journal.status \in {"none", "recorded"}
  /\ artifact => journal.status = "applied"

(* A decision no operator made is the owner's own, also when two           *)
(* executions submit; the authorization's expiry is the only exception.    *)
JournalFollowsOwner ==
  journal.status \in Decided /\ journal.resolvedBy = {} /\ ~expired =>
    effect = DomainOutcomeOf(journal.status)

(* Run, artifact, journal and owner tell one story.                        *)
RecordsFollowOwner == RunFollowsJournal /\ JournalFollowsOwner

(* A decided row is never decided again, by no late answer and no second   *)
(* operator, and an escalated row is decided by an operator.               *)
DecisionsAreFinal ==
  [][/\ journal.status \in Decided =>
          journal'.status = journal.status /\ journal'.resolvedBy = journal.resolvedBy
     /\ journal.status = "escalated" /\ journal'.status # "escalated" =>
          journal'.resolvedBy # {}]_vars

(* An operator told "ok" made the recorded decision itself, and the run    *)
(* has left the boundary, although a lost transition is not reported.      *)
AnsweredMeansSettled ==
  \A o \in Operators : answer[o] = "ok" =>
    /\ o \in journal.resolvedBy
    /\ journal.status = SubmissionStatusOf[local[o].reply]
    /\ run.status # "awaiting_domain_confirmation"

(* A run at the boundary is settled or somebody is paged, after any number *)
(* of crashes, whether or not the owner ever answers.                      *)
BoundaryIsWatched ==
  run.status = "awaiting_domain_confirmation" ~>
    run.status # "awaiting_domain_confirmation" \/ journal.status = "escalated"

(* A paged run is settled by the operator.                                 *)
EscalationIsSettled ==
  journal.status = "escalated" ~> run.status # "awaiting_domain_confirmation"

-----------------------------------------------------------------------------
(* What comments in the code say, and the code does not do.                *)

(* "Escalation still self-heals: the owner's late answer settles the run   *)
(* the moment it exists" (executor.go, reconcileDomain), while the         *)
(* workflow still holds and its next wake is due.                          *)
LateAnswerSettles ==
  ( /\ journal.status = "escalated" /\ effect # "none" /\ wf.stage = "commit"
    /\ \A x \in Executions : local[x].at = "idle")
    ~> run.status # "awaiting_domain_confirmation"

=============================================================================
