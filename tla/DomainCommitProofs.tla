------------------------- MODULE DomainCommitProofs -------------------------
(***************************************************************************)
(* For any executions, operators, windows and numbers of faults: no effect *)
(* before the boundary, one story in run, journal, artifact and owner,     *)
(* final decisions, and operators that are told the truth.                 *)
(***************************************************************************)
EXTENDS DomainCommit, TLAPS

Intended == journal.status \notin {"none", "recorded"}

(* The aggregate's version counts its transitions.                         *)
Versions == [awaiting_approval |-> {0}, committing |-> {1}, awaiting_domain_confirmation |-> {2},
             completed |-> {3}, conflict |-> {3}, failed |-> 1..4, cancelling |-> {1, 4}]

RunInv == run.version \in Versions[run.status]

(* What is in the journal or at the owner has the boundary behind it.      *)
BoundaryInv ==
  /\ Intended => CrossedBoundary
  /\ wire # {} \/ effect # "none" => Intended

Terminal == {"completed", "failed", "cancelling"}

(* A snapshot is a state the run is in or has left.                        *)
Past(s, r) ==
  \/ s = r
  \/ /\ s.version < r.version
     /\ s.status \notin Terminal
     /\ s.version \in Versions[s.status]

(* What a step in flight may rely on, whatever the others do.              *)
StepInv(a) ==
  LET l == local[a] IN
  /\ Past(l.snapshot, run)
  /\ l.at \in {"journal", "mark", "send"} => CrossedBoundary
  /\ l.at = "send" => Intended
  /\ l.at = "finalize" =>
       /\ l.reply \in Outcomes
       /\ effect = l.reply \/ expired \/ journal.status = SubmissionStatusOf[l.reply]
  /\ l.at \in {"artifact", "settle"} =>
       l.reply \in Outcomes /\ journal.status = SubmissionStatusOf[l.reply]
  /\ l.at = "artifact" => l.reply = "confirmed"
  /\ l.at = "settle" /\ l.reply = "confirmed" => artifact
  /\ l.at = "budget" => l.snapshot.status \in {"completed", "failed"}
  /\ l.stage = "terminalize" =>
       /\ l.at \in {"fail", "budget", "return"}
       /\ l.at = "budget" => l.snapshot.status = "failed"
       /\ l.at = "return" => l.result \in {"failed", "superseded", "error"}

Deciding == {"finalize", "artifact", "settle", "budget"}

(* An operator past the resolution made the recorded decision, and one     *)
(* that is past the settlement left a run that is past the boundary.       *)
OperatorInv(o) ==
  LET l == local[o]
      told == l.at = "return" /\ l.result \notin {"refused", "error"}
  IN
  /\ l.at \in {"idle", "read", "resolve", "return"} \cup Deciding
  /\ l.at \in {"read", "resolve", "finalize", "artifact", "settle"} =>
       l.snapshot.status = "awaiting_domain_confirmation" \/ l.snapshot.version >= 3
  /\ l.at = "budget" => l.snapshot.version >= 3
  /\ l.at # "idle" => l.reply \in Outcomes
  /\ l.at \in Deciding \/ told =>
       o \in journal.resolvedBy /\ journal.status = SubmissionStatusOf[l.reply]
  /\ told => run.status # "awaiting_domain_confirmation"
  /\ answer[o] = "ok" => l.at = "idle" /\ l.reply \in Outcomes

IInv ==
  /\ TypeOK /\ RunInv /\ BoundaryInv /\ RecordsFollowOwner /\ AnsweredMeansSettled
  /\ \A a \in Actors : StepInv(a)
  /\ \A o \in Operators : OperatorInv(o)

-----------------------------------------------------------------------------
Stages == {"commit", "terminalize"}

Local == [at : Locations, stage : Stages, wake : 0..MaximumCommitWakes - 1, snapshot : RunStates,
          reply : Outcomes \cup {"none"}, held : {"none", "issued", "escalated"}, result : Results]

(* One actor's local state becomes l, and nobody else's changes.           *)
Moved(a, l) == l \in Local /\ local' = [local EXCEPT ![a] = l]

LEMMA LocalTypes == TypeOK => local \in [Actors -> Local]
BY DEF TypeOK, Local, Stages

LEMMA MovedFacts ==
  ASSUME TypeOK, NEW a \in Actors, NEW l, Moved(a, l)
  PROVE  /\ local' \in [Actors -> Local]
         /\ local'[a] = l
         /\ \A b \in Actors \ {a} : local'[b] = local[b]
BY LocalTypes DEF Moved

LEMMA GoneTo ==
  ASSUME TypeOK, NEW a \in Actors, NEW location \in Locations, Goto(a, location)
  PROVE  Moved(a, [local[a] EXCEPT !.at = location])
<1>1. local[a] \in Local
  BY LocalTypes
<1>2. [local[a] EXCEPT !.at = location] \in Local
  BY <1>1 DEF Local
<1> QED BY <1>1, <1>2, LocalTypes DEF Goto, Moved

Finished(a, result) == [local[a] EXCEPT !.at = "return", !.result = result,
                                        !.snapshot = Reviewed, !.held = "none"]

LEMMA HasFinished ==
  ASSUME TypeOK, NEW a \in Actors, NEW result \in Results, Finish(a, result)
  PROVE  Moved(a, Finished(a, result))
<1>1. local[a] \in Local
  BY LocalTypes
<1>2. Reviewed \in RunStates
  BY DEF Reviewed, RunStates
<1>3. Finished(a, result) \in Local
  BY <1>1, <1>2 DEF Local, Finished, Locations
<1> QED BY <1>1, <1>3, LocalTypes DEF Finish, Moved, Finished

LEMMA IdleTypes == Idle \in Local
BY CommitAssumption DEF Idle, Local, Locations, Stages, Reviewed, RunStates, Results

(* Each outcome has a state of its own in the journal.                     *)
LEMMA OutcomesMapped ==
  ASSUME NEW o \in Outcomes
  PROVE  /\ SubmissionStatusOf[o] \in Decided
         /\ SubmissionStatusOf[o] \notin {"none", "recorded", "issued", "escalated"}
         /\ RunStateOf[o] \in {"completed", "conflict", "failed"}
         /\ DomainOutcomeOf(SubmissionStatusOf[o]) = o
<1>1. SubmissionStatusOf[o] \in Decided
  BY DEF Decided
<1>2. \A p \in Outcomes : SubmissionStatusOf[p] = SubmissionStatusOf[o] => p = o
  BY DEF Outcomes, SubmissionStatusOf
<1>3. DomainOutcomeOf(SubmissionStatusOf[o]) = o
  BY <1>2 DEF DomainOutcomeOf
<1> QED BY <1>1, <1>3 DEF Outcomes, SubmissionStatusOf, RunStateOf

LEMMA DecisionsNamed ==
  /\ Decided = {"applied", "conflict", "rejected"}
  /\ \A status \in Decided : /\ DomainOutcomeOf(status) \in Outcomes
                             /\ SubmissionStatusOf[DomainOutcomeOf(status)] = status
<1>1. Decided = {"applied", "conflict", "rejected"}
  BY DEF Decided, Outcomes, SubmissionStatusOf
<1>2. ASSUME NEW status \in Decided
      PROVE  DomainOutcomeOf(status) \in Outcomes /\ SubmissionStatusOf[DomainOutcomeOf(status)] = status
  <2>1. \E o \in Outcomes : SubmissionStatusOf[o] = status
    BY DEF Decided
  <2> QED BY <2>1 DEF DomainOutcomeOf
<1> QED BY <1>1, <1>2

(* The steps that change an actor's local state, and only that actor's.    *)
ActorStep(a) ==
  \/ a \in Executions /\ (Execute(a) \/ Arrive(a))
  \/ a \in Operators /\ ResolveEscalation(a)
  \/ Crash(a) \/ CallFails(a)

Advanced(a, target, next) ==
  [local[a] EXCEPT !.at = next,
                   !.snapshot = [status |-> target, version |-> local[a].snapshot.version + 1],
                   !.result = IF next = "return" THEN target ELSE "none"]

Extensible == {"awaiting_approval", "committing", "awaiting_domain_confirmation", "conflict"}
Reachable == {"committing", "awaiting_domain_confirmation", "completed", "conflict", "failed"}

(* apply moves the run once, converges on its own effect, or changes       *)
(* nothing and reports a superseded call.                                  *)
LEMMA Applied ==
  ASSUME IInv, NEW a \in Actors, NEW from \in SUBSET Extensible, NEW target \in Reachable,
         NEW next \in Locations, next = "return" => target \in Results,
         Apply(a, from, target, next)
  PROVE  LET seen == local[a].snapshot
             moved == [status |-> target, version |-> seen.version + 1]
         IN
         /\ run' \in RunStates
         /\ \/ /\ run' = moved
               /\ run = moved \/ (run.version = seen.version /\ run.status \in from)
               /\ Moved(a, Advanced(a, target, next))
            \/ /\ run' = run /\ run # moved
               /\ ~(run.version = seen.version /\ run.status \in from)
               /\ Moved(a, Finished(a, "superseded"))
<1> DEFINE seen == local[a].snapshot
           moved == [status |-> target, version |-> seen.version + 1]
           legal == run.version = seen.version /\ run.status \in from
<1>1. local[a] \in Local /\ seen \in RunStates /\ run \in RunStates /\ TypeOK
  BY LocalTypes DEF IInv, TypeOK, Local
<1>2. ASSUME legal PROVE moved \in RunStates
  <2>1. run.version <= 3
    BY <1>1, <1>2 DEF IInv, RunInv, Versions, Extensible, RunStates
  <2> QED BY <1>1, <1>2, <2>1 DEF RunStates, Reachable
<1>3. CASE legal \/ run = moved
  <2>1. moved \in RunStates
    BY <1>1, <1>2, <1>3
  <2>2. Advanced(a, target, next) \in Local
    BY <1>1, <2>1 DEF Advanced, Local, Results
  <2>3. local' = [local EXCEPT ![a] = Advanced(a, target, next)]
    BY <1>1, <1>3, LocalTypes DEF Apply, Advanced
  <2>4. run' = moved
    BY <1>3 DEF Apply
  <2> QED BY <1>3, <2>1, <2>2, <2>3, <2>4 DEF Moved
<1>4. CASE ~legal /\ run # moved
  <2>1. run' = run /\ Finish(a, "superseded")
    BY <1>4 DEF Apply
  <2>2. Moved(a, Finished(a, "superseded"))
    BY <1>1, <2>1, HasFinished DEF Results
  <2> QED BY <1>1, <1>4, <2>1, <2>2
<1> QED BY <1>3, <1>4

LEMMA BegunTypes ==
  ASSUME TypeOK, NEW x \in Actors, NEW stage \in Stages, NEW location \in Locations,
         NEW result \in Results, Begin(x, stage, location, result)
  PROVE  Moved(x, [Idle EXCEPT !.at = IF run.status = "cancelling" THEN "return" ELSE location,
                    !.stage = stage, !.wake = wf.wake, !.snapshot = run,
                    !.result = IF run.status = "cancelling" THEN "superseded" ELSE result])
<1>1. wf.wake \in 0..MaximumCommitWakes - 1 /\ run \in RunStates
  BY DEF TypeOK
<1> DEFINE l == [Idle EXCEPT !.at = IF run.status = "cancelling" THEN "return" ELSE location,
                    !.stage = stage, !.wake = wf.wake, !.snapshot = run,
                    !.result = IF run.status = "cancelling" THEN "superseded" ELSE result]
<1>2. "return" \in Locations /\ "superseded" \in Results
  BY DEF Locations, Results
<1>3. l \in Local
  BY <1>1, <1>2, IdleTypes DEF Local
<1>4. local' = [local EXCEPT ![x] = l]
  BY DEF Begin
<1> QED BY <1>3, <1>4 DEF Moved

LEMMA CommitMoves ==
  ASSUME IInv, NEW a \in Actors,
         \/ LoadCommit(a) \/ CheckGate(a) \/ Issue(a) \/ Approve(a) \/ Recheck(a)
         \/ EnsureSubmission(a) \/ BeginDomainConfirmation(a) \/ MarkIssued(a) \/ Send(a)
         \/ Timeout(a) \/ ReadJournal(a) \/ AskOwner(a) \/ RecordUncertainty(a) \/ Escalate(a)
         \/ LoadTerminal(a) \/ RecordFailure(a)
  PROVE  \E l : Moved(a, l)
<1>0. TypeOK /\ local[a] \in Local /\ run \in RunStates
  BY LocalTypes DEF IInv, TypeOK
<1> USE <1>0
<1>1. ASSUME NEW location \in Locations, Goto(a, location) PROVE \E l : Moved(a, l)
  BY <1>1, GoneTo
<1>2. ASSUME NEW result \in Results, Finish(a, result) PROVE \E l : Moved(a, l)
  BY <1>2, HasFinished
<1>3. CASE LoadCommit(a)
  <2> DEFINE location == CASE run.status = "completed" -> "budget"
                           [] run.status \in {"conflict", "failed"} -> "return"
                           [] run.status = "awaiting_domain_confirmation" -> "journal"
                           [] OTHER -> "gate"
             result == IF run.status \in {"conflict", "failed"} THEN run.status ELSE "none"
  <2>1. location \in Locations
    BY DEF Locations
  <2>2. result \in Results
    BY DEF Results
  <2>3. "commit" \in Stages
    BY DEF Stages
  <2>4. Begin(a, "commit", location, result)
    BY <1>3 DEF LoadCommit
  <2> HIDE DEF location, result
  <2> QED BY <2>1, <2>2, <2>3, <2>4, BegunTypes
<1>4. CASE CheckGate(a) \/ Issue(a) \/ Recheck(a)
  BY <1>1, <1>2, <1>4 DEF CheckGate, Issue, Recheck, Authorized, Locations, Results
<1>5. CASE Approve(a)
  BY <1>5, Applied DEF Approve, Extensible, Reachable, Locations
<1>6. CASE BeginDomainConfirmation(a)
  BY <1>6, Applied DEF BeginDomainConfirmation, Extensible, Reachable, Locations
<1>7. CASE RecordFailure(a)
  BY <1>7, Applied DEF RecordFailure, Extensible, Reachable, Locations
<1>8. CASE LoadTerminal(a)
  <2> DEFINE location == CASE run.status = "awaiting_domain_confirmation" -> "return"
                           [] run.status = "failed" -> "budget"
                           [] OTHER -> "fail"
             result == IF run.status = "awaiting_domain_confirmation" THEN "error" ELSE "none"
  <2>1. location \in Locations
    BY DEF Locations
  <2>2. result \in Results
    BY DEF Results
  <2>3. "terminalize" \in Stages
    BY DEF Stages
  <2>4. Begin(a, "terminalize", location, result)
    BY <1>8 DEF LoadTerminal
  <2> HIDE DEF location, result
  <2> QED BY <2>1, <2>2, <2>3, <2>4, BegunTypes
<1>9. CASE EnsureSubmission(a) \/ MarkIssued(a) \/ Send(a) \/ Timeout(a)
  BY <1>1, <1>2, <1>9 DEF EnsureSubmission, MarkIssued, Send, Timeout, Locations, Results
<1>10. CASE ReadJournal(a)
  <2>1. CASE journal.status \in {"none", "recorded"}
    BY <1>1, <1>2, <1>10, <2>1, DecisionsNamed DEF ReadJournal, Locations, Results
  <2>2. CASE journal.status \in {"issued", "escalated"}
    <3>1. [local[a] EXCEPT !.at = "ask", !.held = journal.status] \in Local
      BY <2>2 DEF Local, Locations
    <3>2. local' = [local EXCEPT ![a] = [local[a] EXCEPT !.at = "ask", !.held = journal.status]]
      BY <1>10, <2>2, DecisionsNamed, LocalTypes DEF ReadJournal
    <3> QED BY <3>1, <3>2 DEF Moved
  <2>3. CASE journal.status \in Decided
    <3> DEFINE l == [local[a] EXCEPT !.at = "finalize", !.reply = DomainOutcomeOf(journal.status)]
    <3>1. l \in Local
      BY <2>3, DecisionsNamed DEF Local, Locations
    <3>2. local' = [local EXCEPT ![a] = l]
      BY <1>10, <2>3, DecisionsNamed, LocalTypes DEF ReadJournal
    <3> QED BY <3>1, <3>2 DEF Moved
  <2> QED BY <1>10, <2>1, <2>2, <2>3 DEF ReadJournal
<1>11. CASE AskOwner(a)
  <2>1. CASE effect # "none"
    <3>1. effect \in Outcomes
      BY <2>1 DEF TypeOK
    <3>2. [local[a] EXCEPT !.at = "finalize", !.reply = effect] \in Local
      BY <3>1 DEF Local, Locations
    <3>3. local' = [local EXCEPT ![a] = [local[a] EXCEPT !.at = "finalize", !.reply = effect]]
      BY <1>11, <2>1, LocalTypes DEF AskOwner
    <3> QED BY <3>2, <3>3 DEF Moved
  <2>2. CASE effect = "none"
    BY <1>1, <1>2, <1>11, <2>2 DEF AskOwner, Locations, Results
  <2> QED BY <2>1, <2>2
<1>12. CASE RecordUncertainty(a) \/ Escalate(a)
  BY <1>1, <1>2, <1>12 DEF RecordUncertainty, Escalate, Hold, Locations, Results
<1> QED BY <1>3, <1>4, <1>5, <1>6, <1>7, <1>8, <1>9, <1>10, <1>11, <1>12

LEMMA SettlementMoves ==
  ASSUME IInv, NEW a \in Actors, SettleDomain(a)
  PROVE  \E l : Moved(a, l)
<1>0. TypeOK /\ StepInv(a)
  BY DEF IInv
<1>1. CASE Finalize(a)
  <2>1. local[a].reply \in Outcomes
    BY <1>0, <1>1 DEF Finalize, StepInv
  <2>2. RunStateOf[local[a].reply] \in Results
    BY <2>1, OutcomesMapped DEF Results
  <2> QED BY <1>0, <1>1, <2>2, GoneTo, HasFinished DEF Finalize, Locations, Results
<1>2. CASE EnsureCommitted(a)
  BY <1>0, <1>2, GoneTo DEF EnsureCommitted, Locations
<1>3. CASE Settle(a)
  <2>1. local[a].reply \in Outcomes
    BY <1>0, <1>3 DEF Settle, StepInv
  <2>2. RunStateOf[local[a].reply] \in Reachable \cap Results
    BY <2>1, OutcomesMapped DEF Results, Reachable
  <2> DEFINE target == RunStateOf[local[a].reply]
             next == IF local[a].reply = "conflict" THEN "return" ELSE "budget"
  <2>3. Apply(a, {"awaiting_domain_confirmation"}, target, next)
    BY <1>3 DEF Settle
  <2>4. {"awaiting_domain_confirmation"} \in SUBSET Extensible /\ next \in Locations
    BY DEF Extensible, Locations
  <2>5. \E l : Moved(a, l)
    <3>1. target \in Reachable /\ target \in Results
      BY <2>2
    <3> HIDE DEF target, next
    <3> QED BY <2>3, <2>4, <3>1, Applied
  <2> QED BY <2>5
<1>4. CASE SettleRunBudget(a)
  <2>1. local[a].snapshot.status \in Results
    BY <1>0, <1>4 DEF SettleRunBudget, StepInv, Results
  <2> QED BY <1>0, <1>4, <2>1, HasFinished DEF SettleRunBudget
<1> QED BY <1>1, <1>2, <1>3, <1>4 DEF SettleDomain

LEMMA OtherMoves ==
  ASSUME IInv, NEW a \in Actors,
         \/ Arrive(a) \/ RecordStep(a) \/ LoadResolution(a) \/ ReadEscalation(a)
         \/ Resolve(a) \/ AnswerOperator(a) \/ Crash(a) \/ CallFails(a)
  PROVE  \E l : Moved(a, l)
<1>0. TypeOK /\ local[a] \in Local /\ run \in RunStates
  BY LocalTypes DEF IInv, TypeOK
<1> USE <1>0
<1>1. CASE Arrive(a)
  <2>1. PICK outcome \in Outcomes :
          local' = IF local[a].at # "sent" THEN local
                   ELSE [local EXCEPT ![a].at = "finalize", ![a].reply = outcome]
    BY <1>1 DEF Arrive
  <2>2. [local[a] EXCEPT !.at = "finalize", !.reply = outcome] \in Local
    BY DEF Local, Locations
  <2>3. CASE local[a].at # "sent"
    <3>1. local' = [local EXCEPT ![a] = local[a]]
      BY <2>1, <2>3, LocalTypes
    <3> QED BY <3>1 DEF Moved
  <2>4. CASE local[a].at = "sent"
    <3>1. local' = [local EXCEPT ![a] = [local[a] EXCEPT !.at = "finalize", !.reply = outcome]]
      BY <2>1, <2>4, LocalTypes
    <3> QED BY <2>2, <3>1 DEF Moved
  <2> QED BY <2>3, <2>4
<1>2. [Idle EXCEPT !.reply = local[a].reply] \in Local
  BY IdleTypes DEF Local
<1>3. CASE RecordStep(a) \/ AnswerOperator(a) \/ Crash(a)
  BY <1>2, <1>3, IdleTypes DEF RecordStep, AnswerOperator, Crash, Moved
<1>4. CASE LoadResolution(a)
  <2>1. PICK outcome \in Outcomes :
          local' = [local EXCEPT ![a] = [Idle EXCEPT !.at = "read", !.snapshot = run,
                                                     !.reply = outcome]]
    BY <1>4 DEF LoadResolution
  <2>2. [Idle EXCEPT !.at = "read", !.snapshot = run, !.reply = outcome] \in Local
    BY IdleTypes DEF Local, Locations
  <2> QED BY <2>1, <2>2 DEF Moved
<1>5. CASE ReadEscalation(a) \/ Resolve(a) \/ CallFails(a)
  BY <1>5, GoneTo, HasFinished DEF ReadEscalation, Resolve, CallFails, Hold, Locations, Results
<1> QED BY <1>1, <1>3, <1>4, <1>5

LEMMA ActorMoves ==
  ASSUME IInv, NEW a \in Actors, ActorStep(a)
  PROVE  \E l : Moved(a, l)
<1>1. ASSUME Execute(a) PROVE \E l : Moved(a, l)
  BY <1>1, CommitMoves, SettlementMoves, OtherMoves DEF Execute, Commit, Terminalize
<1>2. ASSUME ResolveEscalation(a) PROVE \E l : Moved(a, l)
  BY <1>2, SettlementMoves, OtherMoves DEF ResolveEscalation
<1> QED BY <1>1, <1>2, OtherMoves DEF ActorStep

-----------------------------------------------------------------------------
(* The types, the loops of the workflow included.                          *)

JournalTypes ==
  journal \in [status : {"none", "recorded", "issued", "escalated"} \cup Decided,
               attempts : Nat, resolvedBy : SUBSET Operators]

rowVars == <<run, journal, artifact, expired, wire, effect>>
restVars == <<permitted, budget, wf, answer, crashes, errors>>

LEMMA WorkflowTypes ==
  ASSUME IInv, NEW x \in Actors, RecordStep(x)
  PROVE  wf' \in [stage : Stages \cup Ended, wake : 0..MaximumCommitWakes - 1]
<1> DEFINE l == local[x]
<1>1. /\ wf \in [stage : Stages \cup Ended, wake : 0..MaximumCommitWakes - 1]
      /\ l \in Local /\ StepInv(x) /\ l.at = "return"
  BY LocalTypes DEF IInv, TypeOK, Stages, RecordStep
<1>2. CASE l.stage # wf.stage \/ l.wake # wf.wake
  BY <1>1, <1>2 DEF RecordStep
<1>3. CASE l.stage = "commit" /\ l.stage = wf.stage /\ l.wake = wf.wake
  <2>1. wf' = AfterCommit(l.result)
    BY <1>3 DEF RecordStep
  <2> QED BY <1>1, <2>1, CommitAssumption DEF AfterCommit, Ended, Stages
<1>4. CASE l.stage = "terminalize" /\ l.stage = wf.stage /\ l.wake = wf.wake
  <2>1. wf' = AfterTerminal(l.result)
    BY <1>4 DEF RecordStep
  <2>2. l.result \in {"failed", "superseded", "error"}
    BY <1>1, <1>4 DEF StepInv
  <2> QED BY <1>1, <2>1, <2>2 DEF AfterTerminal, Ended, Stages
<1> QED BY <1>1, <1>2, <1>3, <1>4 DEF Local, Stages

LEMMA RestTypes ==
  ASSUME IInv, NEW a \in Actors, ActorStep(a)
  PROVE  /\ permitted' \in BOOLEAN /\ budget' \in {"held", "settled", "released"}
         /\ wf' \in [stage : Stages \cup Ended, wake : 0..MaximumCommitWakes - 1]
         /\ answer' \in [Operators -> {"none", "ok", "error", "refused"}]
         /\ crashes' \in 0..MaxCrashes /\ errors' \in 0..MaxErrors
<1>0. /\ permitted \in BOOLEAN /\ budget \in {"held", "settled", "released"}
      /\ wf \in [stage : Stages \cup Ended, wake : 0..MaximumCommitWakes - 1]
      /\ answer \in [Operators -> {"none", "ok", "error", "refused"}]
      /\ crashes \in 0..MaxCrashes /\ errors \in 0..MaxErrors
  BY DEF IInv, TypeOK, Stages
<1> USE <1>0
<1>1. CASE Crash(a)
  BY <1>1, CommitAssumption DEF Crash, runVars, ownerVars
<1>2. CASE CallFails(a)
  BY <1>2, CommitAssumption DEF CallFails, runVars, ownerVars
<1>3. CASE RecordStep(a)
  BY <1>3, WorkflowTypes DEF RecordStep, runVars, ownerVars, faultVars
<1>4. CASE AnswerOperator(a)
  BY <1>4 DEF AnswerOperator, runVars, ownerVars, faultVars
<1>5. CASE SettleRunBudget(a)
  BY <1>5 DEF SettleRunBudget, Only, ownerVars, faultVars
<1>6. CASE \/ LoadCommit(a) \/ LoadTerminal(a) \/ CheckGate(a) \/ Issue(a) \/ Recheck(a)
           \/ EnsureSubmission(a) \/ MarkIssued(a) \/ Timeout(a) \/ ReadJournal(a) \/ AskOwner(a)
           \/ RecordUncertainty(a) \/ Escalate(a) \/ Finalize(a)
           \/ LoadResolution(a) \/ ReadEscalation(a) \/ Resolve(a)
  <2>1. UNCHANGED <<runVars, ownerVars, wf, answer, faultVars>>
    BY <1>6 DEF LoadCommit, LoadTerminal, Begin, CheckGate, Issue, Recheck, Authorized,
                EnsureSubmission, MarkIssued, Timeout, ReadJournal, AskOwner, RecordUncertainty,
                Escalate, Finalize, LoadResolution, ReadEscalation, Resolve, Only
  <2> QED BY <2>1 DEF runVars, ownerVars, faultVars
<1>7. CASE \/ Approve(a) \/ BeginDomainConfirmation(a) \/ RecordFailure(a) \/ Settle(a)
           \/ EnsureCommitted(a) \/ Send(a) \/ Arrive(a)
  <2>1. UNCHANGED restVars
    BY <1>7 DEF Approve, BeginDomainConfirmation, RecordFailure, Settle, EnsureCommitted, Send,
                Arrive, Apply, Only, restVars, runVars, ownerVars, faultVars
  <2> QED BY <2>1 DEF restVars
<1> QED BY <1>1, <1>2, <1>3, <1>4, <1>5, <1>6, <1>7
        DEF ActorStep, Execute, Commit, Terminalize, ResolveEscalation, SettleDomain

-----------------------------------------------------------------------------
(* Run, journal, artifact and owner.                                       *)

RowTypes ==
  /\ run \in RunStates /\ JournalTypes
  /\ expired \in BOOLEAN /\ artifact \in BOOLEAN
  /\ wire \subseteq Executions /\ effect \in Outcomes \cup {"none"}

(* What no step takes back.                                                *)
Onward ==
  /\ run' = run \/ (run'.version = run.version + 1 /\ run.status \notin Terminal)
  /\ CrossedBoundary => CrossedBoundary'
  /\ Intended => Intended'
  /\ journal.status \in Decided =>
       journal'.status = journal.status /\ journal'.resolvedBy = journal.resolvedBy
  /\ effect # "none" => effect' = effect
  /\ expired => expired'
  /\ artifact => artifact'

RowInv == RunInv /\ BoundaryInv /\ RecordsFollowOwner

Kept == RowTypes' /\ RowInv' /\ Onward

LEMMA RowFacts == IInv => RowTypes /\ RowInv
BY DEF IInv, TypeOK, RowTypes, JournalTypes, RowInv

LEMMA QuietKeeps == ASSUME IInv, UNCHANGED rowVars PROVE Kept
BY RowFacts DEF rowVars, Kept, RowTypes, JournalTypes, RowInv, RunInv, BoundaryInv, Intended,
   CrossedBoundary, RecordsFollowOwner, RunFollowsJournal, JournalFollowsOwner, Onward

LEMMA QuietSteps ==
  ASSUME IInv, NEW a \in Actors,
         \/ LoadCommit(a) \/ LoadTerminal(a) \/ CheckGate(a) \/ Issue(a) \/ Recheck(a)
         \/ Timeout(a) \/ ReadJournal(a) \/ AskOwner(a) \/ SettleRunBudget(a) \/ RecordStep(a)
         \/ LoadResolution(a) \/ ReadEscalation(a) \/ AnswerOperator(a) \/ Crash(a) \/ CallFails(a)
  PROVE  Kept
<1>1. UNCHANGED rowVars
  BY DEF LoadCommit, LoadTerminal, Begin, CheckGate, Issue, Recheck, Authorized, Timeout, ReadJournal,
         AskOwner, SettleRunBudget, RecordStep, LoadResolution, ReadEscalation, AnswerOperator, Crash,
         CallFails, Only, runVars, ownerVars, rowVars
<1> QED BY <1>1, QuietKeeps

(* The run moves only from the states a transition starts in, and before   *)
(* the boundary only while no intent is recorded.                          *)
LEMMA RunSteps ==
  ASSUME IInv, NEW a \in Actors,
         Approve(a) \/ BeginDomainConfirmation(a) \/ RecordFailure(a) \/ Settle(a)
  PROVE  Kept
<1>0. RowTypes /\ RowInv /\ StepInv(a) /\ local[a] \in Local
  BY RowFacts, LocalTypes DEF IInv
<1> DEFINE from == IF local[a].at = "approve" THEN {"awaiting_approval"}
                   ELSE IF local[a].at = "begin" THEN {"committing"}
                   ELSE IF local[a].at = "fail" THEN {"awaiting_approval", "committing", "conflict"}
                   ELSE {"awaiting_domain_confirmation"}
           target == IF local[a].at = "approve" THEN "committing"
                     ELSE IF local[a].at = "begin" THEN "awaiting_domain_confirmation"
                     ELSE IF local[a].at = "fail" THEN "failed"
                     ELSE RunStateOf[local[a].reply]
<1>1. /\ local[a].at \in {"approve", "begin", "fail", "settle"}
      /\ run' = run \/ (run.status \in from /\ run' = [status |-> target, version |-> run.version + 1])
      /\ UNCHANGED <<journal, artifact, expired, wire, effect>>
  BY DEF Approve, BeginDomainConfirmation, RecordFailure, Settle, Apply, Only, ownerVars
<1>2. CASE run' = run
  BY <1>1, <1>2, QuietKeeps DEF rowVars
<1>3. CASE run.status \in from /\ run' = [status |-> target, version |-> run.version + 1]
  <2>1. local[a].at = "settle" => /\ local[a].reply \in Outcomes
                                  /\ journal.status = SubmissionStatusOf[local[a].reply]
                                  /\ local[a].reply = "confirmed" => artifact
    BY <1>0 DEF StepInv
  <2>2. /\ run.status \in {"awaiting_approval", "committing", "awaiting_domain_confirmation", "conflict"}
        /\ run.version \in Versions[run.status] /\ run.version \in 0..3
    BY <1>0, <1>1, <1>3 DEF RowInv, RunInv, Versions, RowTypes, RunStates
  <2>3. target \in Reachable
    BY <1>1, <2>1, OutcomesMapped DEF Reachable
  <2>4. run' \in RunStates
    BY <1>3, <2>2, <2>3 DEF RunStates, Reachable
  <2>5. RunInv'
    <3>1. CASE local[a].at = "settle"
      BY <1>3, <2>1, <2>2, <3>1, OutcomesMapped DEF RunInv, Versions
    <3>2. CASE local[a].at # "settle"
      BY <1>1, <1>3, <2>2, <3>2 DEF RunInv, Versions
    <3> QED BY <3>1, <3>2
  <2>6. CrossedBoundary => CrossedBoundary'
    <3>1. CrossedBoundary => run.version >= 2
      BY <2>2 DEF CrossedBoundary, Versions
    <3> QED BY <1>3, <2>2, <3>1 DEF CrossedBoundary
  <2>7. BoundaryInv'
    BY <1>0, <1>1, <2>6 DEF RowInv, BoundaryInv, Intended
  <2>8. RunFollowsJournal'
    <3>1. CASE local[a].at = "settle"
      BY <1>0, <1>1, <1>3, <2>1, <2>2, <3>1
         DEF RowInv, RecordsFollowOwner, RunFollowsJournal, Versions, Outcomes, SubmissionStatusOf,
             RunStateOf
    <3>2. CASE local[a].at # "settle"
      <4>1. run.status # "conflict" => ~Intended
        BY <1>0, <1>1, <1>3, <2>2, <3>2 DEF RowInv, BoundaryInv, CrossedBoundary, Versions
      <4> QED BY <1>0, <1>1, <1>3, <2>2, <3>2, <4>1
              DEF RowInv, RecordsFollowOwner, RunFollowsJournal, Versions, Intended
    <3> QED BY <3>1, <3>2
  <2>9. JournalFollowsOwner'
    BY <1>0, <1>1 DEF RowInv, RecordsFollowOwner, JournalFollowsOwner
  <2>10. Onward
    BY <1>1, <1>3, <2>2, <2>6 DEF Onward, Terminal, Intended
  <2>11. RowTypes'
    BY <1>0, <1>1, <2>4 DEF RowTypes, JournalTypes
  <2> QED BY <2>5, <2>7, <2>8, <2>9, <2>10, <2>11 DEF Kept, RowInv, RecordsFollowOwner
<1> QED BY <1>1, <1>2, <1>3

LEMMA CancellationKeeps == ASSUME IInv, RequestCancellation PROVE Kept
<1>0. RowTypes /\ RowInv
  BY RowFacts
<1>1. /\ run.status \in {"awaiting_approval", "conflict"}
      /\ run' = [status |-> "cancelling", version |-> run.version + 1]
      /\ UNCHANGED <<journal, artifact, expired, wire, effect>>
  BY DEF RequestCancellation, ownerVars
<1>2. run.version = IF run.status = "conflict" THEN 3 ELSE 0
  BY <1>0, <1>1 DEF RowInv, RunInv, Versions
<1>3. run' \in RunStates /\ RunInv'
  BY <1>1, <1>2 DEF RunStates, RunInv, Versions
<1>4. CrossedBoundary => CrossedBoundary'
  BY <1>1, <1>2 DEF CrossedBoundary
<1>5. RowInv'
  BY <1>0, <1>1, <1>2, <1>3, <1>4 DEF RowInv, BoundaryInv, Intended, RecordsFollowOwner,
                                       RunFollowsJournal, JournalFollowsOwner
<1>6. Onward /\ RowTypes'
  BY <1>0, <1>1, <1>2, <1>3, <1>4 DEF Onward, Terminal, Intended, RowTypes, JournalTypes
<1> QED BY <1>5, <1>6 DEF Kept

(* A step that leaves decided rows alone, forgets no intent, records one   *)
(* only past the boundary and decides nothing keeps the story.             *)
LEMMA UndecidedKeeps ==
  ASSUME IInv, UNCHANGED <<run, artifact, expired, wire, effect>>, JournalTypes',
         journal.status \in Decided => UNCHANGED journal,
         journal'.status \in Decided => UNCHANGED journal,
         Intended => Intended',
         Intended' => Intended \/ CrossedBoundary
  PROVE  Kept
<1>0. RowTypes /\ RowInv
  BY RowFacts
<1>1. CASE UNCHANGED journal
  BY <1>1, QuietKeeps DEF rowVars
<1>2. CASE journal.status \notin Decided /\ journal'.status \notin Decided
  <2>1. RunInv' /\ BoundaryInv'
    BY <1>0 DEF RowInv, RunInv, BoundaryInv, CrossedBoundary
  <2>2. RunFollowsJournal'
    <3>1. /\ run.status \notin {"completed", "conflict"} /\ ~artifact
          /\ ~(run.status = "failed" /\ run.version = 3)
      BY <1>0, <1>2, DecisionsNamed DEF RowInv, RecordsFollowOwner, RunFollowsJournal
    <3>2. run.status = "failed" /\ run.version < 3 => ~Intended /\ ~CrossedBoundary
      BY <1>0 DEF RowInv, RecordsFollowOwner, RunFollowsJournal, Intended, CrossedBoundary, RowTypes,
                  RunStates
    <3>3. run.status = "failed" /\ run.version < 3 => ~Intended'
      BY <3>2
    <3> QED BY <3>1, <3>3 DEF RunFollowsJournal, Intended
  <2>3. JournalFollowsOwner'
    BY <1>2 DEF JournalFollowsOwner
  <2>4. Onward /\ RowTypes'
    BY <1>0, <1>2 DEF Onward, RowTypes, CrossedBoundary
  <2> QED BY <2>1, <2>2, <2>3, <2>4 DEF Kept, RowInv, RecordsFollowOwner
<1> QED BY <1>1, <1>2

LEMMA JournalSteps ==
  ASSUME IInv, NEW a \in Actors,
         EnsureSubmission(a) \/ MarkIssued(a) \/ RecordUncertainty(a) \/ Escalate(a)
  PROVE  Kept
<1>0. RowTypes /\ RowInv /\ StepInv(a)
  BY RowFacts DEF IInv
<1>1. UNCHANGED <<run, artifact, expired, wire, effect>>
  BY DEF EnsureSubmission, MarkIssued, RecordUncertainty, Escalate, Only, runVars, ownerVars
<1>2. \/ UNCHANGED journal
      \/ journal.status = "none" /\ journal' = [journal EXCEPT !.status = "recorded"]
      \/ /\ journal.status \in {"recorded", "issued"} /\ CrossedBoundary
         /\ journal' = [journal EXCEPT !.status = "issued"]
      \/ journal.status = "issued" /\ journal' = [journal EXCEPT !.attempts = @ + 1]
      \/ journal.status = "issued" /\ journal' = [journal EXCEPT !.status = "escalated"]
  BY <1>0 DEF EnsureSubmission, MarkIssued, RecordUncertainty, Escalate, StepInv
<1>3. JournalTypes'
  BY <1>0, <1>2 DEF RowTypes, JournalTypes
<1>4. \/ UNCHANGED journal
      \/ /\ journal.status \notin Decided /\ journal'.status \notin Decided
         /\ Intended => Intended'
         /\ Intended' => Intended \/ CrossedBoundary
  BY <1>0, <1>2, DecisionsNamed DEF Intended, RowTypes, JournalTypes
<1>5. CASE UNCHANGED journal
  BY <1>1, <1>5, QuietKeeps DEF rowVars
<1> QED BY <1>1, <1>3, <1>4, <1>5, UndecidedKeeps

(* A row is decided as the owner answered, or as an operator says when the *)
(* row is escalated.                                                       *)
LEMMA DecidingSteps ==
  ASSUME IInv, NEW a \in Actors,
         Finalize(a) \/ (a \in Operators /\ Resolve(a))
  PROVE  Kept
<1>0. RowTypes /\ RowInv /\ StepInv(a)
  BY RowFacts DEF IInv
<1> DEFINE outcome == local[a].reply
           decision == SubmissionStatusOf[outcome]
<1>1. UNCHANGED <<run, artifact, expired, wire, effect>>
  BY DEF Finalize, Resolve, Only, runVars, ownerVars
<1>2. outcome \in Outcomes
  <2>1. CASE Finalize(a)
    BY <1>0, <2>1 DEF Finalize, StepInv
  <2>2. CASE a \in Operators /\ Resolve(a)
    BY <2>2 DEF IInv, OperatorInv, Resolve
  <2> QED BY <2>1, <2>2
<1>3. \/ UNCHANGED journal
      \/ /\ journal.status \in {"issued", "escalated"}
         /\ journal'.status = decision
         /\ \/ /\ journal.status = "issued" /\ journal' = [journal EXCEPT !.status = decision]
               /\ effect = outcome \/ expired
            \/ /\ journal' = [journal EXCEPT !.status = decision, !.resolvedBy = {a}]
               /\ a \in Operators
  <2>1. CASE Finalize(a)
    <3>1. CASE UNCHANGED journal
      BY <3>1
    <3>2. CASE journal # journal'
      <4>1. Finalizable(decision) /\ journal' = [journal EXCEPT !.status = decision]
        BY <2>1, <3>2 DEF Finalize
      <4>2. CASE journal.status = decision
        BY <1>0, <3>2, <4>1, <4>2 DEF RowTypes, JournalTypes
      <4>3. CASE journal.status = "issued" /\ journal.status # decision
        <5>1. local[a].at = "finalize"
          BY <2>1 DEF Finalize
        <5>2. effect = outcome \/ expired
          BY <1>0, <4>3, <5>1 DEF StepInv
        <5> QED BY <1>0, <4>1, <4>3, <5>2 DEF RowTypes, JournalTypes
      <4> QED BY <4>1, <4>2, <4>3 DEF Finalizable
    <3> QED BY <3>1, <3>2
  <2>2. CASE a \in Operators /\ Resolve(a)
    BY <1>0, <2>2 DEF Resolve, RowTypes, JournalTypes
  <2> QED BY <2>1, <2>2
<1>4. CASE UNCHANGED journal
  BY <1>1, <1>4, QuietKeeps DEF rowVars
<1>5. CASE journal # journal'
  <2>1. /\ journal.status \in {"issued", "escalated"} /\ journal.status \notin Decided
        /\ journal'.status = decision /\ decision \in Decided
        /\ decision \notin {"none", "recorded", "issued", "escalated"}
    BY <1>2, <1>3, <1>5, DecisionsNamed, OutcomesMapped
  <2>2. RowTypes'
    <3>1. JournalTypes /\ decision \in Decided
      BY <1>0, <2>1 DEF RowTypes
    <3>2. ASSUME journal' = [journal EXCEPT !.status = decision] PROVE JournalTypes'
      BY <3>1, <3>2 DEF JournalTypes
    <3>3. ASSUME a \in Operators, journal' = [journal EXCEPT !.status = decision, !.resolvedBy = {a}]
          PROVE  JournalTypes'
      BY <3>1, <3>3 DEF JournalTypes
    <3>4. JournalTypes'
      BY <1>3, <1>5, <3>2, <3>3
    <3> QED BY <1>0, <1>1, <3>4 DEF RowTypes
  <2>3. Intended /\ Intended'
    BY <2>1 DEF Intended
  <2>4. RunInv' /\ BoundaryInv' /\ Onward
    BY <1>0, <1>1, <2>1, <2>3 DEF RowInv, RunInv, BoundaryInv, CrossedBoundary, Onward
  <2>5. RunFollowsJournal'
    <3>1. /\ run.status \notin {"completed", "conflict"} /\ ~artifact
          /\ ~(run.status = "failed" /\ run.version = 3)
          /\ ~(run.status = "failed" /\ run.version < 3)
      BY <1>0, <2>1, DecisionsNamed DEF RowInv, RecordsFollowOwner, RunFollowsJournal
    <3> QED BY <1>1, <3>1 DEF RunFollowsJournal
  <2>6. JournalFollowsOwner'
    <3>1. CASE journal' = [journal EXCEPT !.status = decision] /\ (effect = outcome \/ expired)
      BY <1>0, <1>1, <1>2, <2>1, <3>1, OutcomesMapped DEF JournalFollowsOwner
    <3>2. CASE journal' = [journal EXCEPT !.status = decision, !.resolvedBy = {a}]
      BY <1>0, <3>2 DEF JournalFollowsOwner, RowTypes, JournalTypes
    <3> QED BY <1>3, <1>5, <3>1, <3>2
  <2> QED BY <2>2, <2>4, <2>5, <2>6 DEF Kept, RowInv, RecordsFollowOwner
<1> QED BY <1>4, <1>5

(* The artifact is committed for an applied row; a command leaves with its *)
(* intent recorded; the owner answers what it redeemed.                    *)
LEMMA OwnerSteps ==
  ASSUME IInv, NEW a \in Actors,
         EnsureCommitted(a) \/ (a \in Executions /\ Send(a)) \/ (a \in Executions /\ Arrive(a))
  PROVE  Kept
<1>0. RowTypes /\ RowInv /\ StepInv(a)
  BY RowFacts DEF IInv
<1>1. CASE EnsureCommitted(a)
  <2>1. journal.status = "applied"
    BY <1>0, <1>1 DEF EnsureCommitted, StepInv, SubmissionStatusOf
  <2>2. /\ UNCHANGED <<run, journal, expired, wire, effect>>
        /\ artifact' = TRUE
    BY <1>1 DEF EnsureCommitted, Only, ownerVars
  <2> QED BY <1>0, <2>1, <2>2
          DEF Kept, RowTypes, JournalTypes, RowInv, RunInv, BoundaryInv, Intended, CrossedBoundary,
              RecordsFollowOwner, RunFollowsJournal, JournalFollowsOwner, Onward
<1>2. CASE a \in Executions /\ Send(a)
  <2>1. Intended
    BY <1>0, <1>2 DEF Send, StepInv
  <2>2. /\ UNCHANGED <<run, journal, artifact, expired, effect>>
        /\ wire' = wire \cup {a}
    BY <1>2 DEF Send, runVars
  <2> QED BY <1>0, <1>2, <2>1, <2>2
          DEF Kept, RowTypes, JournalTypes, RowInv, RunInv, BoundaryInv, Intended, CrossedBoundary,
              RecordsFollowOwner, RunFollowsJournal, JournalFollowsOwner, Onward
<1>3. CASE a \in Executions /\ Arrive(a)
  <2>1. PICK outcome \in Outcomes :
          /\ ~expired /\ effect # "none" => outcome = effect
          /\ effect' = IF expired THEN effect ELSE outcome
    BY <1>3 DEF Arrive
  <2>2. /\ UNCHANGED <<run, journal, artifact, expired>>
        /\ wire' = wire \ {a} /\ a \in wire
    BY <1>3 DEF Arrive, runVars
  <2>3. Intended /\ Onward
    BY <1>0, <2>1, <2>2 DEF RowInv, BoundaryInv, Onward, Intended, CrossedBoundary
  <2>4. RunInv' /\ BoundaryInv' /\ RunFollowsJournal' /\ RowTypes'
    BY <1>0, <2>1, <2>2, <2>3 DEF RowTypes, JournalTypes, RowInv, RunInv, BoundaryInv, Intended,
                                  CrossedBoundary, RecordsFollowOwner, RunFollowsJournal
  <2>5. JournalFollowsOwner'
    <3> SUFFICES ASSUME journal.status \in Decided, journal.resolvedBy = {}, ~expired
                 PROVE  effect' = DomainOutcomeOf(journal.status)
      BY <2>2 DEF JournalFollowsOwner
    <3>1. effect = DomainOutcomeOf(journal.status)
      BY <1>0 DEF RowInv, RecordsFollowOwner, JournalFollowsOwner
    <3>2. effect # "none"
      BY <3>1, DecisionsNamed DEF Outcomes
    <3> QED BY <2>1, <3>1, <3>2
  <2> QED BY <2>3, <2>4, <2>5 DEF Kept, RowInv, RecordsFollowOwner
<1> QED BY <1>1, <1>2, <1>3

LEMMA PassiveKeeps == ASSUME IInv, Expire \/ Withdraw PROVE Kept
<1>1. CASE Expire
  <2>1. UNCHANGED <<run, journal, artifact, wire, effect>> /\ expired' = TRUE
    BY <1>1 DEF Expire, runVars
  <2> QED BY RowFacts, <2>1
          DEF Kept, RowTypes, JournalTypes, RowInv, RunInv, BoundaryInv, Intended, CrossedBoundary,
              RecordsFollowOwner, RunFollowsJournal, JournalFollowsOwner, Onward
<1>2. CASE Withdraw
  BY <1>2, QuietKeeps DEF Withdraw, runVars, rowVars
<1> QED BY <1>1, <1>2

LEMMA ActorKeeps == ASSUME IInv, NEW a \in Actors, ActorStep(a) PROVE Kept
<1>1. ASSUME SettleDomain(a) PROVE Kept
  BY <1>1, QuietSteps, RunSteps, DecidingSteps, OwnerSteps DEF SettleDomain
<1>2. ASSUME a \in Executions, Execute(a) PROVE Kept
  BY <1>1, <1>2, QuietSteps, RunSteps, JournalSteps, DecidingSteps, OwnerSteps
     DEF Execute, Commit, Terminalize
<1>3. ASSUME a \in Operators, ResolveEscalation(a) PROVE Kept
  BY <1>1, <1>3, QuietSteps, DecidingSteps DEF ResolveEscalation
<1> QED BY <1>2, <1>3, QuietSteps, OwnerSteps DEF ActorStep

-----------------------------------------------------------------------------
(* Nobody's steps disturb what another actor relies on.                    *)

LEMMA PastStays ==
  ASSUME RowTypes, RunInv, Onward, RowTypes', NEW s \in RunStates, Past(s, run)
  PROVE  Past(s, run')
BY DEF Past, Onward, RunInv, RowTypes, RunStates

LEMMA OthersSteps ==
  ASSUME IInv, Kept, NEW a \in Actors, local'[a] = local[a]
  PROVE  StepInv(a)'
<1>0. /\ RowTypes /\ RunInv /\ StepInv(a) /\ local[a] \in Local
      /\ Onward /\ RowTypes'
  BY RowFacts, LocalTypes DEF IInv, Kept
<1> DEFINE l == local[a]
<1>1. Past(l.snapshot, run')
  BY <1>0, PastStays DEF StepInv, Local
<1>2. l.at = "finalize" =>
        /\ l.reply \in Outcomes
        /\ effect' = l.reply \/ expired' \/ journal'.status = SubmissionStatusOf[l.reply]
  BY <1>0, OutcomesMapped DEF StepInv, Onward, Outcomes
<1>3. /\ l.at \in {"artifact", "settle"} =>
           l.reply \in Outcomes /\ journal'.status = SubmissionStatusOf[l.reply]
      /\ l.at = "settle" /\ l.reply = "confirmed" => artifact'
  BY <1>0, OutcomesMapped DEF StepInv, Onward
<1>4. /\ l.at \in {"journal", "mark", "send"} => CrossedBoundary'
      /\ l.at = "send" => Intended'
  BY <1>0 DEF StepInv, Onward
<1> QED BY <1>0, <1>1, <1>2, <1>3, <1>4 DEF StepInv

(* The promise made to an operator who was told "ok".                      *)
Told(o) ==
  answer[o] = "ok" =>
    /\ o \in journal.resolvedBy
    /\ journal.status = SubmissionStatusOf[local[o].reply]
    /\ run.status # "awaiting_domain_confirmation"

LEMMA SettledStays ==
  ASSUME IInv, Kept, Intended, run.status # "awaiting_domain_confirmation"
  PROVE  run'.status # "awaiting_domain_confirmation"
<1>1. run.version >= 3
  BY RowFacts DEF RowInv, BoundaryInv, CrossedBoundary
<1>2. run'.version >= 3 /\ RunInv' /\ run' \in RunStates
  BY <1>1, RowFacts DEF Kept, RowTypes, RowInv, Onward, RunStates
<1> QED BY <1>2 DEF RunInv, Versions, RunStates

LEMMA OthersOperators ==
  ASSUME IInv, Kept, NEW o \in Operators, local'[o] = local[o], answer'[o] = answer[o]
  PROVE  OperatorInv(o)' /\ Told(o)'
<1> DEFINE l == local[o]
           resolved == o \in journal.resolvedBy /\ journal.status = SubmissionStatusOf[l.reply]
<1>0. OperatorInv(o) /\ Told(o) /\ Onward
  BY DEF IInv, AnsweredMeansSettled, Told, Kept
<1>1. ASSUME resolved, l.reply \in Outcomes
      PROVE  /\ o \in journal'.resolvedBy /\ journal'.status = SubmissionStatusOf[l.reply]
             /\ Intended
  BY <1>0, <1>1, OutcomesMapped DEF Onward, Intended
<1>2. OperatorInv(o)'
  BY <1>0, <1>1, SettledStays DEF OperatorInv, Deciding
<1>3. Told(o)'
  BY <1>0, <1>1, SettledStays DEF OperatorInv, Told
<1> QED BY <1>2, <1>3

-----------------------------------------------------------------------------
(* The acting actor's own facts.                                           *)

LEMMA IdleStep ==
  ASSUME IInv, Kept, NEW a \in Actors, NEW l, Moved(a, l), l.at = "idle", l.snapshot = Reviewed,
         l.stage = "commit"
  PROVE  StepInv(a)'
<1>1. Past(Reviewed, run')
  BY DEF Kept, RowTypes, RowInv, RunInv, Reviewed, Past, Versions, RunStates, Terminal
<1>2. local'[a] = l
  BY MovedFacts DEF IInv
<1> QED BY <1>1, <1>2 DEF StepInv

LEMMA FinishedStep ==
  ASSUME IInv, Kept, NEW a \in Actors, NEW result \in Results, Finish(a, result),
         local[a].stage = "terminalize" => result \in {"failed", "superseded", "error"}
  PROVE  StepInv(a)'
<1>1. Past(Reviewed, run')
  BY DEF Kept, RowTypes, RowInv, RunInv, Reviewed, Past, Versions, RunStates, Terminal
<1>2. local'[a] = Finished(a, result) /\ local[a] \in Local
  BY HasFinished, MovedFacts, LocalTypes DEF IInv
<1>3. /\ local'[a].at = "return" /\ local'[a].snapshot = Reviewed
      /\ local'[a].stage = local[a].stage /\ local'[a].result = result
  BY <1>2 DEF Finished, Local
<1> QED BY <1>1, <1>3 DEF StepInv

Plain == Locations \ {"journal", "mark", "send", "finalize", "artifact", "settle", "budget"}

LEMMA PlainStep ==
  ASSUME IInv, Kept, NEW a \in Actors, NEW location \in Plain, Goto(a, location),
         local[a].stage # "terminalize"
  PROVE  StepInv(a)'
<1>1. local'[a] = [local[a] EXCEPT !.at = location] /\ local[a] \in Local /\ RunInv /\ RowTypes
  BY GoneTo, MovedFacts, LocalTypes, RowFacts DEF IInv, Plain
<1>2. /\ local'[a].at = location /\ local'[a].stage = local[a].stage
      /\ local'[a].snapshot = local[a].snapshot
  BY <1>1 DEF Local
<1>3. Past(local'[a].snapshot, run')
  BY <1>1, <1>2, PastStays DEF Kept, IInv, StepInv, Local
<1> QED BY <1>2, <1>3 DEF StepInv, Plain

LEMMA BegunStep ==
  ASSUME IInv, Kept, NEW x \in Actors, LoadCommit(x) \/ LoadTerminal(x)
  PROVE  StepInv(x)'
<1>1. run' = run /\ run \in RunStates /\ TypeOK
  BY RowFacts DEF LoadCommit, LoadTerminal, Begin, runVars, RowTypes, IInv
<1>2. PICK l : /\ Moved(x, l) /\ l.snapshot = run
               /\ \/ l.at \in {"gate", "return"} /\ l.stage = "commit"
                  \/ l.at = "budget" /\ run.status = "completed" /\ l.stage = "commit"
                  \/ l.at = "journal" /\ run.status = "awaiting_domain_confirmation" /\ l.stage = "commit"
                  \/ l.at = "budget" /\ run.status = "failed" /\ l.stage = "terminalize"
                  \/ l.at = "return" /\ l.result \in {"superseded", "error"} /\ l.stage = "terminalize"
                  \/ l.at = "fail" /\ l.stage = "terminalize"
  <2>1. CASE LoadCommit(x)
    <3> DEFINE location == CASE run.status = "completed" -> "budget"
          [] run.status \in {"conflict", "failed"} -> "return"
          [] run.status = "awaiting_domain_confirmation" -> "journal"
          [] OTHER -> "gate"
               result == IF run.status \in {"conflict", "failed"} THEN run.status ELSE "none"
    <3>1. Begin(x, "commit", location, result)
      BY <2>1 DEF LoadCommit
    <3>2. location \in Locations /\ result \in Results /\ "commit" \in Stages
      BY DEF Locations, Results, Stages
    <3> DEFINE l == [Idle EXCEPT !.at = IF run.status = "cancelling" THEN "return" ELSE location,
                    !.stage = "commit", !.wake = wf.wake, !.snapshot = run,
                    !.result = IF run.status = "cancelling" THEN "superseded" ELSE result]
    <3>3. Moved(x, l)
      BY <1>1, <3>1, <3>2, BegunTypes
    <3>4. /\ l.snapshot = run /\ l.stage = "commit"
          /\ l.at = IF run.status = "cancelling" THEN "return" ELSE location
          /\ l.result = IF run.status = "cancelling" THEN "superseded" ELSE result
      BY DEF Idle
    <3> HIDE DEF l
    <3> QED BY <3>3, <3>4
  <2>2. CASE LoadTerminal(x)
    <3> DEFINE location == CASE run.status = "awaiting_domain_confirmation" -> "return"
          [] run.status = "failed" -> "budget"
          [] OTHER -> "fail"
               result == IF run.status = "awaiting_domain_confirmation" THEN "error" ELSE "none"
    <3>1. Begin(x, "terminalize", location, result)
      BY <2>2 DEF LoadTerminal
    <3>2. location \in Locations /\ result \in Results /\ "terminalize" \in Stages
      BY DEF Locations, Results, Stages
    <3> DEFINE l == [Idle EXCEPT !.at = IF run.status = "cancelling" THEN "return" ELSE location,
                    !.stage = "terminalize", !.wake = wf.wake, !.snapshot = run,
                    !.result = IF run.status = "cancelling" THEN "superseded" ELSE result]
    <3>3. Moved(x, l)
      BY <1>1, <3>1, <3>2, BegunTypes
    <3>4. /\ l.snapshot = run /\ l.stage = "terminalize"
          /\ l.at = IF run.status = "cancelling" THEN "return" ELSE location
          /\ l.result = IF run.status = "cancelling" THEN "superseded" ELSE result
      BY DEF Idle
    <3> HIDE DEF l
    <3> QED BY <3>3, <3>4
  <2> QED BY <2>1, <2>2
<1>3. local'[x] = l
  BY <1>1, <1>2, MovedFacts
<1> QED BY <1>1, <1>2, <1>3 DEF StepInv, Past, CrossedBoundary

LEMMA AppliedStep ==
  ASSUME IInv, Kept, NEW a \in Actors, NEW from \in SUBSET Extensible, NEW target \in Reachable,
         NEW next \in {"recheck", "mark", "budget", "return"},
         next = "return" => target \in Results,
         Apply(a, from, target, next),
         next = "mark" => target = "awaiting_domain_confirmation",
         next = "budget" => target \in {"completed", "failed"},
         local[a].stage = "terminalize" => next = "budget" /\ target = "failed"
  PROVE  StepInv(a)'
<1>0. local[a] \in Local /\ next \in Locations /\ TypeOK
  BY LocalTypes DEF IInv, Locations
<1>1. CASE Moved(a, Finished(a, "superseded"))
  <2>1. Finish(a, "superseded")
    BY <1>1 DEF Moved, Finish, Finished
  <2> QED BY <2>1, FinishedStep DEF Results
<1>2. CASE /\ run' = [status |-> target, version |-> local[a].snapshot.version + 1]
           /\ Moved(a, Advanced(a, target, next))
  <2>1. local'[a] = Advanced(a, target, next)
    BY <1>0, <1>2, MovedFacts
  <2>2. /\ local'[a].at = next /\ local'[a].snapshot = run' /\ local'[a].stage = local[a].stage
    BY <1>0, <1>2, <2>1 DEF Advanced, Local
  <2>3. run'.status = target
    BY <1>2
  <2> QED BY <2>2, <2>3 DEF StepInv, Past, CrossedBoundary
<1> QED BY <1>0, <1>1, <1>2, Applied

LEMMA RunStepsOwn ==
  ASSUME IInv, Kept, NEW a \in Actors,
         Approve(a) \/ BeginDomainConfirmation(a) \/ RecordFailure(a) \/ Settle(a)
  PROVE  StepInv(a)'
<1>0. StepInv(a)
  BY DEF IInv
<1>1. CASE Approve(a)
  BY <1>0, <1>1, AppliedStep DEF Approve, StepInv, Extensible, Reachable
<1>2. CASE BeginDomainConfirmation(a)
  BY <1>0, <1>2, AppliedStep DEF BeginDomainConfirmation, StepInv, Extensible, Reachable
<1>3. CASE RecordFailure(a)
  BY <1>0, <1>3, AppliedStep DEF RecordFailure, StepInv, Extensible, Reachable
<1>4. CASE Settle(a)
  <2> DEFINE target == RunStateOf[local[a].reply]
             next == IF local[a].reply = "conflict" THEN "return" ELSE "budget"
  <2>1. local[a].reply \in Outcomes /\ local[a].stage # "terminalize"
    BY <1>0, <1>4 DEF Settle, StepInv
  <2>2. /\ target \in Reachable \cap Results
        /\ next = "budget" => target \in {"completed", "failed"}
    BY <2>1 DEF RunStateOf, Outcomes, Reachable, Results
  <2>3. Apply(a, {"awaiting_domain_confirmation"}, target, next)
    BY <1>4 DEF Settle
  <2>4. next \in {"recheck", "mark", "budget", "return"} /\ next # "mark"
    OBVIOUS
  <2>5. {"awaiting_domain_confirmation"} \in SUBSET Extensible
    BY DEF Extensible
  <2> HIDE DEF target, next
  <2> QED BY <2>1, <2>2, <2>3, <2>4, <2>5, AppliedStep
<1> QED BY <1>1, <1>2, <1>3, <1>4

LEMMA CommitStepsOwn ==
  ASSUME IInv, Kept, NEW x \in Actors,
         \/ CheckGate(x) \/ Issue(x) \/ Recheck(x) \/ EnsureSubmission(x) \/ MarkIssued(x)
         \/ Send(x) \/ Timeout(x) \/ AskOwner(x) \/ RecordUncertainty(x) \/ Escalate(x)
  PROVE  StepInv(x)'
<1>0. /\ StepInv(x) /\ local[x] \in Local /\ TypeOK /\ RowTypes /\ RunInv
      /\ local[x].stage # "terminalize"
  BY LocalTypes, RowFacts
     DEF IInv, StepInv, CheckGate, Issue, Recheck, Authorized, EnsureSubmission, MarkIssued, Send,
         Timeout, AskOwner, RecordUncertainty, Escalate
<1>1. ASSUME NEW location \in Plain, Goto(x, location) PROVE StepInv(x)'
  BY <1>0, <1>1, PlainStep
<1>2. ASSUME NEW result \in Results, Finish(x, result) PROVE StepInv(x)'
  BY <1>0, <1>2, FinishedStep
<1>3. CASE CheckGate(x) \/ Issue(x) \/ Recheck(x)
  BY <1>1, <1>2, <1>3 DEF CheckGate, Issue, Recheck, Authorized, Plain, Locations, Results
<1>4. CASE EnsureSubmission(x) \/ Send(x) \/ Timeout(x)
  BY <1>1, <1>2, <1>4 DEF EnsureSubmission, Send, Timeout, Plain, Locations, Results
<1>5. CASE MarkIssued(x)
  <2>1. CASE Finish(x, "error")
    BY <1>2, <2>1 DEF Results
  <2>2. CASE Goto(x, "send") /\ journal' = [journal EXCEPT !.status = "issued"]
    <3>1. Intended' /\ CrossedBoundary'
      BY <1>0, <1>5, <2>2
         DEF MarkIssued, StepInv, Kept, Onward, Intended, RowTypes, JournalTypes
    <3>2. local'[x] = [local[x] EXCEPT !.at = "send"]
      BY <1>0, <2>2, GoneTo, MovedFacts DEF Locations
    <3>3. /\ local'[x].at = "send" /\ local'[x].stage = local[x].stage
          /\ local'[x].snapshot = local[x].snapshot
      BY <1>0, <3>2 DEF Local
    <3>4. Past(local'[x].snapshot, run')
      BY <1>0, <3>3, PastStays DEF Kept, StepInv, Local
    <3> QED BY <1>0, <3>1, <3>3, <3>4 DEF StepInv
  <2> QED BY <1>5, <2>1, <2>2 DEF MarkIssued
<1>6. CASE AskOwner(x)
  <2>1. CASE effect = "none"
    BY <1>1, <1>2, <1>6, <2>1 DEF AskOwner, Plain, Locations, Results
  <2>2. CASE effect # "none"
    <3>1. local' = [local EXCEPT ![x].at = "finalize", ![x].reply = effect] /\ effect' = effect
      BY <1>6, <2>2 DEF AskOwner, Only, ownerVars
    <3>2. /\ local'[x].at = "finalize" /\ local'[x].stage = local[x].stage
          /\ local'[x].snapshot = local[x].snapshot /\ local'[x].reply = effect
      BY <1>0, <3>1, LocalTypes DEF Local
    <3>3. Past(local'[x].snapshot, run')
      BY <1>0, <3>2, PastStays DEF Kept, StepInv, Local
    <3> QED BY <1>0, <2>2, <3>1, <3>2, <3>3 DEF StepInv, RowTypes
  <2> QED BY <2>1, <2>2
<1>7. CASE RecordUncertainty(x) \/ Escalate(x)
  BY <1>1, <1>2, <1>7 DEF RecordUncertainty, Escalate, Hold, Plain, Locations, Results
<1> QED BY <1>3, <1>4, <1>5, <1>6, <1>7

(* The places of the settlement, reached with a reply.                     *)
LEMMA SettlingStep ==
  ASSUME IInv, Kept, NEW a \in Actors,
         local[a].stage # "terminalize",
         local'[a].stage = local[a].stage,
         local'[a].snapshot = local[a].snapshot,
         local'[a].reply \in Outcomes,
         \/ /\ local'[a].at = "finalize"
            /\ \/ effect' = local'[a].reply \/ expired'
               \/ journal'.status = SubmissionStatusOf[local'[a].reply]
         \/ /\ local'[a].at \in {"artifact", "settle"}
            /\ journal'.status = SubmissionStatusOf[local'[a].reply]
            /\ local'[a].at = "artifact" => local'[a].reply = "confirmed"
            /\ local'[a].at = "settle" /\ local'[a].reply = "confirmed" => artifact'
  PROVE  StepInv(a)'
<1>1. Past(local'[a].snapshot, run')
  BY LocalTypes, RowFacts, PastStays DEF IInv, Kept, RowInv, StepInv, Local
<1> QED BY <1>1 DEF StepInv

LEMMA ReadJournalOwn ==
  ASSUME IInv, Kept, NEW x \in Actors, ReadJournal(x)
  PROVE  StepInv(x)'
<1>0. /\ StepInv(x) /\ local[x] \in Local /\ TypeOK /\ RowTypes /\ RunInv
      /\ local[x].stage # "terminalize" /\ CrossedBoundary /\ UNCHANGED journal
  BY LocalTypes, RowFacts DEF IInv, StepInv, ReadJournal
<1>1. CASE journal.status = "none"
  BY <1>0, <1>1, FinishedStep, DecisionsNamed DEF ReadJournal, Results
<1>2. CASE journal.status \in {"recorded", "issued", "escalated"}
  <2>1. /\ local'[x].at \in {"mark", "ask"} /\ local'[x].stage = local[x].stage
        /\ local'[x].snapshot = local[x].snapshot
    BY <1>0, <1>2, LocalTypes, DecisionsNamed DEF ReadJournal, Goto, Local
  <2>2. Past(local'[x].snapshot, run')
    BY <1>0, <2>1, PastStays DEF Kept, StepInv, Local
  <2>3. CrossedBoundary'
    BY <1>0 DEF Kept, Onward
  <2> QED BY <1>0, <2>1, <2>2, <2>3 DEF StepInv
<1>3. CASE journal.status \in Decided
  <2>1. local' = [local EXCEPT ![x].at = "finalize", ![x].reply = DomainOutcomeOf(journal.status)]
    BY <1>0, <1>3, DecisionsNamed DEF ReadJournal
  <2>2. /\ local'[x].at = "finalize" /\ local'[x].reply = DomainOutcomeOf(journal.status)
        /\ local'[x].stage = local[x].stage /\ local'[x].snapshot = local[x].snapshot
    BY <1>0, <2>1, LocalTypes DEF Local
  <2> QED BY <1>0, <1>3, <2>2, DecisionsNamed, SettlingStep
<1> QED BY <1>0, <1>1, <1>2, <1>3 DEF ReadJournal

LEMMA SettlementOwn ==
  ASSUME IInv, Kept, NEW a \in Actors,
         Finalize(a) \/ EnsureCommitted(a) \/ SettleRunBudget(a)
  PROVE  StepInv(a)'
<1>0. /\ StepInv(a) /\ local[a] \in Local /\ TypeOK /\ RowTypes /\ RunInv
  BY LocalTypes, RowFacts DEF IInv
<1>1. CASE Finalize(a)
  <2> DEFINE outcome == local[a].reply
             next == IF outcome = "confirmed" THEN "artifact" ELSE "settle"
  <2>1. local[a].stage # "terminalize" /\ outcome \in Outcomes
    BY <1>0, <1>1 DEF Finalize, StepInv
  <2>2. RunStateOf[outcome] \in Results
    BY <2>1, OutcomesMapped DEF Results
  <2>3. ASSUME NEW result \in Results, Finish(a, result) PROVE StepInv(a)'
    BY <2>1, <2>3, FinishedStep
  <2>4. ASSUME journal' = [journal EXCEPT !.status = SubmissionStatusOf[outcome]], Goto(a, next)
        PROVE  StepInv(a)'
    <3>1. /\ local'[a].at = next /\ local'[a].reply = outcome
          /\ local'[a].stage = local[a].stage /\ local'[a].snapshot = local[a].snapshot
      BY <1>0, <2>4, LocalTypes DEF Goto, Local
    <3>2. journal'.status = SubmissionStatusOf[outcome]
      BY <1>0, <2>4 DEF RowTypes, JournalTypes
    <3> QED BY <2>1, <3>1, <3>2, SettlingStep
  <2> QED BY <1>1, <2>2, <2>3, <2>4 DEF Finalize, Results
<1>2. CASE EnsureCommitted(a)
  <2>1. /\ local'[a].at = "settle" /\ local'[a].reply = local[a].reply
        /\ local'[a].stage = local[a].stage /\ local'[a].snapshot = local[a].snapshot
    BY <1>0, <1>2, LocalTypes DEF EnsureCommitted, Goto, Local
  <2>2. UNCHANGED journal /\ artifact' = TRUE
    BY <1>2 DEF EnsureCommitted
  <2> QED BY <1>0, <1>2, <2>1, <2>2, SettlingStep DEF EnsureCommitted, StepInv
<1>3. CASE SettleRunBudget(a)
  <2>1. /\ local[a].snapshot.status \in {"completed", "failed"}
        /\ local[a].stage = "terminalize" => local[a].snapshot.status = "failed"
    BY <1>0, <1>3 DEF SettleRunBudget, StepInv
  <2> QED BY <1>3, <2>1, FinishedStep DEF SettleRunBudget, Results
<1> QED BY <1>1, <1>2, <1>3

LEMMA ArriveOwn ==
  ASSUME IInv, Kept, NEW x \in Actors, Arrive(x)
  PROVE  StepInv(x)'
<1>0. StepInv(x) /\ local[x] \in Local
  BY LocalTypes DEF IInv
<1>1. PICK outcome \in Outcomes :
        /\ effect' = IF expired THEN effect ELSE outcome
        /\ local' = IF local[x].at # "sent" THEN local
                    ELSE [local EXCEPT ![x].at = "finalize", ![x].reply = outcome]
  BY DEF Arrive
<1>2. CASE local[x].at # "sent"
  BY <1>1, <1>2, OthersSteps
<1>3. CASE local[x].at = "sent"
  <2>1. /\ local'[x].at = "finalize" /\ local'[x].reply = outcome
        /\ local'[x].stage = local[x].stage /\ local'[x].snapshot = local[x].snapshot
    BY <1>0, <1>1, <1>3, LocalTypes DEF Local, IInv
  <2>2. local[x].stage # "terminalize"
    BY <1>0, <1>3 DEF StepInv
  <2>3. UNCHANGED expired
    BY DEF Arrive
  <2> QED BY <1>1, <2>1, <2>2, <2>3, SettlingStep
<1> QED BY <1>2, <1>3

LEMMA OperatorStepsOwn ==
  ASSUME IInv, Kept, NEW o \in Operators,
         LoadResolution(o) \/ ReadEscalation(o) \/ Resolve(o)
  PROVE  StepInv(o)'
<1>0. /\ o \in Actors /\ StepInv(o) /\ OperatorInv(o) /\ local[o] \in Local /\ TypeOK
      /\ RowTypes /\ RunInv
  BY LocalTypes, RowFacts DEF IInv, Actors
<1>1. CASE LoadResolution(o)
  <2>1. PICK outcome \in Outcomes :
          local' = [local EXCEPT ![o] = [Idle EXCEPT !.at = "read", !.snapshot = run,
                                                     !.reply = outcome]]
    BY <1>1 DEF LoadResolution
  <2>2. local'[o].at = "read" /\ local'[o].snapshot = run /\ local'[o].stage = "commit"
    BY <1>0, <2>1, LocalTypes DEF Idle
  <2>3. run' = run
    BY <1>1 DEF LoadResolution, runVars
  <2> QED BY <2>2, <2>3 DEF StepInv, Past
<1>2. ASSUME Goto(o, "finalize"), journal'.status = SubmissionStatusOf[local[o].reply],
             local[o].at # "idle", local[o].stage # "terminalize"
      PROVE  StepInv(o)'
  <2>1. /\ local'[o].at = "finalize" /\ local'[o].reply = local[o].reply
        /\ local'[o].stage = local[o].stage /\ local'[o].snapshot = local[o].snapshot
    BY <1>0, <1>2, LocalTypes DEF Goto, Local
  <2> QED BY <1>0, <1>2, <2>1, SettlingStep DEF OperatorInv
<1>3. CASE ReadEscalation(o)
  <2>1. /\ local[o].at # "idle" /\ local[o].stage # "terminalize" /\ UNCHANGED journal
    BY <1>0, <1>3 DEF ReadEscalation, StepInv
  <2>2. ASSUME Goto(o, "resolve") PROVE StepInv(o)'
    BY <1>0, <2>1, <2>2, PlainStep DEF Plain, Locations
  <2>3. ASSUME Finish(o, "refused") PROVE StepInv(o)'
    BY <1>0, <2>1, <2>3, FinishedStep DEF Results
  <2> QED BY <1>2, <1>3, <2>1, <2>2, <2>3 DEF ReadEscalation
<1>4. CASE Resolve(o)
  <2>1. /\ local[o].at # "idle" /\ local[o].stage # "terminalize"
    BY <1>0, <1>4 DEF Resolve, StepInv
  <2>2. CASE Finish(o, "refused")
    BY <1>0, <2>1, <2>2, FinishedStep DEF Results
  <2>3. CASE Goto(o, "finalize") /\ journal'.status = SubmissionStatusOf[local[o].reply]
    BY <1>2, <2>1, <2>3
  <2> QED BY <1>0, <1>4, <2>2, <2>3 DEF Resolve, RowTypes, JournalTypes
<1> QED BY <1>1, <1>3, <1>4

LEMMA EndingsOwn ==
  ASSUME IInv, Kept, NEW a \in Actors,
         RecordStep(a) \/ AnswerOperator(a) \/ Crash(a) \/ CallFails(a)
  PROVE  StepInv(a)'
<1>0. local[a] \in Local /\ TypeOK /\ StepInv(a)
  BY LocalTypes DEF IInv
<1>1. Moved(a, Idle) => StepInv(a)'
  BY IdleStep DEF Idle
<1>2. Moved(a, [Idle EXCEPT !.reply = local[a].reply]) => StepInv(a)'
  <2> DEFINE l == [Idle EXCEPT !.reply = local[a].reply]
  <2>1. l.at = "idle" /\ l.snapshot = Reviewed /\ l.stage = "commit"
    BY DEF Idle
  <2> HIDE DEF l
  <2>2. Moved(a, l) => StepInv(a)'
    BY <2>1, IdleStep
  <2> QED BY <2>2 DEF l
<1>3. CASE RecordStep(a) \/ AnswerOperator(a) \/ Crash(a)
  <2>1. Idle \in Local /\ [Idle EXCEPT !.reply = local[a].reply] \in Local
    BY <1>0, IdleTypes DEF Local
  <2> QED BY <1>1, <1>2, <1>3, <2>1 DEF RecordStep, AnswerOperator, Crash, Moved
<1>4. CASE CallFails(a)
  <2>1. local[a].stage = "terminalize" => local[a].at # "count"
    BY <1>0 DEF StepInv
  <2>2. Hold \in Results /\ "error" \in Results
    BY DEF Hold, Results
  <2> QED BY <1>4, <2>1, <2>2, FinishedStep DEF CallFails
<1> QED BY <1>3, <1>4

LEMMA ActorOwn ==
  ASSUME IInv, Kept, NEW a \in Actors, ActorStep(a)
  PROVE  StepInv(a)'
<1>1. ASSUME SettleDomain(a) PROVE StepInv(a)'
  BY <1>1, RunStepsOwn, SettlementOwn DEF SettleDomain
<1>2. ASSUME Execute(a) PROVE StepInv(a)'
  BY <1>1, <1>2, BegunStep, RunStepsOwn, CommitStepsOwn, ReadJournalOwn, EndingsOwn
     DEF Execute, Commit, Terminalize
<1>3. ASSUME a \in Operators, ResolveEscalation(a) PROVE StepInv(a)'
  BY <1>1, <1>3, OperatorStepsOwn, EndingsOwn DEF ResolveEscalation
<1> QED BY <1>2, <1>3, ArriveOwn, EndingsOwn DEF ActorStep

-----------------------------------------------------------------------------
(* The operators' own facts.                                               *)

LEMMA OperatorFacts ==
  ASSUME IInv, NEW o \in Operators
  PROVE  /\ o \in Actors /\ TypeOK /\ RowTypes /\ RowInv /\ local[o] \in Local
         /\ StepInv(o) /\ OperatorInv(o) /\ Told(o)
         /\ local[o].at # "idle" => answer[o] # "ok" /\ local[o].reply \in Outcomes
BY LocalTypes, RowFacts DEF IInv, Actors, OperatorInv, AnsweredMeansSettled, Told

(* A run past the boundary that an operator's call has seen is settled.    *)
LEMMA SeenSettled ==
  ASSUME RowTypes, RunInv, NEW s \in RunStates, Past(s, run), s.version >= 3
  PROVE  run.status # "awaiting_domain_confirmation"
BY DEF Past, RowTypes, RunInv, Versions, RunStates

Resolved(o) == o \in journal.resolvedBy /\ journal.status = SubmissionStatusOf[local[o].reply]

LEMMA OperatorFinished ==
  ASSUME IInv, NEW o \in Operators, NEW result \in Results, Finish(o, result),
         local[o].at # "idle", UNCHANGED answer,
         result \notin {"refused", "error"} => /\ Resolved(o) /\ UNCHANGED <<run, journal>>
                                               /\ run.status # "awaiting_domain_confirmation"
  PROVE  OperatorInv(o)' /\ Told(o)'
<1>1. local'[o] = Finished(o, result)
  BY OperatorFacts, HasFinished, MovedFacts
<1>2. local'[o].at = "return" /\ local'[o].result = result /\ local'[o].reply = local[o].reply
  BY <1>1, OperatorFacts DEF Finished, Local
<1> QED BY <1>2, OperatorFacts DEF OperatorInv, Told, Resolved, Deciding

LEMMA OperatorGone ==
  ASSUME IInv, NEW o \in Operators,
         NEW location \in {"resolve", "finalize", "artifact", "settle"}, Goto(o, location),
         local[o].at \in {"read", "resolve", "finalize", "artifact", "settle"}, UNCHANGED answer,
         location # "resolve" => /\ o \in journal'.resolvedBy
                                 /\ journal'.status = SubmissionStatusOf[local[o].reply]
  PROVE  OperatorInv(o)' /\ Told(o)'
<1>1. o \in Actors /\ local \in [Actors -> Local] /\ local[o] \in Local
  BY OperatorFacts, LocalTypes
<1>2. /\ local'[o].at = location /\ local'[o].reply = local[o].reply
      /\ local'[o].snapshot = local[o].snapshot
  BY <1>1 DEF Goto, Local
<1> QED BY <1>2, OperatorFacts DEF OperatorInv, Told, Deciding

LEMMA ResolutionSteps ==
  ASSUME IInv, NEW o \in Operators, LoadResolution(o) \/ ReadEscalation(o) \/ Resolve(o)
  PROVE  OperatorInv(o)' /\ Told(o)'
<1>0. UNCHANGED <<run, answer>>
  BY DEF LoadResolution, ReadEscalation, Resolve, Only, runVars
<1>1. CASE LoadResolution(o)
  <2>1. PICK outcome \in Outcomes :
          local' = [local EXCEPT ![o] = [Idle EXCEPT !.at = "read", !.snapshot = run,
                                                     !.reply = outcome]]
    BY <1>1 DEF LoadResolution
  <2>2. local'[o].at = "read" /\ local'[o].snapshot = run /\ local'[o].reply = outcome
    BY <2>1, OperatorFacts, LocalTypes DEF Idle
  <2>3. CrossedBoundary
    BY <1>1, OperatorFacts, DecisionsNamed DEF LoadResolution, RowInv, BoundaryInv, Intended
  <2>4. answer'[o] # "ok"
    BY <1>0, <1>1 DEF LoadResolution
  <2> QED BY <2>2, <2>3, <2>4 DEF OperatorInv, Told, Deciding, CrossedBoundary
<1>2. CASE ReadEscalation(o)
  <2>1. local[o].at = "read" /\ UNCHANGED journal
    BY <1>2 DEF ReadEscalation
  <2>2. ASSUME Finish(o, "refused") PROVE OperatorInv(o)' /\ Told(o)'
    BY <1>0, <2>1, <2>2, OperatorFinished DEF Results
  <2>3. ASSUME Goto(o, "resolve") PROVE OperatorInv(o)' /\ Told(o)'
    BY <1>0, <2>1, <2>3, OperatorGone
  <2>4. ASSUME Goto(o, "finalize"), Resolved(o) PROVE OperatorInv(o)' /\ Told(o)'
    BY <1>0, <2>1, <2>4, OperatorGone DEF Resolved
  <2> QED BY <1>2, <2>2, <2>3, <2>4 DEF ReadEscalation, Resolved
<1>3. CASE Resolve(o)
  <2>1. local[o].at = "resolve"
    BY <1>3 DEF Resolve
  <2>2. CASE Finish(o, "refused")
    BY <1>0, <2>1, <2>2, OperatorFinished DEF Results
  <2>3. CASE /\ Goto(o, "finalize")
             /\ journal' = [journal EXCEPT !.status = SubmissionStatusOf[local[o].reply],
                                           !.resolvedBy = {o}]
    <3>1. o \in journal'.resolvedBy /\ journal'.status = SubmissionStatusOf[local[o].reply]
      BY <2>3, OperatorFacts DEF RowTypes, JournalTypes
    <3> QED BY <1>0, <2>1, <2>3, <3>1, OperatorGone
  <2>4. CASE Goto(o, "finalize") /\ Resolved(o) /\ UNCHANGED journal
    BY <1>0, <2>1, <2>4, OperatorGone DEF Resolved
  <2> QED BY <1>3, <2>2, <2>3, <2>4 DEF Resolve, Resolved
<1> QED BY <1>1, <1>2, <1>3

(* An operator settles the decision it made; a transition it lost was made *)
(* by somebody else.                                                       *)
LEMMA OperatorSettles ==
  ASSUME IInv, NEW o \in Operators, SettleDomain(o)
  PROVE  OperatorInv(o)' /\ Told(o)'
<1> DEFINE seen == local[o].snapshot
           outcome == local[o].reply
<1>0. /\ local[o].at \in Deciding /\ UNCHANGED answer /\ Resolved(o) /\ outcome \in Outcomes
      /\ seen \in RunStates /\ Past(seen, run)
  BY OperatorFacts
     DEF SettleDomain, Finalize, EnsureCommitted, Settle, SettleRunBudget, Apply, Only, Deciding,
         OperatorInv, StepInv, Resolved, Local
<1>1. seen.version >= 3 => run.status # "awaiting_domain_confirmation"
  BY <1>0, SeenSettled, OperatorFacts DEF RowInv
<1>2. CASE Finalize(o)
  <2>1. journal' = [journal EXCEPT !.status = SubmissionStatusOf[outcome]] => journal' = journal
    BY <1>0, OperatorFacts DEF Resolved, RowTypes, JournalTypes
  <2>2. UNCHANGED <<run, journal>> /\ local[o].at = "finalize"
    BY <1>2, <2>1 DEF Finalize, runVars
  <2>3. ASSUME Finish(o, "error") PROVE OperatorInv(o)' /\ Told(o)'
    BY <1>0, <2>2, <2>3, OperatorFinished DEF Results
  <2>4. ASSUME Finish(o, RunStateOf[outcome]), seen.status = RunStateOf[outcome]
        PROVE  OperatorInv(o)' /\ Told(o)'
    <3>1. RunStateOf[outcome] \in Results /\ seen.status # "awaiting_domain_confirmation"
      BY <1>0, <2>4, OutcomesMapped DEF Results
    <3>2. run.status # "awaiting_domain_confirmation"
      BY <1>1, <2>2, <3>1, OperatorFacts DEF OperatorInv
    <3> QED BY <1>0, <2>2, <2>4, <3>1, <3>2, OperatorFinished
  <2>5. ASSUME NEW location \in {"artifact", "settle"}, Goto(o, location)
        PROVE  OperatorInv(o)' /\ Told(o)'
    BY <1>0, <2>2, <2>5, OperatorGone DEF Resolved
  <2> QED BY <1>2, <2>3, <2>4, <2>5 DEF Finalize
<1>3. CASE EnsureCommitted(o)
  BY <1>0, <1>3, OperatorGone DEF EnsureCommitted, Resolved
<1>4. CASE Settle(o)
  <2> DEFINE target == RunStateOf[outcome]
             next == IF outcome = "conflict" THEN "return" ELSE "budget"
             moved == [status |-> target, version |-> seen.version + 1]
  <2>1. /\ target \in Reachable \cap Results /\ next \in Locations
        /\ target # "awaiting_domain_confirmation"
    BY <1>0 DEF RunStateOf, Outcomes, Reachable, Results, Locations
  <2>2. /\ Apply(o, {"awaiting_domain_confirmation"}, target, next)
        /\ local[o].at = "settle" /\ UNCHANGED journal
    BY <1>4 DEF Settle, Apply
  <2>3. {"awaiting_domain_confirmation"} \in SUBSET Extensible
    BY DEF Extensible
  <2>4. \/ /\ run' = moved
           /\ run = moved \/ (run.version = seen.version /\ run.status = "awaiting_domain_confirmation")
           /\ Moved(o, Advanced(o, target, next))
        \/ /\ run' = run
           /\ ~(run.version = seen.version /\ run.status = "awaiting_domain_confirmation")
           /\ Moved(o, Finished(o, "superseded"))
    <3> HIDE DEF target, next
    <3> QED BY <2>1, <2>2, <2>3, OperatorFacts, Applied
  <2>5. CASE /\ run' = moved
             /\ run = moved \/ (run.version = seen.version /\ run.status = "awaiting_domain_confirmation")
             /\ Moved(o, Advanced(o, target, next))
    <3>1. seen.version + 1 >= 3
      BY <1>0, <2>2, <2>5, OperatorFacts DEF OperatorInv, RowInv, RunInv, Versions, RowTypes, RunStates,
                                              Past
    <3>2. local'[o] = Advanced(o, target, next)
      BY <2>5, OperatorFacts, MovedFacts
    <3>3. /\ local'[o].at = next /\ local'[o].reply = outcome
          /\ local'[o].snapshot.version >= 3
      BY <3>1, <3>2, OperatorFacts DEF Advanced, Local
    <3>4. run'.status # "awaiting_domain_confirmation" /\ next \in {"return", "budget"}
      BY <2>1, <2>5
    <3>5. answer'[o] # "ok"
      BY <1>0, <2>2, OperatorFacts
    <3> HIDE DEF next
    <3> QED BY <1>0, <2>2, <3>3, <3>4, <3>5 DEF OperatorInv, Told, Resolved, Deciding
  <2>6. CASE /\ run' = run
             /\ ~(run.version = seen.version /\ run.status = "awaiting_domain_confirmation")
             /\ Moved(o, Finished(o, "superseded"))
    <3>1. Finish(o, "superseded")
      BY <2>6 DEF Moved, Finished, Finish
    <3>2. run.status # "awaiting_domain_confirmation"
      <4>1. seen.status = "awaiting_domain_confirmation" => run # seen /\ seen.version = 2 /\ run.version > 2
        BY <1>0, <2>6 DEF Past, Versions, RunStates
      <4>2. run.version > 2 => run.status # "awaiting_domain_confirmation"
        BY OperatorFacts DEF RowInv, RunInv, Versions
      <4> QED BY <1>1, <2>2, <4>1, <4>2, OperatorFacts DEF OperatorInv
    <3> QED BY <1>0, <2>2, <2>6, <3>1, <3>2, OperatorFinished DEF Results
  <2> QED BY <2>4, <2>5, <2>6
<1>5. CASE SettleRunBudget(o)
  <2>1. /\ seen.version >= 3 /\ seen.status \in {"completed", "failed"}
    BY <1>5, OperatorFacts DEF SettleRunBudget, OperatorInv, StepInv
  <2>2. seen.status \in Results
    BY <2>1 DEF Results
  <2> QED BY <1>0, <1>1, <1>5, <2>1, <2>2, OperatorFinished DEF SettleRunBudget
<1> QED BY <1>2, <1>3, <1>4, <1>5 DEF SettleDomain

LEMMA OperatorEndings ==
  ASSUME IInv, NEW o \in Operators, AnswerOperator(o) \/ Crash(o) \/ CallFails(o)
  PROVE  OperatorInv(o)' /\ Told(o)'
<1>0. UNCHANGED <<run, journal>> /\ local \in [Actors -> Local]
  BY OperatorFacts, LocalTypes DEF AnswerOperator, Crash, CallFails, runVars
<1>1. local[o].at # "idle"
  BY DEF AnswerOperator, Crash, CallFails
<1>2. CASE AnswerOperator(o)
  <2>1. local'[o].at = "idle" /\ local'[o].reply = local[o].reply
    BY <1>0, <1>2, OperatorFacts DEF AnswerOperator, Idle
  <2>2. answer'[o] = IF local[o].result \in {"refused", "error"} THEN local[o].result ELSE "ok"
    BY <1>2, OperatorFacts DEF AnswerOperator, TypeOK
  <2>3. local[o].at = "return"
    BY <1>2 DEF AnswerOperator
  <2> QED BY <1>0, <1>1, <2>1, <2>2, <2>3, OperatorFacts DEF OperatorInv, Told, Deciding
<1>3. CASE Crash(o)
  <2>1. local'[o].at = "idle" /\ UNCHANGED answer
    BY <1>0, <1>3, OperatorFacts DEF Crash, Idle
  <2> QED BY <1>0, <1>1, <2>1, OperatorFacts DEF OperatorInv, Told, Deciding
<1>4. CASE CallFails(o)
  <2>1. Finish(o, "error") /\ UNCHANGED answer
    BY <1>4, OperatorFacts DEF CallFails, OperatorInv, Deciding
  <2> QED BY <1>1, <2>1, OperatorFinished DEF Results
<1> QED BY <1>2, <1>3, <1>4

LEMMA OperatorOwn ==
  ASSUME IInv, NEW o \in Operators, ActorStep(o)
  PROVE  OperatorInv(o)' /\ Told(o)'
<1>1. o \notin Executions
  BY CommitAssumption
<1> QED BY <1>1, ResolutionSteps, OperatorSettles, OperatorEndings DEF ActorStep, ResolveEscalation

(* An actor's step changes no other operator's answer.                     *)
LEMMA AnswersStay ==
  ASSUME IInv, NEW a \in Actors, ActorStep(a), NEW o \in Operators \ {a}
  PROVE  answer'[o] = answer[o]
<1>1. CASE AnswerOperator(a)
  BY <1>1 DEF AnswerOperator, IInv, TypeOK
<1>2. CASE ~AnswerOperator(a)
  <2>1. UNCHANGED answer
    BY <1>2
       DEF ActorStep, Execute, Commit, Terminalize, ResolveEscalation, SettleDomain, LoadCommit,
           LoadTerminal, Begin, CheckGate, Issue, Recheck, Authorized, EnsureSubmission, MarkIssued,
           Timeout, ReadJournal, AskOwner, RecordUncertainty, Escalate, Finalize, LoadResolution,
           ReadEscalation, Resolve, Approve, BeginDomainConfirmation, RecordFailure, Settle,
           EnsureCommitted, SettleRunBudget, Send, Arrive, RecordStep, Crash, CallFails, Apply, Only
  <2> QED BY <2>1
<1> QED BY <1>1, <1>2

-----------------------------------------------------------------------------
LEMMA InitIInv == Init => IInv
<1> SUFFICES ASSUME Init PROVE IInv
  OBVIOUS
<1>1. \A a \in Actors : local[a] = Idle
  BY DEF Init
<1>2. Reviewed \in RunStates
  BY DEF Reviewed, RunStates
<1>3. TypeOK
  <2>1. local \in [Actors -> Local]
    BY IdleTypes DEF Init
  <2>2. journal \in [status : {"none", "recorded", "issued", "escalated"} \cup Decided,
                     attempts : Nat, resolvedBy : SUBSET Operators]
    BY DEF Init
  <2>3. wf \in [stage : {"commit", "terminalize"} \cup Ended, wake : 0..MaximumCommitWakes - 1]
    BY CommitAssumption DEF Init
  <2>4. crashes \in 0..MaxCrashes /\ errors \in 0..MaxErrors
    BY CommitAssumption DEF Init
  <2> QED BY <1>2, <2>1, <2>2, <2>3, <2>4 DEF Init, TypeOK, Local, Stages
<1>4. RunInv /\ BoundaryInv
  BY DEF Init, RunInv, BoundaryInv, Intended, Versions, Reviewed
<1>5. RecordsFollowOwner
  BY DecisionsNamed DEF Init, RecordsFollowOwner, RunFollowsJournal, JournalFollowsOwner, Reviewed
<1>6. AnsweredMeansSettled
  BY DEF Init, AnsweredMeansSettled
<1>7. \A a \in Actors : StepInv(a)
  BY <1>1 DEF Init, StepInv, Idle, Past
<1>8. \A o \in Operators : OperatorInv(o)
  BY <1>1 DEF Init, OperatorInv, Idle, Deciding, Actors
<1> QED BY <1>3, <1>4, <1>5, <1>6, <1>7, <1>8 DEF IInv

LEMMA ActorStepInv == ASSUME IInv, NEW a \in Actors, ActorStep(a) PROVE IInv'
<1>1. Kept
  BY ActorKeeps
<1>2. PICK l : Moved(a, l)
  BY ActorMoves
<1>3. /\ local' \in [Actors -> Local]
      /\ \A b \in Actors \ {a} : local'[b] = local[b]
  BY <1>2, MovedFacts DEF IInv
<1>4. TypeOK'
  BY <1>1, <1>3, RestTypes DEF Kept, RowTypes, JournalTypes, TypeOK, Local, Stages
<1>5. \A b \in Actors : StepInv(b)'
  <2> TAKE b \in Actors
  <2>1. CASE b = a
    BY <1>1, <2>1, ActorOwn
  <2>2. CASE b # a
    BY <1>1, <1>3, <2>2, OthersSteps
  <2> QED BY <2>1, <2>2
<1>6. \A o \in Operators : OperatorInv(o)' /\ Told(o)'
  <2> TAKE o \in Operators
  <2>1. CASE o = a
    BY <2>1, OperatorOwn
  <2>2. CASE o # a
    BY <1>1, <1>3, <2>2, AnswersStay, OthersOperators DEF Actors
  <2> QED BY <2>1, <2>2
<1>7. AnsweredMeansSettled'
  BY <1>6 DEF AnsweredMeansSettled, Told
<1> QED BY <1>1, <1>4, <1>5, <1>6, <1>7 DEF IInv, Kept, RowInv

LEMMA PassiveStepInv ==
  ASSUME IInv, Expire \/ Withdraw \/ RequestCancellation \/ UNCHANGED vars
  PROVE  IInv'
<1>1. Kept
  BY PassiveKeeps, CancellationKeeps, QuietKeeps DEF vars, rowVars
<1>2. /\ UNCHANGED <<budget, wf, local, answer, crashes, errors>>
      /\ permitted' \in BOOLEAN
  BY DEF IInv, TypeOK, Expire, Withdraw, RequestCancellation, vars, runVars, ownerVars, faultVars
<1>3. TypeOK'
  BY <1>1, <1>2 DEF IInv, Kept, RowTypes, JournalTypes, TypeOK
<1>4. \A a \in Actors : StepInv(a)'
  BY <1>1, <1>2, OthersSteps
<1>5. \A o \in Operators : OperatorInv(o)' /\ Told(o)'
  BY <1>1, <1>2, OthersOperators
<1>6. AnsweredMeansSettled'
  BY <1>5 DEF AnsweredMeansSettled, Told
<1> QED BY <1>1, <1>3, <1>4, <1>5, <1>6 DEF IInv, Kept, RowInv

LEMMA NextCases ==
  Next => \/ \E a \in Actors : ActorStep(a)
          \/ Expire \/ Withdraw \/ RequestCancellation
BY DEF Next, Environment, ActorStep, Actors

LEMMA Invariant == Spec => []IInv
<1>1. IInv /\ [Next]_vars => IInv'
  BY NextCases, ActorStepInv, PassiveStepInv
<1> QED BY <1>1, InitIInv, PTL DEF Spec

(* Every variable stays in its domain, the run's version and the wakes of  *)
(* the commit loop within their bounds.                                    *)
THEOREM TypeCorrect == Spec => []TypeOK
BY Invariant, PTL DEF IInv

(* Write-ahead: no command is on its way to the owner and nothing is       *)
(* redeemed before the intent is in the journal and the run is at the      *)
(* submit boundary, whoever crashes and whatever fails.                    *)
THEOREM WrittenAhead == Spec => []NoEffectBeforeBoundary
<1>1. IInv => NoEffectBeforeBoundary
  BY DEF IInv, BoundaryInv, Intended, NoEffectBeforeBoundary
<1> QED BY <1>1, Invariant, PTL

(* Run, artifact, journal and owner tell one story, for any number of      *)
(* executions and operators.                                               *)
THEOREM OneStory == Spec => []RecordsFollowOwner
BY Invariant, PTL DEF IInv

(* An operator who was told "ok" made the recorded decision, and the run   *)
(* has left the boundary.                                                  *)
THEOREM OperatorsToldTruly == Spec => []AnsweredMeansSettled
BY Invariant, PTL DEF IInv

LEMMA EscalationDecided ==
  ASSUME IInv, NEW a \in Actors, ActorStep(a), journal.status = "escalated",
         journal'.status # "escalated"
  PROVE  journal'.resolvedBy # {}
<1>0. RowTypes /\ StepInv(a)
  BY RowFacts DEF IInv
<1>1. CASE Finalize(a)
  <2>1. SubmissionStatusOf[local[a].reply] # "escalated"
    BY <1>0, <1>1, OutcomesMapped DEF Finalize, StepInv
  <2> QED BY <1>1, <2>1 DEF Finalize, Finalizable
<1>2. CASE Resolve(a)
  BY <1>0, <1>2 DEF Resolve, RowTypes, JournalTypes
<1>3. CASE EnsureSubmission(a) \/ MarkIssued(a) \/ RecordUncertainty(a) \/ Escalate(a)
  BY <1>3 DEF EnsureSubmission, MarkIssued, RecordUncertainty, Escalate
<1>4. CASE /\ ~Finalize(a) /\ ~Resolve(a)
           /\ ~(EnsureSubmission(a) \/ MarkIssued(a) \/ RecordUncertainty(a) \/ Escalate(a))
  <2>1. UNCHANGED journal
    BY <1>4
       DEF ActorStep, Execute, Commit, Terminalize, ResolveEscalation, SettleDomain, LoadCommit,
           LoadTerminal, Begin, CheckGate, Issue, Recheck, Authorized, Timeout, ReadJournal, AskOwner,
           LoadResolution, ReadEscalation, Approve, BeginDomainConfirmation, RecordFailure, Settle,
           EnsureCommitted, SettleRunBudget, Send, Arrive, RecordStep, AnswerOperator, Crash,
           CallFails, Apply
  <2> QED BY <2>1
<1> QED BY <1>1, <1>2, <1>3, <1>4

(* A decided row is never decided again, and an escalated row is decided   *)
(* by an operator only, however late the owner's answer.                   *)
THEOREM DecidedOnce == Spec => DecisionsAreFinal
<1> DEFINE Final ==
      /\ journal.status \in Decided =>
           journal'.status = journal.status /\ journal'.resolvedBy = journal.resolvedBy
      /\ journal.status = "escalated" /\ journal'.status # "escalated" =>
           journal'.resolvedBy # {}
<1>1. ASSUME IInv, [Next]_vars PROVE [Final]_vars
  <2>1. ASSUME NEW a \in Actors, ActorStep(a) PROVE Final
    BY <1>1, <2>1, ActorKeeps, EscalationDecided DEF Kept, Onward
  <2>2. CASE Expire \/ Withdraw \/ RequestCancellation \/ UNCHANGED vars
    BY <2>2 DEF Expire, Withdraw, RequestCancellation, vars
  <2> QED BY <1>1, <2>1, <2>2, NextCases
<1>2. IInv /\ [Next]_vars => [Final]_vars
  BY <1>1
<1> QED BY <1>2, Invariant, PTL DEF Spec, DecisionsAreFinal
=============================================================================
