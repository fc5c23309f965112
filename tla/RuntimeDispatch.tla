-------------------------- MODULE RuntimeDispatch --------------------------
(***************************************************************************)
(* The turns of one run, each dispatched to a runtime release: a logical   *)
(* task per turn, physical attempts that replace one another under it, and *)
(* the fenced commit of what comes back (internal/dispatch, its postgres   *)
(* repository, and internal/agent/runner).  A turn that is run again while *)
(* its first process still lives is two turns of one task.                 *)
(*                                                                         *)
(* Attempt number and lease epoch advance together, so one number stands   *)
(* for both, and a result statement, which names its attempt, is that      *)
(* number too.  The predicate a turn presents is that of the attempt it    *)
(* opened, so its fields agree with the record; what can be stale is the   *)
(* attempt itself.                                                         *)
(***************************************************************************)
EXTENDS Naturals

CONSTANTS
  Tasks, Turns, TaskOf,
  Lease,            \* how long an attempt may run
  RetryBudget,      \* how long a turn may go on replacing
  MaximumAttempts,  \* of one turn
  MaxNumber, MaxTime, MaxFaults   \* bounds of the model

ASSUME DispatchAssumption ==
  /\ TaskOf \in [Turns -> Tasks]
  /\ Lease \in Nat \ {0}
  /\ RetryBudget \in Nat /\ MaximumAttempts \in Nat \ {0}
  /\ MaxNumber \in Nat /\ MaxTime \in Nat /\ MaxFaults \in Nat

VARIABLES
  now,       \* the clock
  stopped,   \* the run is being cancelled, or its workflow ended it
  task,      \* runtime_tasks
  attempt,   \* runtime_attempts, per task and number
  result,    \* runtime_results: the registered attempt, and when it was observed
  evidence,  \* runtime_result_evidence
  turn,      \* what each turn's process knows
  answer,    \* the statement a turn was answered with
  faults

vars == <<now, stopped, task, attempt, result, evidence, turn, answer, faults>>
records == <<task, attempt, result, evidence>>

Open == {"accepted", "running"}

Numbers == 1..MaxNumber

(* The open attempts of a task.                                            *)
Current(t) == {n \in Numbers : attempt[t][n].status \in Open}

TaskStates == Open \cup {"absent", "succeeded", "expired", "canceled"}
TaskRows == [status : TaskStates, expires : Nat, attempts : 0..MaxNumber]

AttemptStates == Open \cup {"none", "succeeded", "failed", "expired", "canceled", "superseded"}
AttemptRows == [status : AttemptStates, expires : Nat]

Dispositions == {"superseded", "terminal", "expired", "canceled", "unbound"}

Waiting == {"issue", "mark", "await", "settle", "abandon"}
Stages == Waiting \cup {"idle", "replay", "ensure", "open", "answered", "failed"}

Locals ==
  [at : Stages, tries : Nat, deadline : Nat, opened : Nat, number : Nat, observed : Nat,
   failed : BOOLEAN]

Idle == [at |-> "idle", tries |-> 1, deadline |-> 0, opened |-> 0, number |-> 0, observed |-> 0,
         failed |-> FALSE]

Unregistered == [number |-> 0, at |-> 0]

Init ==
  /\ now = 0
  /\ stopped = FALSE
  /\ task = [t \in Tasks |-> [status |-> "absent", expires |-> 0, attempts |-> 0]]
  /\ attempt = [t \in Tasks |-> [n \in Numbers |-> [status |-> "none", expires |-> 0]]]
  /\ result = [t \in Tasks |-> Unregistered]
  /\ evidence = {}
  /\ turn = [u \in Turns |-> Idle]
  /\ answer = [u \in Turns |-> 0]
  /\ faults = 0

-----------------------------------------------------------------------------
(* A turn's own steps.  u is a turn; what it holds is its task's attempt   *)
(* turn[u].number.                                                         *)

Becomes(u, stage) == turn' = [turn EXCEPT ![u].at = stage]

Ends(u, stage) == turn' = [turn EXCEPT ![u] = [Idle EXCEPT !.at = stage]]

(* The workflow runs the turn of a run it finds active.                    *)
Begin(u) ==
  /\ turn[u].at = "idle"
  /\ ~stopped
  /\ Becomes(u, "replay")
  /\ UNCHANGED <<now, stopped, records, answer, faults>>

(* A registered answer is read back, and nothing is executed.  A turn that *)
(* must execute fixes here how long it goes on replacing attempts.         *)
Replay(u) ==
  /\ turn[u].at = "replay"
  /\ IF result[TaskOf[u]].number # 0
       THEN /\ Ends(u, "answered")
            /\ answer' = [answer EXCEPT ![u] = result[TaskOf[u]].number]
       ELSE /\ turn' = [turn EXCEPT ![u].at = "ensure", ![u].deadline = now + RetryBudget]
            /\ UNCHANGED answer
  /\ UNCHANGED <<now, stopped, records, faults>>

(* Open reads the clock once, for the task and for the attempt.            *)
EnsureTask(u) ==
  LET t == TaskOf[u] IN
  /\ turn[u].at = "ensure"
  /\ task' = IF task[t].status = "absent"
               THEN [task EXCEPT ![t] =
                       [status |-> "accepted", expires |-> now + Lease, attempts |-> 0]]
               ELSE task
  /\ turn' = [turn EXCEPT ![u].at = "open", ![u].opened = now]
  /\ UNCHANGED <<now, stopped, attempt, result, evidence, answer, faults>>

(* A turn run again may have compiled other content: a reused identity.    *)
RefuseReuse(u) ==
  /\ turn[u].at = "ensure"
  /\ turn[u].tries = 1
  /\ task[TaskOf[u]].status # "absent"
  /\ Ends(u, "failed")
  /\ UNCHANGED <<now, stopped, records, answer, faults>>

(* Mutant of Replaced: opening an attempt leaves the others current.       *)
ReplacedNothing(rows, at) == rows

(* The attempts of a task as one opened at that time leaves them.          *)
Replaced(rows, at) ==
  [n \in Numbers |->
     IF rows[n].status \in Open
       THEN [rows[n] EXCEPT !.status = IF rows[n].expires < at THEN "expired" ELSE "superseded"]
       ELSE rows[n]]

OpenAttempt(u) ==
  LET t == TaskOf[u]
      number == task[t].attempts + 1
      expiry == turn[u].opened + Lease
  IN
  /\ turn[u].at = "open"
  /\ task[t].status \in Open
  /\ number <= MaxNumber
  /\ attempt' = [attempt EXCEPT ![t] =
       [Replaced(attempt[t], turn[u].opened) EXCEPT
          ![number] = [status |-> "accepted", expires |-> expiry]]]
  /\ task' = [task EXCEPT ![t].attempts = number, ![t].expires = expiry]
  /\ turn' = [turn EXCEPT ![u].at = "issue", ![u].opened = 0, ![u].number = number]
  /\ UNCHANGED <<now, stopped, result, evidence, answer, faults>>

RefuseOpen(u) ==
  /\ turn[u].at = "open"
  /\ task[TaskOf[u]].status \notin Open
  /\ Ends(u, "failed")
  /\ UNCHANGED <<now, stopped, records, answer, faults>>

(* The context is offered and the credential issued.                       *)
IssueCredential(u) ==
  /\ turn[u].at = "issue"
  /\ Becomes(u, "mark")
  /\ UNCHANGED <<now, stopped, records, answer, faults>>

MarkDispatched(u) ==
  LET t == TaskOf[u]
      n == turn[u].number
  IN
  /\ turn[u].at = "mark"
  /\ IF attempt[t][n].status = "accepted"
       THEN /\ attempt' = [attempt EXCEPT ![t][n].status = "running"]
            /\ task' = [task EXCEPT ![t].status = IF @ = "accepted" THEN "running" ELSE @]
            /\ Becomes(u, "await")
       ELSE /\ Becomes(u, "abandon")
            /\ UNCHANGED <<task, attempt>>
  /\ UNCHANGED <<now, stopped, result, evidence, answer, faults>>

(* The release answers: with a decision or a refusal, or that it failed.   *)
Answered(u) ==
  /\ turn[u].at = "await"
  /\ \E failed \in BOOLEAN :
       turn' = [turn EXCEPT ![u].at = "settle", ![u].observed = now, ![u].failed = failed]
  /\ UNCHANGED <<now, stopped, records, answer, faults>>

Note(u, disposition) ==
  evidence' = evidence \cup
    {[task |-> TaskOf[u], number |-> turn[u].number, disposition |-> disposition]}

(* What came back cannot be attributed to the attempt.                     *)
Unattributable(u) ==
  /\ turn[u].at = "await"
  /\ Note(u, "unbound")
  /\ Becomes(u, "abandon")
  /\ UNCHANGED <<now, stopped, task, attempt, result, answer, faults>>

(* Nothing came back: a new attempt replaces this one, or none does.       *)
Unanswered(u) ==
  /\ turn[u].at = "await"
  /\ IF turn[u].tries < MaximumAttempts /\ now < turn[u].deadline
       THEN turn' = [turn EXCEPT ![u].at = "ensure", ![u].tries = @ + 1]
       ELSE Becomes(u, "abandon")
  /\ UNCHANGED <<now, stopped, records, answer, faults>>

(* Mutant of GiveUp: the turn ends and leaves its attempt open.            *)
GiveUpOpen(u) ==
  /\ turn[u].at = "await"
  /\ Ends(u, "failed")
  /\ UNCHANGED <<now, stopped, records, answer, faults>>

(* The turn's own context ended, or the answer is no canonical result.     *)
GiveUp(u) ==
  /\ turn[u].at = "await"
  /\ Becomes(u, "abandon")
  /\ UNCHANGED <<now, stopped, records, answer, faults>>

(* Mutant of CloseAttempt: whatever the attempt has become.                *)
CloseAnyAttempt(u) ==
  /\ turn[u].at = "abandon"
  /\ attempt' = [attempt EXCEPT ![TaskOf[u]][turn[u].number].status = "failed"]
  /\ Ends(u, "failed")
  /\ UNCHANGED <<now, stopped, task, result, evidence, answer, faults>>

CloseAttempt(u) ==
  LET t == TaskOf[u]
      n == turn[u].number
  IN
  /\ turn[u].at = "abandon"
  /\ attempt' = IF attempt[t][n].status \in Open
                   THEN [attempt EXCEPT ![t][n].status = "failed"]
                   ELSE attempt
  /\ Ends(u, "failed")
  /\ UNCHANGED <<now, stopped, task, result, evidence, answer, faults>>

-----------------------------------------------------------------------------
(* The fenced commit.                                                      *)

(* Mutant of Evaluate: the leases are not compared with the observation.   *)
EvaluateTimeless(t, n, at) ==
  LET row == attempt[t][n] IN
  IF result[t].number # 0 THEN "terminal"
  ELSE IF task[t].status \in {"canceled", "expired"} THEN task[t].status
  ELSE IF task[t].status = "succeeded" THEN "terminal"
  ELSE IF row.status \in {"superseded", "canceled", "expired"} THEN row.status
  ELSE IF row.status \notin Open THEN "terminal"
  ELSE "committed"

(* What a result of attempt n of t, observed at that time, may do.  A turn *)
(* presents what its attempt answered once, and reads back a registered    *)
(* answer before it opens another, so the same statement presented again   *)
(* (DispositionDuplicate) does not arise.                                  *)
Evaluate(t, n, at) ==
  LET row == attempt[t][n] IN
  IF result[t].number # 0 THEN "terminal"
  ELSE IF task[t].status \in {"canceled", "expired"} THEN task[t].status
  ELSE IF task[t].status = "succeeded" THEN "terminal"
  ELSE IF row.status \in {"superseded", "canceled", "expired"} THEN row.status
  ELSE IF row.status \notin Open THEN "terminal"
  ELSE IF at > task[t].expires \/ at > row.expires THEN "expired"
  ELSE "committed"

(* The disposition of the result a turn presents.                          *)
Presented(u) == Evaluate(TaskOf[u], turn[u].number, turn[u].observed)

(* Mutant of RecordEvidence: a result that found its task settled is       *)
(* answered with itself.                                                   *)
RecordEvidenceAnswered(u) ==
  /\ turn[u].at = "settle"
  /\ Presented(u) = "terminal"
  /\ Note(u, "terminal")
  /\ Ends(u, "answered")
  /\ answer' = [answer EXCEPT ![u] = turn[u].number]
  /\ UNCHANGED <<now, stopped, task, attempt, result, faults>>

(* A result that may not commit leaves evidence, and an expiry found here  *)
(* is recorded as one.                                                     *)
RecordEvidence(u) ==
  LET t == TaskOf[u]
      n == turn[u].number
      late == Presented(u) = "expired"
  IN
  /\ turn[u].at = "settle"
  /\ Presented(u) # "committed"
  /\ Note(u, Presented(u))
  /\ attempt' = IF late /\ attempt[t][n].status \in Open
                   THEN [attempt EXCEPT ![t][n].status = "expired"]
                   ELSE attempt
  /\ task' = IF late /\ task[t].status \in Open /\ turn[u].observed > task[t].expires
               THEN [task EXCEPT ![t].status = "expired"]
               ELSE task
  /\ Ends(u, "failed")
  /\ UNCHANGED <<now, stopped, result, answer, faults>>

(* A failed execution ends its attempt and leaves the task open.           *)
CommitFailure(u) ==
  /\ turn[u].at = "settle"
  /\ Presented(u) = "committed"
  /\ turn[u].failed
  /\ attempt' = [attempt EXCEPT ![TaskOf[u]][turn[u].number].status = "failed"]
  /\ Ends(u, "failed")
  /\ UNCHANGED <<now, stopped, task, result, evidence, answer, faults>>

Commit(u) ==
  LET t == TaskOf[u]
      n == turn[u].number
  IN
  /\ turn[u].at = "settle"
  /\ Presented(u) = "committed"
  /\ ~turn[u].failed
  /\ attempt' = [attempt EXCEPT ![t][n].status = "succeeded"]
  /\ task' = [task EXCEPT ![t].status = "succeeded"]
  /\ result' = [result EXCEPT ![t] = [number |-> n, at |-> turn[u].observed]]
  /\ Ends(u, "answered")
  /\ answer' = [answer EXCEPT ![u] = n]
  /\ UNCHANGED <<now, stopped, evidence, faults>>

-----------------------------------------------------------------------------
(* The run, the clock and faults.                                          *)

(* Mutant of Revoked: whatever did not succeed counts as cancelled.        *)
RevokedUnsettled(rows) ==
  [n \in Numbers |->
     IF rows[n].status \in {"none", "succeeded"}
       THEN rows[n]
       ELSE [rows[n] EXCEPT !.status = "canceled"]]

Revoked(rows) ==
  [n \in Numbers |->
     IF rows[n].status \in Open THEN [rows[n] EXCEPT !.status = "canceled"] ELSE rows[n]]

(* CancelRun, for a cancelled run and for one its workflow ended; either   *)
(* may be repeated.                                                        *)
RevokeLeases ==
  /\ stopped
  /\ attempt' = [t \in Tasks |-> Revoked(attempt[t])]
  /\ task' = [t \in Tasks |->
       IF task[t].status \in Open THEN [task[t] EXCEPT !.status = "canceled"] ELSE task[t]]
  /\ UNCHANGED <<now, stopped, result, evidence, turn, answer, faults>>

(* A cancellation is requested, or a terminal step ends the run, while      *)
(* turns are under way: they do not look at the run again.                 *)
Stop ==
  /\ ~stopped
  /\ stopped' = TRUE
  /\ UNCHANGED <<now, records, turn, answer, faults>>

Tick ==
  /\ now < MaxTime
  /\ now' = now + 1
  /\ UNCHANGED <<stopped, records, turn, answer, faults>>

(* A call fails.  The dispatch that could not be recorded is abandoned, as *)
(* is a result whose evidence could not be written; any other failure ends *)
(* the turn at once.                                                       *)
CallFails(u) ==
  /\ faults < MaxFaults
  /\ \/ /\ turn[u].at \in {"replay", "ensure", "open", "issue", "settle", "abandon"}
        /\ Ends(u, "failed")
     \/ /\ turn[u].at = "mark"
        /\ Becomes(u, "abandon")
  /\ faults' = faults + 1
  /\ UNCHANGED <<now, stopped, records, answer>>

(* A process dies, at the latest before the workflow recorded how the turn *)
(* ended.  A call that took effect and whose reply was lost is a death     *)
(* right after it.                                                         *)
Crash(u) ==
  /\ turn[u].at # "idle"
  /\ faults < MaxFaults
  /\ faults' = faults + 1
  /\ turn' = [turn EXCEPT ![u] = Idle]
  /\ answer' = [answer EXCEPT ![u] = 0]
  /\ UNCHANGED <<now, stopped, records>>

Step(u) ==
  \/ Begin(u) \/ Replay(u) \/ EnsureTask(u) \/ RefuseReuse(u) \/ OpenAttempt(u) \/ RefuseOpen(u)
  \/ IssueCredential(u) \/ MarkDispatched(u)
  \/ Answered(u) \/ Unattributable(u) \/ Unanswered(u) \/ GiveUp(u) \/ CloseAttempt(u)
  \/ RecordEvidence(u) \/ CommitFailure(u) \/ Commit(u)

Next ==
  \/ \E u \in Turns : Step(u) \/ CallFails(u) \/ Crash(u)
  \/ Stop \/ RevokeLeases \/ Tick

Spec == Init /\ [][Next]_vars

-----------------------------------------------------------------------------
(* Properties.                                                             *)

(* Every variable stays in its domain.                                     *)
TypeOK ==
  /\ now \in 0..MaxTime
  /\ stopped \in BOOLEAN
  /\ task \in [Tasks -> TaskRows]
  /\ attempt \in [Tasks -> [Numbers -> AttemptRows]]
  /\ result \in [Tasks -> [number : 0..MaxNumber, at : Nat]]
  /\ evidence \subseteq [task : Tasks, number : Numbers, disposition : Dispositions]
  /\ turn \in [Turns -> Locals]
  /\ answer \in [Turns -> 0..MaxNumber]
  /\ faults \in 0..MaxFaults

(* Only the newest attempt of a task can be current, and the task lives as *)
(* long as it does; a task that is settled or cancelled has none.  (A late *)
(* result of an older attempt can expire the task under a current one.)    *)
OneCurrentAttempt ==
  \A t \in Tasks : \A n \in Current(t) :
    /\ n = task[t].attempts
    /\ task[t].status \in Open \cup {"expired"}
    /\ task[t].expires = attempt[t][n].expires
    /\ attempt[t][n].status = "running" => task[t].status # "accepted"

(* A task is settled by its newest attempt, within that one's lease, and   *)
(* succeeded means registered.                                             *)
SettledByNewest ==
  \A t \in Tasks :
    /\ task[t].status = "succeeded" <=> result[t].number # 0
    /\ \A n \in Numbers : attempt[t][n].status = "succeeded" <=> n = result[t].number
    /\ result[t].number # 0 => /\ result[t].number = task[t].attempts
                               /\ result[t].at <= task[t].expires

(* What evidence says of a result stays true of the records: nothing that  *)
(* happens later takes back why it did not settle the task.                *)
EvidenceIsTrue ==
  \A e \in evidence :
    LET row == attempt[e.task][e.number] IN
    CASE e.disposition = "superseded" -> row.status = "superseded"
      [] e.disposition \in {"canceled", "expired"} ->
           e.disposition \in {row.status, task[e.task].status}
      [] e.disposition = "terminal" ->
           row.status = "failed" \/ result[e.task].number \notin {0, e.number}
      [] OTHER -> TRUE

(* An attempt nobody waits for is not left current, unless a process died, *)
(* a call failed or the task expired.                                      *)
CurrentIsAwaited ==
  faults = 0 =>
    \A t \in Tasks : \A n \in Current(t) :
      task[t].status = "expired" \/
        \E u \in Turns : TaskOf[u] = t /\ turn[u].number = n

(* What is closed stays closed: no late result, replacement, close or      *)
(* cancellation changes an attempt or a task that reached its end, and a   *)
(* registered result stands.                                               *)
ClosedStaysClosed ==
  [][\A t \in Tasks :
       /\ task[t].status \notin Open \cup {"absent"} => task'[t] = task[t]
       /\ \A n \in Numbers :
            attempt[t][n].status \notin Open \cup {"none"} => attempt'[t][n] = attempt[t][n]
       /\ result[t].number # 0 => result'[t] = result[t]]_vars

(* Whoever runs the turn, and however often, is answered with the result   *)
(* the task registered, and that is one for ever: SettledOnce.             *)
Settlement == INSTANCE SettledOnce WITH
  Invocations <- Tasks, Callers <- Turns, InvocationOf <- TaskOf, Outputs <- Numbers,
  Unsettled <- 0, settled <- [t \in Tasks |-> result[t].number]

TurnsSettleOnce == Settlement!Spec
=============================================================================
