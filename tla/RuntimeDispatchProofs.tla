----------------------- MODULE RuntimeDispatchProofs -----------------------
(***************************************************************************)
(* Proofs about RuntimeDispatch.  The records of a task are held together  *)
(* by TaskOK, what a turn knows of them by TurnOK; both are inductive with *)
(* the run's invariants.  A step is examined twice: for what it leaves of  *)
(* the records (the new rows, and Kept, that nothing closed changed) and   *)
(* for what it leaves of the turn that took it.                            *)
(***************************************************************************)
EXTENDS RuntimeDispatch, TLAPS

(* One task's records: its only open attempt is its newest, it is settled  *)
(* by its newest, and its attempts are numbered without gaps.              *)
TaskOK(t) ==
  /\ \A n \in Current(t) :
       /\ n = task[t].attempts
       /\ task[t].status \in Open \cup {"expired"}
       /\ task[t].expires = attempt[t][n].expires
       /\ attempt[t][n].status = "running" => task[t].status # "accepted"
  /\ task[t].status = "succeeded" <=> result[t].number # 0
  /\ \A n \in Numbers : attempt[t][n].status = "succeeded" <=> n = result[t].number
  /\ result[t].number # 0 => /\ result[t].number = task[t].attempts
                             /\ result[t].at <= task[t].expires
  /\ task[t].status = "absent" => task[t].attempts = 0
  /\ \A n \in Numbers : attempt[t][n].status = "none" <=> n > task[t].attempts

(* What a turn holds is an attempt of its task, and what it was answered   *)
(* is what its task registered.                                            *)
TurnOK(u) ==
  /\ turn[u].tries # 0
  /\ turn[u].number <= task[TaskOf[u]].attempts
  /\ turn[u].at \in Waiting => turn[u].number # 0
  /\ turn[u].at \in {"idle", "replay"} => turn[u].tries = 1 /\ turn[u].number = 0
  /\ turn[u].at = "ensure" /\ turn[u].tries = 1 => turn[u].number = 0
  /\ answer[u] \in {0, result[TaskOf[u]].number}

(* No two turns hold one attempt, and none holds the registered one.       *)
HeldByOne ==
  \A u \in Turns : turn[u].number # 0 =>
    /\ turn[u].number # result[TaskOf[u]].number
    /\ \A v \in Turns : v # u /\ TaskOf[v] = TaskOf[u] => turn[v].number # turn[u].number

IInv ==
  /\ TypeOK
  /\ \A t \in Tasks : TaskOK(t)
  /\ \A u \in Turns : TurnOK(u)
  /\ HeldByOne
  /\ EvidenceIsTrue
  /\ CurrentIsAwaited

(* Nothing a step finds closed changes.                                    *)
Kept(t) ==
  /\ task[t].status \notin Open \cup {"absent"} => task'[t] = task[t]
  /\ \A n \in Numbers :
       attempt[t][n].status \notin Open \cup {"none"} => attempt'[t][n] = attempt[t][n]
  /\ result[t].number # 0 => result'[t] = result[t]
  /\ task[t].attempts <= task'[t].attempts

RowTypes ==
  /\ task \in [Tasks -> TaskRows]
  /\ attempt \in [Tasks -> [Numbers -> AttemptRows]]
  /\ result \in [Tasks -> [number : 0..MaxNumber, at : Nat]]

-----------------------------------------------------------------------------
(* The parts of the invariants.                                            *)

LEMMA Parts ==
  ASSUME \A t \in Tasks : TaskOK(t)
  PROVE  OneCurrentAttempt /\ SettledByNewest
  BY DEF TaskOK, OneCurrentAttempt, SettledByNewest

(* Who writes the variables that few actions do.                           *)
LEMMA StepWrites ==
  ASSUME NEW u \in Turns, Step(u)
  PROVE  /\ now' = now /\ stopped' = stopped /\ faults' = faults
         /\ evidence' = evidence \/ Unattributable(u) \/ RecordEvidence(u)
         /\ result' = result \/ Commit(u)
         /\ answer' = answer \/ Commit(u) \/ Replay(u)
<1>1. CASE Begin(u) \/ RefuseReuse(u) \/ RefuseOpen(u) \/ IssueCredential(u) \/ Answered(u)
  BY <1>1 DEF Begin, RefuseReuse, RefuseOpen, IssueCredential, Answered, records
<1>2. CASE Replay(u)
  BY <1>2 DEF Replay, records
<1>3. CASE EnsureTask(u)
  BY <1>3 DEF EnsureTask
<1>4. CASE OpenAttempt(u)
  BY <1>4 DEF OpenAttempt
<1>5. CASE MarkDispatched(u)
  BY <1>5 DEF MarkDispatched
<1>6. CASE Unanswered(u) \/ GiveUp(u)
  BY <1>6 DEF Unanswered, GiveUp, records
<1>7. CASE CloseAttempt(u)
  BY <1>7 DEF CloseAttempt
<1>8. CASE Unattributable(u)
  BY <1>8 DEF Unattributable
<1>9. CASE RecordEvidence(u)
  BY <1>9 DEF RecordEvidence
<1>10. CASE CommitFailure(u)
  BY <1>10 DEF CommitFailure
<1>11. CASE Commit(u)
  BY <1>11 DEF Commit
<1>12. QED
  BY <1>1, <1>2, <1>3, <1>4, <1>5, <1>6, <1>7, <1>8, <1>9, <1>10, <1>11 DEF Step

LEMMA Writes ==
  ASSUME [Next]_vars
  PROVE  /\ now' = now \/ (now < MaxTime /\ now' = now + 1)
         /\ stopped' \in {stopped, TRUE}
         /\ faults' = faults \/ (faults < MaxFaults /\ faults' = faults + 1)
         /\ evidence' = evidence \/ \E u \in Turns : Unattributable(u) \/ RecordEvidence(u)
         /\ result' = result \/ \E u \in Turns : Commit(u)
         /\ answer' = answer \/ \E u \in Turns : Commit(u) \/ Replay(u) \/ Crash(u)
<1>1. CASE \E u \in Turns : Step(u)
  BY <1>1, StepWrites
<1>2. CASE \E u \in Turns : CallFails(u)
  BY <1>2 DEF CallFails, records
<1>3. CASE \E u \in Turns : Crash(u)
  BY <1>3 DEF Crash, records
<1>4. CASE Stop
  BY <1>4 DEF Stop, records
<1>5. CASE RevokeLeases
  BY <1>5 DEF RevokeLeases
<1>6. CASE Tick
  BY <1>6 DEF Tick, records
<1>7. CASE UNCHANGED vars
  BY <1>7 DEF vars
<1>8. QED
  BY <1>1, <1>2, <1>3, <1>4, <1>5, <1>6, <1>7 DEF Next

LEMMA Domains ==
  ASSUME TypeOK, NEW u \in Turns, TurnOK(u)
  PROVE  /\ TaskOf[u] \in Tasks
         /\ turn[u] \in Locals
         /\ task[TaskOf[u]] \in TaskRows
         /\ task[TaskOf[u]].attempts \in 0..MaxNumber
         /\ result[TaskOf[u]].number \in 0..MaxNumber
         /\ turn[u].number \in Nat
         /\ turn[u].at \in Waiting => turn[u].number \in Numbers
<1>1. TaskOf[u] \in Tasks /\ MaxNumber \in Nat
  BY DispatchAssumption
<1>2. turn[u] \in Locals /\ task[TaskOf[u]] \in TaskRows
  BY <1>1 DEF TypeOK
<1>3. /\ task[TaskOf[u]].attempts \in 0..MaxNumber
      /\ result[TaskOf[u]].number \in 0..MaxNumber
  BY <1>1, <1>2 DEF TypeOK, TaskRows
<1>4. turn[u].number \in Nat
  BY <1>2 DEF Locals
<1>5. turn[u].at \in Waiting => turn[u].number \in Numbers
  <2>1. SUFFICES ASSUME turn[u].at \in Waiting PROVE turn[u].number \in Numbers
    OBVIOUS
  <2>2. turn[u].number # 0 /\ turn[u].number <= task[TaskOf[u]].attempts
    BY <2>1 DEF TurnOK
  <2>3. QED
    BY <2>2, <1>1, <1>3, <1>4 DEF Numbers
<1>6. QED
  BY <1>1, <1>2, <1>3, <1>4, <1>5

(* A task whose records a step leaves alone.                               *)
LEMMA TaskFrame ==
  ASSUME NEW t \in Tasks, TaskOK(t), RowTypes,
         task'[t] = task[t], attempt'[t] = attempt[t], result'[t] = result[t]
  PROVE  TaskOK(t)' /\ Kept(t)
<1>1. Current(t)' = Current(t)
  BY DEF Current
<1>2. task[t].attempts \in Nat
  BY DispatchAssumption DEF RowTypes, TaskRows
<1>3. TaskOK(t)'
  BY <1>1 DEF TaskOK
<1>4. Kept(t)
  BY <1>2 DEF Kept
<1>5. QED
  BY <1>3, <1>4

(* A step that changes the status of one attempt.                          *)
SetStatus(t, n, s) == attempt' = [attempt EXCEPT ![t][n].status = s]

LEMMA OneRow ==
  ASSUME RowTypes, NEW t \in Tasks, NEW n \in Numbers, NEW s \in AttemptStates,
         SetStatus(t, n, s)
  PROVE  /\ attempt' \in [Tasks -> [Numbers -> AttemptRows]]
         /\ attempt'[t][n].status = s
         /\ attempt'[t][n].expires = attempt[t][n].expires
         /\ \A m \in Numbers : m # n => attempt'[t][m] = attempt[t][m]
         /\ \A x \in Tasks : x # t => attempt'[x] = attempt[x]
<1>1. attempt[t] \in [Numbers -> AttemptRows] /\ attempt[t][n] \in AttemptRows
  BY DEF RowTypes
<1>. DEFINE row == [attempt[t][n] EXCEPT !.status = s]
<1>2. /\ row \in AttemptRows
      /\ row.status = s /\ row.expires = attempt[t][n].expires
  BY <1>1 DEF AttemptRows
<1>3. attempt' = [attempt EXCEPT ![t] = [attempt[t] EXCEPT ![n] = row]]
  BY DEF RowTypes, SetStatus
<1>. HIDE DEF row
<1>4. attempt'[t] = [attempt[t] EXCEPT ![n] = row]
  BY <1>3 DEF RowTypes
<1>5. attempt'[t][n] = row /\ \A m \in Numbers : m # n => attempt'[t][m] = attempt[t][m]
  BY <1>1, <1>4
<1>6. \A x \in Tasks : x # t => attempt'[x] = attempt[x]
  BY <1>3 DEF RowTypes
<1>7. attempt'[t] \in [Numbers -> AttemptRows]
  BY <1>1, <1>2, <1>4
<1>8. attempt' \in [Tasks -> [Numbers -> AttemptRows]]
  BY <1>3, <1>4, <1>7 DEF RowTypes
<1>9. QED
  BY <1>2, <1>5, <1>6, <1>8

(* An open attempt that ends without settling its task, which may expire.  *)
LEMMA AttemptEnds ==
  ASSUME RowTypes, NEW t \in Tasks, TaskOK(t), NEW n \in Numbers,
         NEW s \in {"failed", "expired"},
         attempt[t][n].status \in Open,
         attempt'[t][n].status = s,
         \A m \in Numbers : m # n => attempt'[t][m] = attempt[t][m],
         \/ task'[t] = task[t]
         \/ /\ task[t].status \in Open
            /\ task'[t] = [task[t] EXCEPT !.status = "expired"],
         result'[t] = result[t]
  PROVE  TaskOK(t)' /\ Kept(t)
<1>1. /\ task[t] \in TaskRows /\ task[t].attempts \in Nat
      /\ task'[t].attempts = task[t].attempts /\ task'[t].expires = task[t].expires
  BY DispatchAssumption DEF RowTypes, TaskRows
<1>2. /\ task'[t].status \in {task[t].status, "expired"}
      /\ task[t].status \notin Open => task'[t] = task[t]
  BY <1>1 DEF TaskRows
<1>3. \A m \in Current(t) : m = task[t].attempts
  BY DEF TaskOK
<1>4. n = task[t].attempts /\ task[t].status \in Open \cup {"expired"}
  BY DEF Current, TaskOK
<1>5. Current(t)' = {}
  BY <1>3, <1>4 DEF Current, Open
<1>6. \A m \in Numbers : attempt'[t][m].status = "succeeded" <=> attempt[t][m].status = "succeeded"
  BY DEF Open
<1>7. \A m \in Numbers : attempt'[t][m].status = "none" <=> attempt[t][m].status = "none"
  BY DEF Open
<1>8. /\ task'[t].status = "succeeded" <=> task[t].status = "succeeded"
      /\ task'[t].status # "absent"
  BY <1>2, <1>4 DEF Open
<1>9. TaskOK(t)'
  BY <1>1, <1>5, <1>6, <1>7, <1>8 DEF TaskOK
<1>10. Kept(t)
  BY <1>1, <1>2 DEF Kept, Open
<1>11. QED
  BY <1>9, <1>10

-----------------------------------------------------------------------------
(* What each step that writes the records leaves of them.                  *)

Recorded == RowTypes' /\ \A t \in Tasks : TaskOK(t)' /\ Kept(t)

LEMMA IdleRecords ==
  ASSUME RowTypes, \A t \in Tasks : TaskOK(t), UNCHANGED <<task, attempt, result>>
  PROVE  Recorded
<1>1. RowTypes'
  BY DEF RowTypes
<1>2. ASSUME NEW t \in Tasks PROVE TaskOK(t)' /\ Kept(t)
  BY <1>2, TaskFrame
<1>3. QED
  BY <1>1, <1>2 DEF Recorded

LEMMA EnsureRecords ==
  ASSUME IInv, NEW u \in Turns, EnsureTask(u)
  PROVE  Recorded
<1>. DEFINE t == TaskOf[u]
           row == [status |-> "accepted", expires |-> now + Lease, attempts |-> 0]
<1>1. RowTypes /\ t \in Tasks /\ TaskOK(t)
  BY Domains DEF IInv, TypeOK, RowTypes
<1>2. attempt' = attempt /\ result' = result
  BY DEF EnsureTask
<1>3. CASE task[t].status # "absent"
  <2>1. task' = task
    BY <1>3 DEF EnsureTask
  <2>2. QED
    BY <2>1, <1>1, <1>2, IdleRecords DEF IInv
<1>4. CASE task[t].status = "absent"
  <2>1. task' = [task EXCEPT ![t] = row]
    BY <1>4 DEF EnsureTask
  <2>2. row \in TaskRows
    BY DispatchAssumption DEF IInv, TypeOK, TaskRows, TaskStates, Open
  <2>3. RowTypes'
    BY <2>1, <2>2, <1>1, <1>2 DEF RowTypes
  <2>4. ASSUME NEW x \in Tasks, x # t PROVE TaskOK(x)' /\ Kept(x)
    BY <2>1, <2>4, <1>1, <1>2, TaskFrame DEF IInv, RowTypes
  <2>5. task'[t] = row
    BY <2>1, <1>1 DEF RowTypes
  <2>6. /\ Current(t) = {} /\ task[t].attempts = 0 /\ result[t].number = 0
        /\ Current(t)' = Current(t)
    BY <1>1, <1>2, <1>4 DEF TaskOK, Current, Open
  <2>7. TaskOK(t)'
    BY <2>5, <2>6, <1>1, <1>2 DEF TaskOK
  <2>8. Kept(t)
    BY <2>5, <2>6, <1>2, <1>4 DEF Kept
  <2>9. QED
    BY <2>3, <2>4, <2>7, <2>8 DEF Recorded
<1>5. QED
  BY <1>3, <1>4

LEMMA OpenRecords ==
  ASSUME IInv, NEW u \in Turns, OpenAttempt(u)
  PROVE  Recorded
<1>. DEFINE t == TaskOf[u]
           n == task[t].attempts + 1
           expiry == turn[u].opened + Lease
           opened == [status |-> "accepted", expires |-> expiry]
           replaced == Replaced(attempt[t], turn[u].opened)
           row == [[task[t] EXCEPT !.attempts = n] EXCEPT !.expires = expiry]
<1>1. RowTypes /\ t \in Tasks /\ TaskOK(t) /\ task[t] \in TaskRows /\ turn[u] \in Locals
  BY Domains DEF IInv, TypeOK, RowTypes
<1>2. task[t].attempts \in Nat /\ n \in Numbers /\ n \in 0..MaxNumber
  BY <1>1, DispatchAssumption DEF OpenAttempt, TaskRows, Numbers
<1>3. opened \in AttemptRows /\ expiry \in Nat
  BY <1>1, DispatchAssumption DEF Locals, AttemptRows, AttemptStates, Open
<1>4. /\ row \in TaskRows /\ row.status = task[t].status
      /\ row.attempts = n /\ row.expires = expiry
  BY <1>1, <1>2, <1>3 DEF TaskRows
<1>5. /\ replaced \in [Numbers -> AttemptRows]
      /\ \A m \in Numbers :
           /\ attempt[t][m].status \notin Open => replaced[m] = attempt[t][m]
           /\ attempt[t][m].status \in Open => replaced[m].status \in {"expired", "superseded"}
  <2>1. ASSUME NEW m \in Numbers, attempt[t][m].status \in Open
        PROVE  /\ replaced[m] \in AttemptRows
               /\ replaced[m].status \in {"expired", "superseded"}
    <3>1. attempt[t][m] \in AttemptRows
      BY <1>1 DEF RowTypes
    <3>2. \E s \in {"expired", "superseded"} : replaced[m] = [attempt[t][m] EXCEPT !.status = s]
      BY <2>1 DEF Replaced
    <3>3. PICK s \in {"expired", "superseded"} : replaced[m] = [attempt[t][m] EXCEPT !.status = s]
      BY <3>2
    <3>4. QED
      BY <3>1, <3>3 DEF AttemptRows, AttemptStates
  <2>2. ASSUME NEW m \in Numbers, attempt[t][m].status \notin Open
        PROVE  replaced[m] = attempt[t][m] /\ replaced[m] \in AttemptRows
    BY <2>2, <1>1 DEF Replaced, RowTypes
  <2>3. replaced = [m \in Numbers |-> replaced[m]]
    BY DEF Replaced
  <2>. HIDE DEF replaced
  <2>4. \A m \in Numbers : replaced[m] \in AttemptRows
    BY <2>1, <2>2
  <2>5. replaced \in [Numbers -> AttemptRows]
    BY <2>3, <2>4
  <2>6. QED
    BY <2>1, <2>2, <2>5
<1>6. /\ task[t].status \in Open
      /\ result' = result
      /\ attempt' = [attempt EXCEPT ![t] = [replaced EXCEPT ![n] = opened]]
      /\ task' = [task EXCEPT ![t] = row]
  <2>1. task' = [task EXCEPT ![t].attempts = n, ![t].expires = expiry]
    BY DEF OpenAttempt
  <2>2. task' = [task EXCEPT ![t] = row]
    BY <2>1, <1>1 DEF RowTypes
  <2>3. QED
    BY <2>2 DEF OpenAttempt
<1>. HIDE DEF t, replaced, opened, row, expiry, n
<1>7. /\ task'[t] = row
      /\ attempt'[t] = [replaced EXCEPT ![n] = opened]
  BY <1>1, <1>6 DEF RowTypes
<1>8. /\ attempt'[t][n] = opened
      /\ \A m \in Numbers : m # n => attempt'[t][m] = replaced[m]
  BY <1>2, <1>5, <1>7
<1>9. \A x \in Tasks : x # t => task'[x] = task[x] /\ attempt'[x] = attempt[x]
  BY <1>1, <1>6 DEF RowTypes
<1>10. RowTypes'
  <2>1. attempt'[t] \in [Numbers -> AttemptRows]
    BY <1>2, <1>3, <1>5, <1>7
  <2>2. attempt' \in [Tasks -> [Numbers -> AttemptRows]]
    BY <2>1, <1>1, <1>6, <1>7 DEF RowTypes
  <2>3. task' \in [Tasks -> TaskRows]
    BY <1>1, <1>4, <1>6 DEF RowTypes
  <2>4. QED
    BY <2>2, <2>3, <1>1, <1>6 DEF RowTypes
<1>11. ASSUME NEW x \in Tasks, x # t PROVE TaskOK(x)' /\ Kept(x)
  BY <1>1, <1>6, <1>9, <1>11, TaskFrame DEF IInv
<1>12. opened.status = "accepted" /\ opened.expires = expiry
  BY DEF opened
<1>13. attempt[t][n].status = "none"
  <2>1. n > task[t].attempts
    BY <1>2 DEF n
  <2>2. QED
    BY <2>1, <1>1, <1>2 DEF TaskOK
<1>14. Current(t)' = {n}
  BY <1>2, <1>5, <1>8, <1>12 DEF Current, Open
<1>15. result[t].number = 0 /\ task[t].status \notin {"succeeded", "absent"}
  BY <1>1, <1>6 DEF TaskOK, Open
<1>16. \A m \in Numbers : attempt'[t][m].status # "succeeded"
  <2>1. \A m \in Numbers : attempt[t][m].status # "succeeded"
    BY <1>1, <1>15 DEF TaskOK, Numbers
  <2>2. QED
    BY <2>1, <1>5, <1>8, <1>12 DEF Open
<1>17. \A m \in Numbers : attempt'[t][m].status = "none" <=> m > n
  <2>1. attempt'[t][n].status # "none" /\ ~ (n > n)
    BY <1>2, <1>8, <1>12
  <2>2. ASSUME NEW m \in Numbers, m # n
        PROVE  attempt'[t][m].status = "none" <=> attempt[t][m].status = "none"
    BY <2>2, <1>5, <1>8 DEF Open
  <2>3. ASSUME NEW m \in Numbers, m # n PROVE m > n <=> m > task[t].attempts
    BY <2>3, <1>2 DEF n, Numbers
  <2>4. QED
    BY <2>1, <2>2, <2>3, <1>1 DEF TaskOK
<1>18. TaskOK(t)'
  <2>1. \A m \in Current(t)' :
          /\ m = task'[t].attempts
          /\ task'[t].status \in Open \cup {"expired"}
          /\ task'[t].expires = attempt'[t][m].expires
          /\ attempt'[t][m].status = "running" => task'[t].status # "accepted"
    BY <1>4, <1>6, <1>7, <1>8, <1>12, <1>14
  <2>2. task'[t].status = task[t].status /\ task'[t].attempts = n /\ result'[t].number = 0
    BY <1>4, <1>6, <1>7, <1>15
  <2>3. \A m \in Numbers : m # 0
    BY DEF Numbers
  <2>4. QED
    BY <2>1, <2>2, <2>3, <1>15, <1>16, <1>17 DEF TaskOK
<1>19. Kept(t)
  <2>1. task[t].attempts <= task'[t].attempts
    BY <1>2, <1>4, <1>7 DEF n
  <2>2. QED
    BY <2>1, <1>5, <1>6, <1>8, <1>13 DEF Kept
<1>20. QED
  BY <1>10, <1>11, <1>18, <1>19 DEF Recorded

(* A step of a waiting turn that ends its attempt without settling.        *)
LEMMA EndRecords ==
  ASSUME IInv, NEW u \in Turns, turn[u].at \in Waiting, NEW s \in {"failed", "expired"},
         attempt[TaskOf[u]][turn[u].number].status \in Open,
         SetStatus(TaskOf[u], turn[u].number, s),
         \/ task' = task
         \/ /\ task[TaskOf[u]].status \in Open
            /\ task' = [task EXCEPT ![TaskOf[u]].status = "expired"],
         result' = result
  PROVE  Recorded
<1>. DEFINE t == TaskOf[u]
           n == turn[u].number
           row == [task[t] EXCEPT !.status = "expired"]
<1>1. /\ RowTypes /\ t \in Tasks /\ n \in Numbers /\ TaskOK(t)
      /\ task[t] \in TaskRows /\ s \in AttemptStates
  BY Domains DEF IInv, TypeOK, RowTypes, AttemptStates
<1>2. row \in TaskRows
  BY <1>1 DEF TaskRows, TaskStates
<1>3. task' = task \/ (task[t].status \in Open /\ task' = [task EXCEPT ![t] = row])
  BY <1>1 DEF RowTypes
<1>. HIDE DEF row
<1>4. /\ task' \in [Tasks -> TaskRows]
      /\ task'[t] = task[t] \/ (task[t].status \in Open /\ task'[t] = row)
      /\ \A x \in Tasks : x # t => task'[x] = task[x]
  BY <1>1, <1>2, <1>3 DEF RowTypes
<1>. HIDE DEF t, n
<1>5. attempt[t][n].status \in Open /\ SetStatus(t, n, s)
  BY DEF t, n
<1>6. /\ attempt' \in [Tasks -> [Numbers -> AttemptRows]]
      /\ attempt'[t][n].status = s
      /\ \A m \in Numbers : m # n => attempt'[t][m] = attempt[t][m]
      /\ \A x \in Tasks : x # t => attempt'[x] = attempt[x]
  BY <1>1, <1>5, OneRow
<1>7. RowTypes'
  BY <1>1, <1>4, <1>6 DEF RowTypes
<1>8. ASSUME NEW x \in Tasks, x # t PROVE TaskOK(x)' /\ Kept(x)
  BY <1>1, <1>4, <1>6, <1>8, TaskFrame DEF IInv
<1>9. TaskOK(t)' /\ Kept(t)
  <2>1. \/ task'[t] = task[t]
        \/ task[t].status \in Open /\ task'[t] = [task[t] EXCEPT !.status = "expired"]
    BY <1>4 DEF row
  <2>2. QED
    BY <2>1, <1>1, <1>5, <1>6, AttemptEnds
<1>10. QED
  BY <1>7, <1>8, <1>9 DEF Recorded

LEMMA MarkRecords ==
  ASSUME IInv, NEW u \in Turns, MarkDispatched(u)
  PROVE  Recorded
<1>. DEFINE t == TaskOf[u]
           n == turn[u].number
           row == [task[t] EXCEPT !.status = IF task[t].status = "accepted" THEN "running"
                                             ELSE task[t].status]
<1>1. turn[u].at \in Waiting
  BY DEF MarkDispatched, Waiting
<1>2. /\ RowTypes /\ t \in Tasks /\ n \in Numbers /\ TaskOK(t) /\ task[t] \in TaskRows
      /\ "running" \in AttemptStates /\ result' = result
  BY <1>1, Domains DEF IInv, TypeOK, RowTypes, AttemptStates, Open, MarkDispatched
<1>3. CASE attempt[t][n].status # "accepted"
  <2>1. UNCHANGED <<task, attempt>>
    BY <1>3 DEF MarkDispatched
  <2>2. QED
    BY <2>1, <1>2, IdleRecords DEF IInv
<1>4. CASE attempt[t][n].status = "accepted"
  <2>1. /\ row \in TaskRows
        /\ row.attempts = task[t].attempts /\ row.expires = task[t].expires
        /\ row.status # "accepted"
        /\ task[t].status # "accepted" => row = task[t]
        /\ task[t].status = "accepted" => row.status = "running"
    BY <1>2 DEF TaskRows, TaskStates, Open
  <2>2. SetStatus(t, n, "running") /\ task' = [task EXCEPT ![t] = row]
    <3>1. task' = [task EXCEPT ![t].status = IF @ = "accepted" THEN "running" ELSE @]
      BY <1>4 DEF MarkDispatched
    <3>2. task' = [task EXCEPT ![t] = row]
      BY <3>1, <1>2 DEF RowTypes
    <3>3. QED
      BY <3>2, <1>4 DEF MarkDispatched, SetStatus
  <2>. HIDE DEF t, n, row
  <2>3. /\ attempt' \in [Tasks -> [Numbers -> AttemptRows]]
        /\ attempt'[t][n].status = "running"
        /\ attempt'[t][n].expires = attempt[t][n].expires
        /\ \A m \in Numbers : m # n => attempt'[t][m] = attempt[t][m]
        /\ \A x \in Tasks : x # t => attempt'[x] = attempt[x]
    BY <1>2, <2>2, OneRow
  <2>4. /\ task'[t] = row /\ task' \in [Tasks -> TaskRows]
        /\ \A x \in Tasks : x # t => task'[x] = task[x]
    BY <2>1, <2>2, <1>2 DEF RowTypes
  <2>5. ASSUME NEW x \in Tasks, x # t PROVE TaskOK(x)' /\ Kept(x)
    BY <1>2, <2>3, <2>4, <2>5, TaskFrame DEF IInv
  <2>6. Current(t)' = Current(t) /\ n \in Current(t)
    BY <1>2, <1>4, <2>3 DEF Current, Open
  <2>7. task[t].status \in Open \cup {"expired"}
    BY <1>2, <2>6 DEF TaskOK
  <2>8. \A m \in Current(t)' :
          /\ m = task'[t].attempts
          /\ task'[t].status \in Open \cup {"expired"}
          /\ task'[t].expires = attempt'[t][m].expires
          /\ attempt'[t][m].status = "running" => task'[t].status # "accepted"
    <3>1. ASSUME NEW m \in Current(t)
          PROVE  m = n /\ m = task[t].attempts /\ task[t].expires = attempt[t][m].expires
      BY <3>1, <1>2, <2>6 DEF TaskOK
    <3>2. QED
      BY <3>1, <2>1, <2>3, <2>4, <2>6, <2>7 DEF Open
  <2>9. \A m \in Numbers :
          /\ attempt'[t][m].status = "succeeded" <=> attempt[t][m].status = "succeeded"
          /\ attempt'[t][m].status = "none" <=> attempt[t][m].status = "none"
    BY <1>4, <2>3
  <2>10. /\ task'[t].status = "succeeded" <=> task[t].status = "succeeded"
         /\ task'[t].status # "absent"
    BY <2>1, <2>4, <2>7 DEF Open
  <2>11. TaskOK(t)'
    BY <2>1, <2>4, <2>8, <2>9, <2>10, <1>2 DEF TaskOK
  <2>12. Kept(t)
    <3>1. task[t].attempts <= task'[t].attempts
      BY <2>1, <2>4, <1>2, DispatchAssumption DEF TaskRows
    <3>2. QED
      BY <3>1, <2>1, <2>3, <2>4, <1>2, <1>4 DEF Kept, Open
  <2>13. QED
    BY <1>2, <2>3, <2>4, <2>5, <2>11, <2>12 DEF Recorded, RowTypes
<1>5. QED
  BY <1>3, <1>4

LEMMA CloseRecords ==
  ASSUME IInv, NEW u \in Turns, CloseAttempt(u)
  PROVE  Recorded
<1>1. turn[u].at \in Waiting /\ task' = task /\ result' = result
  BY DEF CloseAttempt, Waiting
<1>2. CASE attempt[TaskOf[u]][turn[u].number].status \in Open
  <2>1. SetStatus(TaskOf[u], turn[u].number, "failed")
    BY <1>2 DEF CloseAttempt, SetStatus
  <2>2. QED
    BY <1>1, <1>2, <2>1, EndRecords
<1>3. CASE attempt[TaskOf[u]][turn[u].number].status \notin Open
  <2>1. attempt' = attempt
    BY <1>3 DEF CloseAttempt
  <2>2. QED
    BY <1>1, <2>1, IdleRecords DEF IInv, TypeOK, RowTypes
<1>4. QED
  BY <1>2, <1>3

(* What a disposition says of the records it was drawn from.               *)
LEMMA Committable ==
  ASSUME IInv, NEW u \in Turns, turn[u].at = "settle", Presented(u) = "committed"
  PROVE  /\ result[TaskOf[u]].number = 0
         /\ task[TaskOf[u]].status \in Open
         /\ attempt[TaskOf[u]][turn[u].number].status \in Open
         /\ turn[u].observed <= task[TaskOf[u]].expires
         /\ turn[u].number = task[TaskOf[u]].attempts
<1>. DEFINE t == TaskOf[u]
           n == turn[u].number
<1>1. /\ t \in Tasks /\ n \in Numbers /\ TaskOK(t)
      /\ task[t] \in TaskRows /\ turn[u] \in Locals /\ attempt[t][n] \in AttemptRows
  BY Domains DEF Waiting, IInv, TypeOK
<1>2. Evaluate(t, n, turn[u].observed) = "committed"
  BY DEF Presented
<1>. HIDE DEF t, n
<1>3. result[t].number = 0
  BY <1>2 DEF Evaluate
<1>4. task[t].status \notin {"canceled", "expired", "succeeded"}
  BY <1>2, <1>3 DEF Evaluate
<1>5. attempt[t][n].status \in Open
  BY <1>2, <1>3, <1>4, <1>1 DEF Evaluate, AttemptRows, AttemptStates
<1>6. /\ ~ (turn[u].observed > task[t].expires)
      /\ turn[u].observed \in Nat /\ task[t].expires \in Nat
  BY <1>2, <1>3, <1>4, <1>5, <1>1 DEF Evaluate, Locals, TaskRows, Open
<1>7. n \in Current(t)
  BY <1>1, <1>5 DEF Current
<1>8. n = task[t].attempts /\ task[t].status \in Open \cup {"expired"}
  BY <1>1, <1>7 DEF TaskOK
<1>9. turn[u].observed <= task[t].expires
  BY <1>6
<1>10. QED
  BY <1>3, <1>4, <1>5, <1>8, <1>9 DEF t, n

LEMMA FailureRecords ==
  ASSUME IInv, NEW u \in Turns, CommitFailure(u)
  PROVE  Recorded
<1>1. /\ turn[u].at \in Waiting /\ task' = task /\ result' = result
      /\ SetStatus(TaskOf[u], turn[u].number, "failed")
  BY DEF CommitFailure, Waiting, SetStatus
<1>2. attempt[TaskOf[u]][turn[u].number].status \in Open
  BY Committable DEF CommitFailure
<1>3. QED
  BY <1>1, <1>2, EndRecords

LEMMA EvidenceRecords ==
  ASSUME IInv, NEW u \in Turns, RecordEvidence(u)
  PROVE  Recorded
<1>. DEFINE t == TaskOf[u]
           n == turn[u].number
<1>1. /\ turn[u].at \in Waiting /\ result' = result
      /\ RowTypes /\ t \in Tasks /\ TaskOK(t) /\ task[t] \in TaskRows
  BY Domains DEF RecordEvidence, Waiting, IInv, TypeOK, RowTypes
<1>2. \/ task' = task
      \/ /\ task[t].status \in Open
         /\ task' = [task EXCEPT ![t].status = "expired"]
  BY DEF RecordEvidence
<1>3. CASE attempt' # attempt
  <2>1. attempt[t][n].status \in Open /\ SetStatus(t, n, "expired")
    BY <1>3 DEF RecordEvidence, SetStatus
  <2>2. QED
    BY <1>1, <1>2, <2>1, EndRecords
<1>4. CASE attempt' = attempt /\ task' = task
  BY <1>1, <1>4, IdleRecords DEF IInv
<1>5. CASE attempt' = attempt /\ task' # task
  <2>1. /\ task[t].status \in Open
        /\ task' = [task EXCEPT ![t] = [task[t] EXCEPT !.status = "expired"]]
    BY <1>1, <1>2, <1>5 DEF RowTypes
  <2>. DEFINE row == [task[t] EXCEPT !.status = "expired"]
  <2>2. /\ row \in TaskRows /\ row.status = "expired"
        /\ row.attempts = task[t].attempts /\ row.expires = task[t].expires
    BY <1>1 DEF TaskRows, TaskStates
  <2>3. task' = [task EXCEPT ![t] = row]
    BY <2>1
  <2>. HIDE DEF row, t, n
  <2>4. /\ task'[t] = row /\ task' \in [Tasks -> TaskRows]
        /\ \A x \in Tasks : x # t => task'[x] = task[x]
    BY <1>1, <2>2, <2>3 DEF RowTypes
  <2>5. ASSUME NEW x \in Tasks, x # t PROVE TaskOK(x)' /\ Kept(x)
    BY <1>1, <1>5, <2>4, <2>5, TaskFrame DEF IInv
  <2>6. Current(t)' = Current(t)
    BY <1>5 DEF Current
  <2>7. task[t].status \notin {"succeeded", "absent"}
    BY <2>1 DEF Open
  <2>8. TaskOK(t)'
    BY <1>1, <1>5, <2>2, <2>4, <2>6, <2>7 DEF TaskOK, Open
  <2>9. Kept(t)
    <3>1. task[t].attempts <= task'[t].attempts
      BY <2>2, <2>4, <1>1, DispatchAssumption DEF TaskRows
    <3>2. QED
      BY <3>1, <1>1, <1>5, <2>1 DEF Kept
  <2>10. QED
    BY <1>1, <1>5, <2>4, <2>5, <2>8, <2>9 DEF Recorded, RowTypes
<1>6. QED
  BY <1>3, <1>4, <1>5

LEMMA CommitRecords ==
  ASSUME IInv, NEW u \in Turns, Commit(u)
  PROVE  Recorded
<1>. DEFINE t == TaskOf[u]
           n == turn[u].number
           row == [task[t] EXCEPT !.status = "succeeded"]
           registered == [number |-> n, at |-> turn[u].observed]
<1>1. /\ turn[u].at \in Waiting /\ Presented(u) = "committed"
      /\ SetStatus(t, n, "succeeded")
      /\ task' = [task EXCEPT ![t].status = "succeeded"]
      /\ result' = [result EXCEPT ![t] = registered]
  BY DEF Commit, Waiting, SetStatus
<1>2. /\ RowTypes /\ t \in Tasks /\ n \in Numbers /\ n \in 0..MaxNumber /\ TaskOK(t)
      /\ task[t] \in TaskRows /\ turn[u] \in Locals /\ "succeeded" \in AttemptStates
  <2>1. TypeOK /\ TurnOK(u) /\ \A x \in Tasks : TaskOK(x)
    BY DEF IInv
  <2>2. /\ t \in Tasks /\ n \in Numbers
        /\ task[t] \in TaskRows /\ turn[u] \in Locals
    BY <1>1, <2>1, Domains
  <2>3. RowTypes
    BY <2>1 DEF TypeOK, RowTypes
  <2>4. n \in 0..MaxNumber /\ "succeeded" \in AttemptStates
    BY <2>2, DispatchAssumption DEF Numbers, AttemptStates
  <2>5. QED
    BY <2>1, <2>2, <2>3, <2>4
<1>3. /\ result[t].number = 0 /\ task[t].status \in Open /\ attempt[t][n].status \in Open
      /\ turn[u].observed <= task[t].expires /\ n = task[t].attempts
  BY Committable DEF Commit
<1>4. /\ row \in TaskRows /\ row.status = "succeeded"
      /\ row.attempts = task[t].attempts /\ row.expires = task[t].expires
  BY <1>2 DEF TaskRows, TaskStates
<1>5. /\ registered \in [number : 0..MaxNumber, at : Nat]
      /\ registered.number = n /\ registered.at = turn[u].observed
  BY <1>2 DEF Locals
<1>6. task' = [task EXCEPT ![t] = row]
  BY <1>1, <1>2 DEF RowTypes
<1>7. n # 0
  BY <1>2 DEF Numbers
<1>. HIDE DEF t, n, row, registered
<1>8. /\ attempt' \in [Tasks -> [Numbers -> AttemptRows]]
      /\ attempt'[t][n].status = "succeeded"
      /\ \A m \in Numbers : m # n => attempt'[t][m] = attempt[t][m]
      /\ \A x \in Tasks : x # t => attempt'[x] = attempt[x]
  BY <1>1, <1>2, OneRow
<1>9. /\ task'[t] = row /\ task' \in [Tasks -> TaskRows]
      /\ \A x \in Tasks : x # t => task'[x] = task[x]
  BY <1>2, <1>4, <1>6 DEF RowTypes
<1>10. /\ result'[t] = registered /\ result' \in [Tasks -> [number : 0..MaxNumber, at : Nat]]
       /\ \A x \in Tasks : x # t => result'[x] = result[x]
  BY <1>1, <1>2, <1>5 DEF RowTypes
<1>11. ASSUME NEW x \in Tasks, x # t PROVE TaskOK(x)' /\ Kept(x)
  BY <1>2, <1>8, <1>9, <1>10, <1>11, TaskFrame DEF IInv
<1>12. Current(t)' = {}
  <2>1. \A m \in Current(t) : m = n
    BY <1>2, <1>3 DEF TaskOK
  <2>2. QED
    BY <2>1, <1>8 DEF Current, Open
<1>13. \A m \in Numbers : attempt'[t][m].status = "succeeded" <=> m = n
  <2>1. \A m \in Numbers : attempt[t][m].status # "succeeded"
    BY <1>2, <1>3 DEF TaskOK, Numbers
  <2>2. QED
    BY <2>1, <1>8
<1>14. \A m \in Numbers : attempt'[t][m].status = "none" <=> attempt[t][m].status = "none"
  BY <1>3, <1>8 DEF Open
<1>15. /\ task'[t].status = "succeeded" /\ task'[t].attempts = task[t].attempts
       /\ task'[t].expires = task[t].expires
       /\ result'[t].number = n /\ result'[t].at = turn[u].observed
  BY <1>4, <1>5, <1>9, <1>10
<1>16. TaskOK(t)'
  BY <1>2, <1>3, <1>7, <1>12, <1>13, <1>14, <1>15 DEF TaskOK
<1>17. Kept(t)
  <2>1. task[t].attempts <= task'[t].attempts
    BY <1>2, <1>15, DispatchAssumption DEF TaskRows
  <2>2. QED
    BY <2>1, <1>3, <1>8 DEF Kept
<1>18. QED
  BY <1>8, <1>9, <1>10, <1>11, <1>16, <1>17 DEF Recorded, RowTypes

LEMMA RevokeRecords ==
  ASSUME IInv, RevokeLeases
  PROVE  Recorded
<1>1. RowTypes /\ \A t \in Tasks : TaskOK(t)
  BY DEF IInv, TypeOK, RowTypes
<1>2. ASSUME NEW t \in Tasks
      PROVE  /\ attempt'[t] \in [Numbers -> AttemptRows]
             /\ \A n \in Numbers :
                  /\ attempt[t][n].status \notin Open => attempt'[t][n] = attempt[t][n]
                  /\ attempt[t][n].status \in Open => attempt'[t][n].status = "canceled"
  <2>1. attempt'[t] = Revoked(attempt[t])
    BY DEF RevokeLeases
  <2>2. ASSUME NEW n \in Numbers, attempt[t][n].status \in Open
        PROVE  attempt'[t][n] \in AttemptRows /\ attempt'[t][n].status = "canceled"
    <3>1. attempt[t][n] \in AttemptRows
      BY <1>1 DEF RowTypes
    <3>2. attempt'[t][n] = [attempt[t][n] EXCEPT !.status = "canceled"]
      BY <2>1, <2>2 DEF Revoked
    <3>3. QED
      BY <3>1, <3>2 DEF AttemptRows, AttemptStates
  <2>3. ASSUME NEW n \in Numbers, attempt[t][n].status \notin Open
        PROVE  attempt'[t][n] \in AttemptRows /\ attempt'[t][n] = attempt[t][n]
    BY <2>1, <2>3, <1>1 DEF Revoked, RowTypes
  <2>4. attempt'[t] = [n \in Numbers |-> attempt'[t][n]]
    BY <2>1 DEF Revoked
  <2>5. attempt'[t] \in [Numbers -> AttemptRows]
    BY <2>2, <2>3, <2>4
  <2>6. QED
    BY <2>2, <2>3, <2>5
<1>3. ASSUME NEW t \in Tasks
      PROVE  /\ task'[t] \in TaskRows
             /\ task'[t].attempts = task[t].attempts /\ task'[t].expires = task[t].expires
             /\ task[t].status \notin Open => task'[t] = task[t]
             /\ task[t].status \in Open => task'[t].status = "canceled"
  <2>1. task[t] \in TaskRows
    BY <1>1 DEF RowTypes
  <2>2. CASE task[t].status \in Open
    <3>1. task'[t] = [task[t] EXCEPT !.status = "canceled"]
      BY <2>2 DEF RevokeLeases
    <3>2. QED
      BY <2>1, <2>2, <3>1 DEF TaskRows, TaskStates
  <2>3. CASE task[t].status \notin Open
    BY <2>1, <2>3 DEF RevokeLeases
  <2>4. QED
    BY <2>2, <2>3
<1>4. RowTypes'
  <2>1. task' = [t \in Tasks |-> task'[t]] /\ attempt' = [t \in Tasks |-> attempt'[t]]
    BY DEF RevokeLeases
  <2>2. result' = result
    BY DEF RevokeLeases
  <2>3. task' \in [Tasks -> TaskRows]
    BY <1>3, <2>1
  <2>4. attempt' \in [Tasks -> [Numbers -> AttemptRows]]
    BY <1>2, <2>1
  <2>5. QED
    BY <2>2, <2>3, <2>4, <1>1 DEF RowTypes
<1>5. ASSUME NEW t \in Tasks PROVE TaskOK(t)' /\ Kept(t)
  <2>1. result' = result
    BY DEF RevokeLeases
  <2>2. Current(t)' = {}
    BY <1>2 DEF Current, Open
  <2>3. \A n \in Numbers :
          /\ attempt'[t][n].status = "succeeded" <=> attempt[t][n].status = "succeeded"
          /\ attempt'[t][n].status = "none" <=> attempt[t][n].status = "none"
    BY <1>2 DEF Open
  <2>4. /\ task'[t].status = "succeeded" <=> task[t].status = "succeeded"
        /\ task'[t].status = "absent" <=> task[t].status = "absent"
    BY <1>3 DEF Open
  <2>5. TaskOK(t)'
    BY <1>1, <1>3, <2>1, <2>2, <2>3, <2>4 DEF TaskOK
  <2>6. task[t].attempts <= task'[t].attempts
    BY <1>1, <1>3, DispatchAssumption DEF RowTypes, TaskRows
  <2>7. Kept(t)
    BY <1>2, <1>3, <2>1, <2>6 DEF Kept
  <2>8. QED
    BY <2>5, <2>7
<1>6. QED
  BY <1>4, <1>5 DEF Recorded

LEMMA StepRecords ==
  ASSUME IInv, [Next]_vars
  PROVE  Recorded
<1>0. RowTypes /\ \A t \in Tasks : TaskOK(t)
  BY DEF IInv, TypeOK, RowTypes
<1>1. ASSUME NEW u \in Turns, EnsureTask(u) PROVE Recorded
  BY <1>1, EnsureRecords
<1>2. ASSUME NEW u \in Turns, OpenAttempt(u) PROVE Recorded
  BY <1>2, OpenRecords
<1>3. ASSUME NEW u \in Turns, MarkDispatched(u) PROVE Recorded
  BY <1>3, MarkRecords
<1>4. ASSUME NEW u \in Turns, CloseAttempt(u) PROVE Recorded
  BY <1>4, CloseRecords
<1>5. ASSUME NEW u \in Turns, RecordEvidence(u) PROVE Recorded
  BY <1>5, EvidenceRecords
<1>6. ASSUME NEW u \in Turns, CommitFailure(u) PROVE Recorded
  BY <1>6, FailureRecords
<1>7. ASSUME NEW u \in Turns, Commit(u) PROVE Recorded
  BY <1>7, CommitRecords
<1>8. CASE RevokeLeases
  BY <1>8, RevokeRecords
<1>9. ASSUME NEW u \in Turns,
             \/ Begin(u) \/ Replay(u) \/ RefuseReuse(u) \/ RefuseOpen(u) \/ IssueCredential(u)
             \/ Answered(u) \/ Unattributable(u) \/ Unanswered(u) \/ GiveUp(u)
             \/ CallFails(u) \/ Crash(u)
      PROVE  Recorded
  <2>1. UNCHANGED <<task, attempt, result>>
    BY <1>9 DEF Begin, Replay, RefuseReuse, RefuseOpen, IssueCredential, Answered, Unattributable,
                Unanswered, GiveUp, CallFails, Crash, records
  <2>2. QED
    BY <2>1, <1>0, IdleRecords
<1>10. CASE Stop \/ Tick \/ UNCHANGED vars
  <2>1. UNCHANGED <<task, attempt, result>>
    BY <1>10 DEF Stop, Tick, vars, records
  <2>2. QED
    BY <2>1, <1>0, IdleRecords
<1>11. QED
  BY <1>1, <1>2, <1>3, <1>4, <1>5, <1>6, <1>7, <1>8, <1>9, <1>10 DEF Next, Step

-----------------------------------------------------------------------------
(* What each step leaves of the turns.                                     *)

Known ==
  /\ turn' \in [Turns -> Locals]
  /\ answer' \in [Turns -> 0..MaxNumber]
  /\ \A u \in Turns : TurnOK(u)'

LEMMA TurnFrame ==
  ASSUME IInv, Recorded, NEW v \in Turns, turn'[v] = turn[v],
         answer'[v] \in {answer[v], 0, result'[TaskOf[v]].number}
  PROVE  TurnOK(v)'
<1>1. TurnOK(v) /\ TypeOK
  BY DEF IInv
<1>2. TaskOf[v] \in Tasks /\ turn[v].number \in Nat /\ task[TaskOf[v]].attempts \in Nat
  BY <1>1, Domains, DispatchAssumption
<1>3. Kept(TaskOf[v]) /\ task'[TaskOf[v]] \in TaskRows
  BY <1>2 DEF Recorded, RowTypes
<1>4. task'[TaskOf[v]].attempts \in Nat /\ task[TaskOf[v]].attempts <= task'[TaskOf[v]].attempts
  BY <1>3, DispatchAssumption DEF Kept, TaskRows
<1>5. turn[v].number <= task'[TaskOf[v]].attempts
  <2>1. turn[v].number <= task[TaskOf[v]].attempts
    BY <1>1 DEF TurnOK
  <2>2. QED
    BY <2>1, <1>2, <1>4
<1>6. answer'[v] \in {0, result'[TaskOf[v]].number}
  BY <1>1, <1>3 DEF TurnOK, Kept
<1>7. QED
  BY <1>1, <1>5, <1>6 DEF TurnOK

LEMMA OneTurn ==
  ASSUME IInv, Recorded, NEW u \in Turns, NEW r \in Locals,
         turn' = [turn EXCEPT ![u] = r],
         r.tries # 0,
         r.number <= task'[TaskOf[u]].attempts,
         r.at \in Waiting => r.number # 0,
         r.at \in {"idle", "replay"} => r.tries = 1 /\ r.number = 0,
         r.at = "ensure" /\ r.tries = 1 => r.number = 0,
         NEW a \in {answer[u], 0, result'[TaskOf[u]].number},
         answer' = [answer EXCEPT ![u] = a]
  PROVE  Known
<1>1. turn \in [Turns -> Locals] /\ answer \in [Turns -> 0..MaxNumber] /\ TurnOK(u)
  BY DEF IInv, TypeOK
<1>2. /\ turn' \in [Turns -> Locals] /\ turn'[u] = r
      /\ \A v \in Turns : v # u => turn'[v] = turn[v]
  BY <1>1
<1>3. TaskOf[u] \in Tasks /\ result'[TaskOf[u]].number \in 0..MaxNumber /\ Kept(TaskOf[u])
  BY DispatchAssumption DEF Recorded, RowTypes
<1>4. a \in {0, result'[TaskOf[u]].number} /\ a \in 0..MaxNumber
  BY <1>1, <1>3, DispatchAssumption DEF TurnOK, Kept
<1>5. /\ answer' \in [Turns -> 0..MaxNumber] /\ answer'[u] = a
      /\ \A v \in Turns : v # u => answer'[v] = answer[v]
  BY <1>1, <1>4
<1>6. ASSUME NEW v \in Turns, v # u PROVE TurnOK(v)'
  BY <1>2, <1>5, <1>6, TurnFrame
<1>7. TurnOK(u)'
  BY <1>2, <1>4, <1>5 DEF TurnOK
<1>8. QED
  BY <1>2, <1>5, <1>6, <1>7 DEF Known

(* A turn that moves on with what it holds.                                *)
LEMMA TurnMoves ==
  ASSUME IInv, Recorded, NEW u \in Turns, NEW stage \in Stages,
         Becomes(u, stage), answer' = answer,
         stage \in Waiting => turn[u].at \in Waiting,
         stage = "replay" => turn[u].at = "idle",
         stage \notin {"idle", "ensure"}
  PROVE  Known
<1>. DEFINE r == [turn[u] EXCEPT !.at = stage]
<1>1. /\ turn[u] \in Locals /\ TurnOK(u) /\ turn[u].number \in Nat /\ TaskOf[u] \in Tasks
      /\ turn \in [Turns -> Locals] /\ answer \in [Turns -> 0..MaxNumber]
  BY Domains DEF IInv, TypeOK
<1>2. turn' = [turn EXCEPT ![u] = r]
  BY <1>1 DEF Becomes
<1>3. /\ r \in Locals /\ r.at = stage
      /\ r.number = turn[u].number /\ r.tries = turn[u].tries
  BY <1>1 DEF Locals
<1>. HIDE DEF r
<1>4. r.number <= task'[TaskOf[u]].attempts
  <2>1. turn[u].number <= task[TaskOf[u]].attempts
    BY <1>1 DEF TurnOK
  <2>2. /\ task[TaskOf[u]].attempts <= task'[TaskOf[u]].attempts
        /\ task[TaskOf[u]].attempts \in Nat /\ task'[TaskOf[u]].attempts \in Nat
    BY <1>1, DispatchAssumption DEF Recorded, Kept, RowTypes, TaskRows, IInv, TypeOK
  <2>3. QED
    BY <2>1, <2>2, <1>1, <1>3
<1>5. r.at \in Waiting => r.number # 0
  BY <1>1, <1>3 DEF TurnOK
<1>6. r.at \in {"idle", "replay"} => r.tries = 1 /\ r.number = 0
  BY <1>1, <1>3 DEF TurnOK
<1>7. r.at # "ensure"
  BY <1>3
<1>8. answer' = [answer EXCEPT ![u] = answer[u]] /\ r.tries # 0
  BY <1>1, <1>3 DEF TurnOK
<1>9. QED
  BY <1>2, <1>3, <1>4, <1>5, <1>6, <1>7, <1>8, OneTurn

(* A turn that ends, or whose process dies.                                *)
LEMMA TurnEnds ==
  ASSUME IInv, Recorded, NEW u \in Turns, NEW stage \in {"idle", "answered", "failed"},
         Ends(u, stage),
         NEW a \in {answer[u], 0, result'[TaskOf[u]].number},
         answer' = [answer EXCEPT ![u] = a]
  PROVE  Known
<1>. DEFINE r == [Idle EXCEPT !.at = stage]
<1>1. /\ r \in Locals /\ r.at = stage /\ r.number = 0 /\ r.tries = 1
      /\ stage \notin Waiting /\ stage # "ensure"
  BY DEF Idle, Locals, Stages, Waiting
<1>2. turn' = [turn EXCEPT ![u] = r]
  BY DEF Ends
<1>. HIDE DEF r
<1>3. r.number <= task'[TaskOf[u]].attempts
  <2>1. task'[TaskOf[u]].attempts \in Nat
    BY DispatchAssumption DEF Recorded, RowTypes, TaskRows
  <2>2. QED
    BY <2>1, <1>1
<1>4. r.tries # 0
  BY <1>1
<1>5. QED
  BY <1>1, <1>2, <1>3, <1>4, OneTurn

LEMMA SameTurns ==
  ASSUME IInv, Recorded, UNCHANGED <<turn, answer>>
  PROVE  Known
<1>1. ASSUME NEW v \in Turns PROVE TurnOK(v)'
  BY <1>1, TurnFrame
<1>2. QED
  BY <1>1 DEF Known, IInv, TypeOK

LEMMA TurnFails ==
  ASSUME IInv, Recorded, NEW u \in Turns, Ends(u, "failed"), answer' = answer
  PROVE  Known
<1>1. answer' = [answer EXCEPT ![u] = answer[u]]
  BY DEF IInv, TypeOK
<1>2. QED
  BY <1>1, TurnEnds

LEMMA ReplayTurn ==
  ASSUME IInv, Recorded, NEW u \in Turns, Replay(u)
  PROVE  Known
<1>. DEFINE a == result[TaskOf[u]].number
           r == [[turn[u] EXCEPT !.at = "ensure"] EXCEPT !.deadline = now + RetryBudget]
<1>1. /\ turn[u] \in Locals /\ TurnOK(u) /\ TaskOf[u] \in Tasks
      /\ turn \in [Turns -> Locals] /\ now \in Nat
      /\ answer' = answer => answer' = [answer EXCEPT ![u] = answer[u]]
  BY Domains, DispatchAssumption DEF IInv, TypeOK
<1>2. CASE a # 0
  <2>1. Ends(u, "answered") /\ answer' = [answer EXCEPT ![u] = a] /\ result' = result
    BY <1>2 DEF Replay, records
  <2>2. a \in {answer[u], 0, result'[TaskOf[u]].number}
    BY <2>1
  <2>. HIDE DEF a
  <2>3. QED
    BY <2>1, <2>2, TurnEnds
<1>3. CASE a = 0
  <2>1. turn' = [turn EXCEPT ![u].at = "ensure", ![u].deadline = now + RetryBudget]
    BY <1>3 DEF Replay
  <2>2. turn' = [turn EXCEPT ![u] = r]
    BY <2>1, <1>1
  <2>3. /\ r.at = "ensure" /\ r.number = turn[u].number /\ r.tries = turn[u].tries
        /\ r \in Locals
    <3>1. now + RetryBudget \in Nat
      BY <1>1, DispatchAssumption
    <3>2. "ensure" \in Stages
      BY DEF Stages
    <3>3. r \in Locals
      BY <1>1, <3>1, <3>2 DEF Locals
    <3>4. r.at = "ensure" /\ r.number = turn[u].number /\ r.tries = turn[u].tries
      BY <1>1 DEF Locals
    <3>5. QED
      BY <3>3, <3>4
  <2>4. turn[u].number = 0 /\ turn[u].tries # 0
    BY <1>1 DEF TurnOK, Replay
  <2>5. "ensure" \notin Waiting /\ answer' = answer
    BY <1>3 DEF Waiting, Replay
  <2>. HIDE DEF r
  <2>6. r.number <= task'[TaskOf[u]].attempts
    <3>1. task'[TaskOf[u]].attempts \in Nat
      BY <1>1, DispatchAssumption DEF Recorded, RowTypes, TaskRows
    <3>2. QED
      BY <3>1, <2>3, <2>4
  <2>7. QED
    BY <1>1, <2>2, <2>3, <2>4, <2>5, <2>6, OneTurn
<1>4. QED
  BY <1>2, <1>3

(* A turn that moves on and notes a time, or how its attempt answered.     *)
LEMMA TurnNotes ==
  ASSUME IInv, Recorded, NEW u \in Turns, NEW r \in Locals,
         turn' = [turn EXCEPT ![u] = r], answer' = answer,
         r.number = turn[u].number,
         r.tries \in {turn[u].tries, turn[u].tries + 1},
         r.at \in Waiting => turn[u].at \in Waiting,
         r.at \notin {"idle", "replay"},
         r.at = "ensure" => r.tries # 1
  PROVE  Known
<1>1. /\ TurnOK(u) /\ turn[u].number \in Nat /\ TaskOf[u] \in Tasks
      /\ answer' = [answer EXCEPT ![u] = answer[u]]
  BY Domains DEF IInv, TypeOK
<1>2. r.number <= task'[TaskOf[u]].attempts
  <2>1. turn[u].number <= task[TaskOf[u]].attempts
    BY <1>1 DEF TurnOK
  <2>2. /\ task[TaskOf[u]].attempts <= task'[TaskOf[u]].attempts
        /\ task[TaskOf[u]].attempts \in Nat /\ task'[TaskOf[u]].attempts \in Nat
    BY <1>1, DispatchAssumption DEF Recorded, Kept, RowTypes, TaskRows, IInv, TypeOK
  <2>3. QED
    BY <2>1, <2>2, <1>1
<1>3. r.at \in Waiting => r.number # 0
  BY <1>1 DEF TurnOK
<1>4. r.tries # 0
  BY <1>1 DEF TurnOK, Locals, IInv, TypeOK
<1>5. QED
  BY <1>1, <1>2, <1>3, <1>4, OneTurn

LEMMA EnsureTurn ==
  ASSUME IInv, Recorded, NEW u \in Turns, EnsureTask(u)
  PROVE  Known
<1>. DEFINE r == [[turn[u] EXCEPT !.at = "open"] EXCEPT !.opened = now]
<1>1. turn[u] \in Locals /\ turn \in [Turns -> Locals] /\ now \in Nat
  BY DispatchAssumption DEF IInv, TypeOK
<1>2. turn' = [turn EXCEPT ![u] = r]
  BY <1>1 DEF EnsureTask
<1>3. /\ r \in Locals /\ r.at = "open" /\ r.number = turn[u].number /\ "open" \notin Waiting
      /\ r.tries = turn[u].tries
  BY <1>1 DEF Locals, Stages, Waiting
<1>4. answer' = answer
  BY DEF EnsureTask
<1>. HIDE DEF r
<1>5. QED
  BY <1>2, <1>3, <1>4, TurnNotes

LEMMA OpenTurn ==
  ASSUME IInv, Recorded, NEW u \in Turns, OpenAttempt(u)
  PROVE  Known
<1>. DEFINE t == TaskOf[u]
           n == task[t].attempts + 1
           r == [[[turn[u] EXCEPT !.at = "issue"] EXCEPT !.opened = 0] EXCEPT !.number = n]
<1>1. /\ turn[u] \in Locals /\ turn \in [Turns -> Locals] /\ t \in Tasks
      /\ task \in [Tasks -> TaskRows] /\ task[t].attempts \in Nat
      /\ answer' = answer => answer' = [answer EXCEPT ![u] = answer[u]]
  BY DispatchAssumption DEF IInv, TypeOK, TaskRows
<1>2. turn' = [turn EXCEPT ![u] = r] /\ answer' = answer
  <2>1. turn' = [turn EXCEPT ![u].at = "issue", ![u].opened = 0, ![u].number = n]
    BY DEF OpenAttempt
  <2>2. turn' = [turn EXCEPT ![u] = r]
    BY <2>1, <1>1
  <2>3. QED
    BY <2>2 DEF OpenAttempt
<1>3. r \in Locals /\ r.at = "issue" /\ r.number = n /\ n # 0 /\ r.tries = turn[u].tries
  <2>1. "issue" \in Stages
    BY DEF Stages, Waiting
  <2>2. n \in Nat /\ n # 0 /\ 0 \in Nat
    BY <1>1
  <2>. HIDE DEF n
  <2>3. r \in Locals
    BY <1>1, <2>1, <2>2 DEF Locals
  <2>4. r.at = "issue" /\ r.number = n /\ r.tries = turn[u].tries
    BY <1>1 DEF Locals
  <2>5. QED
    BY <2>2, <2>3, <2>4
<1>4. task'[t].attempts = n
  <2>. DEFINE expiry == turn[u].opened + Lease
             row == [[task[t] EXCEPT !.attempts = n] EXCEPT !.expires = expiry]
  <2>1. task' = [task EXCEPT ![t].attempts = n, ![t].expires = expiry]
    BY DEF OpenAttempt
  <2>2. task' = [task EXCEPT ![t] = row]
    BY <2>1, <1>1
  <2>3. row.attempts = n
    BY <1>1 DEF TaskRows
  <2>. HIDE DEF row
  <2>4. QED
    BY <1>1, <2>2, <2>3
<1>. HIDE DEF r
<1>5. r.number <= task'[TaskOf[u]].attempts
  BY <1>1, <1>3, <1>4
<1>6. turn[u].tries # 0
  BY DEF IInv, TurnOK
<1>7. QED
  BY <1>1, <1>2, <1>3, <1>5, <1>6, OneTurn

LEMMA AnsweredTurn ==
  ASSUME IInv, Recorded, NEW u \in Turns, Answered(u)
  PROVE  Known
<1>1. turn[u] \in Locals /\ turn \in [Turns -> Locals] /\ now \in Nat
  BY DispatchAssumption DEF IInv, TypeOK
<1>2. PICK failed \in BOOLEAN :
        turn' = [turn EXCEPT ![u].at = "settle", ![u].observed = now, ![u].failed = failed]
  BY DEF Answered
<1>. DEFINE r == [[[turn[u] EXCEPT !.at = "settle"] EXCEPT !.observed = now]
                    EXCEPT !.failed = failed]
<1>3. turn' = [turn EXCEPT ![u] = r]
  BY <1>1, <1>2
<1>4. r \in Locals /\ r.at = "settle" /\ r.number = turn[u].number /\ r.tries = turn[u].tries
  <2>1. "settle" \in Stages
    BY DEF Stages, Waiting
  <2>2. r \in Locals
    BY <1>1, <2>1 DEF Locals
  <2>3. r.at = "settle" /\ r.number = turn[u].number /\ r.tries = turn[u].tries
    BY <1>1 DEF Locals
  <2>4. QED
    BY <2>2, <2>3
<1>5. answer' = answer /\ turn[u].at \in Waiting
  BY DEF Answered, Waiting
<1>. HIDE DEF r
<1>6. QED
  BY <1>3, <1>4, <1>5, TurnNotes

LEMMA UnansweredTurn ==
  ASSUME IInv, Recorded, NEW u \in Turns, Unanswered(u)
  PROVE  Known
<1>. DEFINE r == [[turn[u] EXCEPT !.at = "ensure"] EXCEPT !.tries = turn[u].tries + 1]
<1>1. /\ turn[u] \in Locals /\ turn \in [Turns -> Locals]
      /\ turn[u].tries \in Nat /\ turn[u].tries # 0
      /\ answer' = answer /\ turn[u].at = "await"
  BY DEF IInv, TypeOK, TurnOK, Locals, Unanswered
<1>2. CASE Becomes(u, "abandon")
  <2>1. turn[u].at \in Waiting /\ "abandon" \in Stages
    BY <1>1 DEF Waiting, Stages
  <2>2. QED
    BY <1>1, <1>2, <2>1, TurnMoves
<1>3. CASE ~ Becomes(u, "abandon")
  <2>1. turn' = [turn EXCEPT ![u].at = "ensure", ![u].tries = @ + 1]
    BY <1>3 DEF Unanswered
  <2>2. turn' = [turn EXCEPT ![u] = r]
    BY <2>1, <1>1
  <2>3. /\ r \in Locals /\ r.at = "ensure" /\ r.number = turn[u].number
        /\ r.tries = turn[u].tries + 1 /\ r.tries # 1
        /\ "ensure" \notin Waiting
    <3>1. "ensure" \in Stages /\ "ensure" \notin Waiting
      BY DEF Stages, Waiting
    <3>2. turn[u].tries + 1 \in Nat /\ turn[u].tries + 1 # 1
      BY <1>1
    <3>3. r \in Locals
      BY <1>1, <3>1, <3>2 DEF Locals
    <3>4. r.at = "ensure" /\ r.number = turn[u].number /\ r.tries = turn[u].tries + 1
      BY <1>1 DEF Locals
    <3>5. QED
      BY <3>1, <3>2, <3>3, <3>4
  <2>. HIDE DEF r
  <2>4. QED
    BY <1>1, <2>2, <2>3, TurnNotes
<1>4. QED
  BY <1>2, <1>3

LEMMA CommitTurn ==
  ASSUME IInv, Recorded, NEW u \in Turns, Commit(u)
  PROVE  Known
<1>. DEFINE n == turn[u].number
<1>1. /\ result \in [Tasks -> [number : 0..MaxNumber, at : Nat]] /\ TaskOf[u] \in Tasks
  BY DispatchAssumption DEF IInv, TypeOK
<1>2. /\ Ends(u, "answered") /\ answer' = [answer EXCEPT ![u] = n]
      /\ result' = [result EXCEPT ![TaskOf[u]] = [number |-> n, at |-> turn[u].observed]]
  BY DEF Commit
<1>3. n \in {answer[u], 0, result'[TaskOf[u]].number}
  BY <1>1, <1>2
<1>. HIDE DEF n
<1>4. QED
  BY <1>2, <1>3, TurnEnds

LEMMA StepTurns ==
  ASSUME IInv, [Next]_vars
  PROVE  Known
<1>0. Recorded
  BY StepRecords
<1>1. ASSUME NEW u \in Turns, Replay(u) PROVE Known
  BY <1>0, <1>1, ReplayTurn
<1>2. ASSUME NEW u \in Turns, EnsureTask(u) PROVE Known
  BY <1>0, <1>2, EnsureTurn
<1>3. ASSUME NEW u \in Turns, OpenAttempt(u) PROVE Known
  BY <1>0, <1>3, OpenTurn
<1>4. ASSUME NEW u \in Turns, Answered(u) PROVE Known
  BY <1>0, <1>4, AnsweredTurn
<1>5. ASSUME NEW u \in Turns, Unanswered(u) PROVE Known
  BY <1>0, <1>5, UnansweredTurn
<1>6. ASSUME NEW u \in Turns, Commit(u) PROVE Known
  BY <1>0, <1>6, CommitTurn
<1>7. ASSUME NEW u \in Turns,
             \/ RefuseReuse(u) \/ RefuseOpen(u) \/ CloseAttempt(u) \/ RecordEvidence(u)
             \/ CommitFailure(u)
      PROVE  Known
  <2>1. Ends(u, "failed") /\ answer' = answer
    BY <1>7 DEF RefuseReuse, RefuseOpen, CloseAttempt, RecordEvidence, CommitFailure
  <2>2. QED
    BY <1>0, <2>1, TurnFails
<1>8. ASSUME NEW u \in Turns,
             \/ Begin(u) \/ IssueCredential(u) \/ MarkDispatched(u)
             \/ Unattributable(u) \/ GiveUp(u)
      PROVE  Known
  <2>1. CASE Begin(u)
    <3>1. Becomes(u, "replay") /\ turn[u].at = "idle" /\ answer' = answer
      BY <2>1 DEF Begin
    <3>2. "replay" \in Stages /\ "replay" \notin Waiting
      BY DEF Stages, Waiting
    <3>3. QED
      BY <1>0, <3>1, <3>2, TurnMoves
  <2>2. CASE IssueCredential(u) \/ MarkDispatched(u) \/ Unattributable(u) \/ GiveUp(u)
    <3>1. /\ turn[u].at \in Waiting /\ answer' = answer
          /\ Becomes(u, "mark") \/ Becomes(u, "await") \/ Becomes(u, "abandon")
      BY <2>2 DEF IssueCredential, MarkDispatched, Unattributable, GiveUp, Waiting
    <3>2. {"mark", "await", "abandon"} \subseteq Stages
      BY DEF Stages, Waiting
    <3>3. QED
      BY <1>0, <3>1, <3>2, TurnMoves
  <2>3. QED
    BY <1>8, <2>1, <2>2
<1>9. ASSUME NEW u \in Turns, CallFails(u) PROVE Known
  <2>1. CASE Ends(u, "failed")
    BY <1>0, <1>9, <2>1, TurnFails DEF CallFails
  <2>2. CASE Becomes(u, "abandon") /\ turn[u].at = "mark"
    <3>1. turn[u].at \in Waiting /\ "abandon" \in Stages /\ answer' = answer
      BY <1>9, <2>2 DEF Waiting, Stages, CallFails
    <3>2. QED
      BY <1>0, <2>2, <3>1, TurnMoves
  <2>3. QED
    BY <1>9, <2>1, <2>2 DEF CallFails
<1>10. ASSUME NEW u \in Turns, Crash(u) PROVE Known
  <2>1. Ends(u, "idle") /\ answer' = [answer EXCEPT ![u] = 0]
    BY <1>10 DEF Crash, Ends, Idle
  <2>2. QED
    BY <1>0, <2>1, TurnEnds
<1>11. CASE Stop \/ RevokeLeases \/ Tick \/ UNCHANGED vars
  BY <1>0, <1>11, SameTurns DEF Stop, RevokeLeases, Tick, vars
<1>12. QED
  BY <1>1, <1>2, <1>3, <1>4, <1>5, <1>6, <1>7, <1>8, <1>9, <1>10, <1>11 DEF Next, Step

-----------------------------------------------------------------------------
(* Which attempt a turn holds.                                             *)

(* A turn that ends, and a turn that goes on.                              *)
LEMMA OneMoves ==
  ASSUME IInv, NEW u \in Turns, NEW stage \in Stages, Ends(u, stage) \/ Becomes(u, stage)
  PROVE  /\ \A v \in Turns : v # u => turn'[v] = turn[v]
         /\ Becomes(u, stage) => turn'[u].number = turn[u].number
         /\ Ends(u, stage) => turn'[u].number = 0
  BY DEF IInv, TypeOK, Ends, Becomes, Locals, Idle

LEMMA NotesHold ==
  ASSUME IInv, NEW u \in Turns, Replay(u) \/ EnsureTask(u) \/ Answered(u) \/ Unanswered(u)
  PROVE  /\ \A v \in Turns : v # u => turn'[v] = turn[v]
         /\ turn'[u].number = turn[u].number
<1>1. turn \in [Turns -> Locals] /\ turn[u] \in Locals /\ TurnOK(u)
  BY DEF IInv, TypeOK
<1>2. \A v \in Turns : v # u => turn'[v] = turn[v]
  BY <1>1 DEF Replay, EnsureTask, Answered, Unanswered, Ends, Becomes
<1>3. CASE Replay(u)
  <2>1. turn[u].number = 0
    BY <1>1, <1>3 DEF TurnOK, Replay
  <2>2. CASE Ends(u, "answered")
    BY <1>1, <2>1, <2>2 DEF Ends, Idle
  <2>3. CASE turn' = [turn EXCEPT ![u].at = "ensure", ![u].deadline = now + RetryBudget]
    BY <1>1, <2>3 DEF Locals
  <2>4. QED
    BY <1>3, <2>2, <2>3 DEF Replay
<1>4. CASE EnsureTask(u)
  BY <1>1, <1>4 DEF EnsureTask, Locals
<1>5. CASE Answered(u)
  <2>1. PICK failed \in BOOLEAN :
          turn' = [turn EXCEPT ![u].at = "settle", ![u].observed = now, ![u].failed = failed]
    BY <1>5 DEF Answered
  <2>2. QED
    BY <1>1, <2>1 DEF Locals
<1>6. CASE Unanswered(u)
  <2>1. \/ turn' = [turn EXCEPT ![u].at = "ensure", ![u].tries = @ + 1]
        \/ turn' = [turn EXCEPT ![u].at = "abandon"]
    BY <1>6 DEF Unanswered, Becomes
  <2>2. QED
    BY <1>1, <2>1 DEF Locals
<1>7. QED
  BY <1>2, <1>3, <1>4, <1>5, <1>6

LEMMA OpenHolds ==
  ASSUME IInv, NEW u \in Turns, OpenAttempt(u)
  PROVE  /\ \A v \in Turns : v # u => turn'[v] = turn[v]
         /\ turn'[u].number = task[TaskOf[u]].attempts + 1
<1>1. turn \in [Turns -> Locals] /\ turn[u] \in Locals
  BY DEF IInv, TypeOK
<1>2. turn' = [turn EXCEPT ![u].at = "issue", ![u].opened = 0,
                           ![u].number = task[TaskOf[u]].attempts + 1]
  BY DEF OpenAttempt
<1>3. QED
  BY <1>1, <1>2 DEF Locals

(* One turn at a time lets go of what it holds or takes a fresh attempt.   *)
LEMMA Holding ==
  ASSUME IInv, [Next]_vars
  PROVE  \/ turn' = turn
         \/ \E u \in Turns :
              /\ \A v \in Turns : v # u => turn'[v] = turn[v]
              /\ \/ turn'[u].number \in {turn[u].number, 0}
                 \/ OpenAttempt(u) /\ turn'[u].number = task[TaskOf[u]].attempts + 1
<1>. DEFINE Moved(u) ==
       /\ \A v \in Turns : v # u => turn'[v] = turn[v]
       /\ \/ turn'[u].number \in {turn[u].number, 0}
          \/ OpenAttempt(u) /\ turn'[u].number = task[TaskOf[u]].attempts + 1
<1>1. ASSUME NEW u \in Turns, Replay(u) \/ EnsureTask(u) \/ Answered(u) \/ Unanswered(u)
      PROVE  Moved(u)
  BY <1>1, NotesHold
<1>2. ASSUME NEW u \in Turns, OpenAttempt(u) PROVE Moved(u)
  BY <1>2, OpenHolds
<1>3. ASSUME NEW u \in Turns,
             \/ RefuseReuse(u) \/ RefuseOpen(u) \/ CloseAttempt(u) \/ RecordEvidence(u)
             \/ CommitFailure(u) \/ Commit(u) \/ CallFails(u) \/ Crash(u)
      PROVE  Moved(u)
  <2>1. Ends(u, "failed") \/ Ends(u, "answered") \/ Ends(u, "idle") \/ Becomes(u, "abandon")
    <3>1. CASE Crash(u)
      BY <3>1 DEF Crash, Ends, Idle
    <3>2. CASE ~ Crash(u)
      BY <1>3, <3>2 DEF RefuseReuse, RefuseOpen, CloseAttempt, RecordEvidence, CommitFailure,
                        Commit, CallFails
    <3>3. QED
      BY <3>1, <3>2
  <2>2. {"failed", "answered", "idle", "abandon"} \subseteq Stages
    BY DEF Stages, Waiting
  <2>3. QED
    BY <2>1, <2>2, OneMoves
<1>4. ASSUME NEW u \in Turns,
             Begin(u) \/ IssueCredential(u) \/ MarkDispatched(u) \/ Unattributable(u) \/ GiveUp(u)
      PROVE  Moved(u)
  <2>1. \/ Becomes(u, "replay") \/ Becomes(u, "mark") \/ Becomes(u, "await")
        \/ Becomes(u, "abandon")
    BY <1>4 DEF Begin, IssueCredential, MarkDispatched, Unattributable, GiveUp
  <2>2. {"replay", "mark", "await", "abandon"} \subseteq Stages
    BY DEF Stages, Waiting
  <2>3. QED
    BY <2>1, <2>2, OneMoves
<1>5. CASE Stop \/ RevokeLeases \/ Tick \/ UNCHANGED vars
  BY <1>5 DEF Stop, RevokeLeases, Tick, vars
<1>6. QED
  BY <1>1, <1>2, <1>3, <1>4, <1>5 DEF Next, Step

(* Only a commit registers, and it lets go of what it registers.           *)
LEMMA Registering ==
  ASSUME IInv, [Next]_vars
  PROVE  \/ result' = result
         \/ \E u \in Turns :
              /\ turn'[u].number = 0 /\ turn[u].number # 0
              /\ result'[TaskOf[u]].number = turn[u].number
              /\ \A t \in Tasks : t # TaskOf[u] => result'[t] = result[t]
<1>1. ASSUME NEW u \in Turns, Commit(u)
      PROVE  /\ turn'[u].number = 0 /\ turn[u].number # 0
             /\ result'[TaskOf[u]].number = turn[u].number
             /\ \A t \in Tasks : t # TaskOf[u] => result'[t] = result[t]
  <2>1. /\ Ends(u, "answered") /\ "answered" \in Stages /\ turn[u].at \in Waiting
        /\ result' = [result EXCEPT ![TaskOf[u]] =
                                      [number |-> turn[u].number, at |-> turn[u].observed]]
    BY <1>1 DEF Commit, Stages, Waiting
  <2>2. /\ result \in [Tasks -> [number : 0..MaxNumber, at : Nat]]
        /\ TaskOf[u] \in Tasks /\ turn[u].number # 0
    BY <2>1, DispatchAssumption DEF IInv, TypeOK, TurnOK
  <2>3. turn'[u].number = 0
    BY <2>1, OneMoves
  <2>4. QED
    BY <2>1, <2>2, <2>3
<1>2. result' = result \/ \E u \in Turns : Commit(u)
  BY Writes
<1>3. QED
  BY <1>1, <1>2

LEMMA StepHeld ==
  ASSUME IInv, [Next]_vars
  PROVE  HeldByOne'
<1>1. ASSUME NEW u \in Turns
      PROVE  /\ turn[u].number \in Nat /\ TaskOf[u] \in Tasks
             /\ task[TaskOf[u]].attempts \in Nat
             /\ turn[u].number <= task[TaskOf[u]].attempts
             /\ result[TaskOf[u]].number \in {0, task[TaskOf[u]].attempts}
  <2>1. TurnOK(u) /\ TypeOK /\ TaskOf[u] \in Tasks
    BY DispatchAssumption DEF IInv
  <2>2. TaskOK(TaskOf[u])
    BY <2>1 DEF IInv
  <2>3. turn[u].number \in Nat /\ task[TaskOf[u]].attempts \in Nat
    BY <2>1, Domains, DispatchAssumption
  <2>4. QED
    BY <2>1, <2>2, <2>3 DEF TurnOK, TaskOK
<1>2. ASSUME NEW u \in Turns, turn'[u].number # 0,
             \/ turn'[u].number = turn[u].number
             \/ turn'[u].number = task[TaskOf[u]].attempts + 1 /\ OpenAttempt(u)
      PROVE  turn'[u].number # result'[TaskOf[u]].number
  <2>1. turn'[u].number # result[TaskOf[u]].number
    <3>1. CASE turn'[u].number = turn[u].number
      BY <1>2, <3>1 DEF IInv, HeldByOne
    <3>2. CASE turn'[u].number = task[TaskOf[u]].attempts + 1
      BY <1>1, <1>2, <3>2
    <3>3. QED
      BY <1>2, <3>1, <3>2
  <2>2. CASE result' = result
    BY <2>1, <2>2
  <2>3. CASE result' # result
    <3>1. PICK w \in Turns :
            /\ turn'[w].number = 0 /\ turn[w].number # 0
            /\ result'[TaskOf[w]].number = turn[w].number
            /\ \A t \in Tasks : t # TaskOf[w] => result'[t] = result[t]
      BY <2>3, Registering
    <3>2. CASE TaskOf[w] # TaskOf[u]
      BY <1>1, <2>1, <3>1, <3>2
    <3>3. CASE TaskOf[w] = TaskOf[u]
      <4>1. turn'[u].number = turn[u].number /\ u # w
        BY <1>2, <2>3, <3>1 DEF OpenAttempt
      <4>2. turn[u].number # turn[w].number
        BY <1>2, <3>3, <4>1 DEF IInv, HeldByOne
      <4>3. QED
        BY <3>1, <3>3, <4>1, <4>2
    <3>4. QED
      BY <3>2, <3>3
  <2>4. QED
    BY <2>2, <2>3
<1>3. CASE turn' = turn
  BY <1>2, <1>3 DEF IInv, HeldByOne
<1>4. CASE turn' # turn
  <2>1. PICK u \in Turns :
          /\ \A v \in Turns : v # u => turn'[v] = turn[v]
          /\ \/ turn'[u].number \in {turn[u].number, 0}
             \/ OpenAttempt(u) /\ turn'[u].number = task[TaskOf[u]].attempts + 1
    BY <1>4, Holding
  <2>2. ASSUME NEW v \in Turns, turn'[v].number # 0
        PROVE  turn'[v].number # result'[TaskOf[v]].number
    BY <1>2, <2>1, <2>2
  <2>3. ASSUME NEW v \in Turns, v # u, TaskOf[v] = TaskOf[u], turn'[u].number # 0
        PROVE  turn'[v].number # turn'[u].number
    <3>1. turn'[v] = turn[v] /\ turn[v].number \in Nat /\ task[TaskOf[u]].attempts \in Nat
          /\ turn[v].number <= task[TaskOf[u]].attempts
      BY <1>1, <2>1, <2>3
    <3>2. CASE turn'[u].number = turn[u].number
      BY <2>3, <3>1, <3>2 DEF IInv, HeldByOne
    <3>3. CASE turn'[u].number = task[TaskOf[u]].attempts + 1
      BY <3>1, <3>3
    <3>4. QED
      BY <2>1, <2>3, <3>2, <3>3
  <2>4. ASSUME NEW v \in Turns, NEW w \in Turns, v # w, TaskOf[v] = TaskOf[w],
               turn'[w].number # 0
        PROVE  turn'[v].number # turn'[w].number
    <3>1. CASE w = u
      BY <2>3, <2>4, <3>1
    <3>2. CASE v = u
      BY <2>3, <2>4, <3>2
    <3>3. CASE v # u /\ w # u
      <4>1. turn'[v] = turn[v] /\ turn'[w] = turn[w]
        BY <2>1, <3>3
      <4>2. QED
        BY <2>4, <4>1 DEF IInv, HeldByOne
    <3>4. QED
      BY <3>1, <3>2, <3>3
  <2>5. QED
    BY <2>2, <2>4 DEF HeldByOne
<1>5. QED
  BY <1>3, <1>4

-----------------------------------------------------------------------------
(* Evidence.                                                               *)

(* What one piece of evidence says is so.                                  *)
Attested(e) ==
  LET row == attempt[e.task][e.number] IN
  CASE e.disposition = "superseded" -> row.status = "superseded"
    [] e.disposition \in {"canceled", "expired"} ->
         e.disposition \in {row.status, task[e.task].status}
    [] e.disposition = "terminal" ->
         row.status = "failed" \/ result[e.task].number \notin {0, e.number}
    [] OTHER -> TRUE

(* The same, one disposition at a time.                                    *)
LEMMA Attestation ==
  ASSUME NEW e
  PROVE  Attested(e) <=>
           /\ e.disposition = "superseded" => attempt[e.task][e.number].status = "superseded"
           /\ e.disposition \in {"canceled", "expired"} =>
                e.disposition \in {attempt[e.task][e.number].status, task[e.task].status}
           /\ e.disposition = "terminal" =>
                \/ attempt[e.task][e.number].status = "failed"
                \/ result[e.task].number \notin {0, e.number}
  BY DEF Attested

LEMMA AttestationNext ==
  ASSUME NEW e
  PROVE  Attested(e)' <=>
           /\ e.disposition = "superseded" => attempt'[e.task][e.number].status = "superseded"
           /\ e.disposition \in {"canceled", "expired"} =>
                e.disposition \in {attempt'[e.task][e.number].status, task'[e.task].status}
           /\ e.disposition = "terminal" =>
                \/ attempt'[e.task][e.number].status = "failed"
                \/ result'[e.task].number \notin {0, e.number}
  BY DEF Attested

LEMMA OldEvidence ==
  ASSUME IInv, Recorded, NEW e \in evidence
  PROVE  Attested(e)'
<1>1. e.task \in Tasks /\ e.number \in Numbers
  BY DEF IInv, TypeOK
<1>2. Attested(e) /\ TaskOK(e.task) /\ Kept(e.task)
  BY <1>1 DEF IInv, EvidenceIsTrue, Attested, Recorded
<1>. DEFINE t == e.task
           n == e.number
           d == e.disposition
<1>3. ASSUME d = "superseded" PROVE attempt'[t][n].status = "superseded"
  BY <1>1, <1>2, <1>3, Attestation DEF Kept, Open
<1>4. ASSUME d \in {"canceled", "expired"} PROVE d \in {attempt'[t][n].status, task'[t].status}
  <2>1. d \in {attempt[t][n].status, task[t].status}
    BY <1>2, <1>4, Attestation
  <2>2. CASE attempt[t][n].status = d
    <3>1. attempt'[t][n] = attempt[t][n]
      BY <1>1, <1>2, <1>4, <2>2 DEF Kept, Open
    <3>2. QED
      BY <2>2, <3>1
  <2>3. CASE task[t].status = d
    <3>1. task'[t] = task[t]
      BY <1>2, <1>4, <2>3 DEF Kept, Open
    <3>2. QED
      BY <2>3, <3>1
  <2>4. QED
    BY <2>1, <2>2, <2>3
<1>5. ASSUME d = "terminal"
      PROVE  attempt'[t][n].status = "failed" \/ result'[t].number \notin {0, n}
  <2>1. attempt[t][n].status = "failed" \/ result[t].number \notin {0, n}
    BY <1>2, <1>5, Attestation
  <2>2. CASE attempt[t][n].status = "failed"
    BY <1>1, <1>2, <2>2 DEF Kept, Open
  <2>3. CASE result[t].number \notin {0, n}
    BY <1>2, <2>3 DEF Kept
  <2>4. QED
    BY <2>1, <2>2, <2>3
<1>6. QED
  BY <1>3, <1>4, <1>5, AttestationNext

(* What the disposition of a presented result says of the records.         *)
LEMMA Disposed ==
  ASSUME IInv, NEW u \in Turns, turn[u].at = "settle"
  PROVE  LET t == TaskOf[u]
             n == turn[u].number
             d == Presented(u)
         IN  /\ d \in Dispositions \cup {"committed"}
             /\ d = "superseded" => attempt[t][n].status = "superseded"
             /\ d = "canceled" => d \in {attempt[t][n].status, task[t].status}
             /\ d = "expired" => \/ d \in {attempt[t][n].status, task[t].status}
                                 \/ attempt[t][n].status \in Open
             /\ d = "terminal" => \/ attempt[t][n].status = "failed"
                                  \/ result[t].number \notin {0, n}
<1>. DEFINE t == TaskOf[u]
           n == turn[u].number
           at == turn[u].observed
           d == Evaluate(t, n, at)
<1>1. /\ t \in Tasks /\ n \in Numbers /\ TaskOK(t) /\ TurnOK(u)
      /\ attempt[t][n] \in AttemptRows /\ task[t] \in TaskRows
  BY Domains DEF Waiting, IInv, TypeOK
<1>2. SUFFICES /\ d \in Dispositions \cup {"committed"}
               /\ d = "superseded" => attempt[t][n].status = "superseded"
               /\ d = "canceled" => d \in {attempt[t][n].status, task[t].status}
               /\ d = "expired" => \/ d \in {attempt[t][n].status, task[t].status}
                                   \/ attempt[t][n].status \in Open
               /\ d = "terminal" => \/ attempt[t][n].status = "failed"
                                    \/ result[t].number \notin {0, n}
  BY DEF Presented
<1>3. n <= task[t].attempts
  BY <1>1 DEF TurnOK
<1>. HIDE DEF t, n, at
<1>4. attempt[t][n].status # "none"
  <2>1. task[t].attempts \in Nat /\ n \in Nat
    BY <1>1, DispatchAssumption DEF TaskRows, Numbers
  <2>2. ~ (n > task[t].attempts)
    BY <1>3, <2>1
  <2>3. QED
    BY <1>1, <2>2 DEF TaskOK
<1>5. CASE result[t].number # 0
  <2>1. d = "terminal"
    BY <1>5 DEF Evaluate
  <2>2. n # 0
    BY <1>1 DEF Numbers
  <2>3. result[t].number # n
    BY <2>2 DEF n, t, IInv, HeldByOne
  <2>4. QED
    BY <1>5, <2>1, <2>3 DEF Dispositions
<1>6. CASE result[t].number = 0 /\ task[t].status \in {"canceled", "expired"}
  <2>1. n # 0
    BY <1>1 DEF Numbers
  <2>2. d = task[t].status
    BY <1>6, <2>1 DEF Evaluate
  <2>3. QED
    BY <1>6, <2>2 DEF Dispositions
<1>7. CASE result[t].number = 0 /\ task[t].status \notin {"canceled", "expired"}
  <2>1. n # 0 /\ task[t].status # "succeeded" /\ attempt[t][n].status # "succeeded"
    BY <1>1, <1>7 DEF TaskOK, Numbers
  <2>2. CASE attempt[t][n].status \in {"superseded", "canceled", "expired"}
    <3>1. d = attempt[t][n].status
      BY <1>7, <2>1, <2>2 DEF Evaluate
    <3>2. QED
      BY <2>2, <3>1 DEF Dispositions
  <2>3. CASE attempt[t][n].status \notin Open \cup {"superseded", "canceled", "expired"}
    <3>1. d = "terminal"
      BY <1>7, <2>1, <2>3 DEF Evaluate
    <3>2. attempt[t][n].status = "failed"
      BY <1>1, <1>4, <2>1, <2>3 DEF AttemptRows, AttemptStates
    <3>3. QED
      BY <3>1, <3>2 DEF Dispositions
  <2>4. CASE attempt[t][n].status \in Open
    <3>1. d \in {"expired", "committed"}
      BY <1>7, <2>1, <2>4 DEF Evaluate, Open
    <3>2. QED
      BY <2>4, <3>1 DEF Dispositions
  <2>5. QED
    BY <2>2, <2>3, <2>4
<1>8. QED
  BY <1>5, <1>6, <1>7

LEMMA StepEvidence ==
  ASSUME IInv, [Next]_vars
  PROVE  /\ evidence' \subseteq [task : Tasks, number : Numbers, disposition : Dispositions]
         /\ EvidenceIsTrue'
<1>0. Recorded
  BY StepRecords
<1>1. evidence \subseteq [task : Tasks, number : Numbers, disposition : Dispositions]
  BY DEF IInv, TypeOK
<1>2. EvidenceIsTrue' <=> \A e \in evidence' : Attested(e)'
  BY DEF EvidenceIsTrue, Attested
<1>3. \A e \in evidence : Attested(e)'
  BY <1>0, OldEvidence
<1>4. CASE evidence' = evidence
  BY <1>1, <1>2, <1>3, <1>4
<1>5. ASSUME NEW u \in Turns, Unattributable(u) \/ RecordEvidence(u)
      PROVE  /\ evidence' \subseteq [task : Tasks, number : Numbers, disposition : Dispositions]
             /\ EvidenceIsTrue'
  <2>. DEFINE t == TaskOf[u]
             n == turn[u].number
             d == IF Unattributable(u) THEN "unbound" ELSE Presented(u)
  <2>1. t \in Tasks /\ n \in Numbers /\ turn \in [Turns -> Locals] /\ TaskOK(t) /\ Kept(t)
    <3>1. turn[u].at \in Waiting
      BY <1>5 DEF Unattributable, RecordEvidence, Waiting
    <3>2. QED
      BY <1>0, <3>1, Domains DEF IInv, TypeOK, Recorded
  <2>2. CASE Unattributable(u)
    <3>1. PICK e : /\ e = [task |-> t, number |-> n, disposition |-> "unbound"]
                   /\ evidence' = evidence \cup {e}
      BY <2>2 DEF Unattributable, Note
    <3>2. /\ e \in [task : Tasks, number : Numbers, disposition : Dispositions]
          /\ e.disposition = "unbound"
      BY <2>1, <3>1 DEF Dispositions
    <3>3. Attested(e)'
      BY <3>2, AttestationNext
    <3>4. QED
      BY <1>1, <1>2, <1>3, <3>1, <3>2, <3>3
  <2>3. CASE ~ Unattributable(u)
    <3>1. /\ RecordEvidence(u) /\ turn[u].at = "settle" /\ Presented(u) # "committed"
          /\ d = Presented(u)
      BY <1>5, <2>3 DEF RecordEvidence
    <3>2. PICK e : /\ e = [task |-> t, number |-> n, disposition |-> d]
                   /\ evidence' = evidence \cup {e} /\ result' = result
      BY <3>1 DEF RecordEvidence, Note
    <3>3. /\ e \in [task : Tasks, number : Numbers, disposition : Dispositions]
          /\ e.task = t /\ e.number = n /\ e.disposition = d
      <4>1. d \in Dispositions
        BY <3>1, Disposed
      <4>. HIDE DEF d
      <4>2. QED
        BY <2>1, <3>2, <4>1
    <3>4. d = "expired" /\ attempt[t][n].status \in Open => attempt'[t][n].status = "expired"
      <4>1. SUFFICES ASSUME d = "expired", attempt[t][n].status \in Open
                     PROVE  attempt'[t][n].status = "expired"
        OBVIOUS
      <4>2. SetStatus(t, n, "expired")
        BY <3>1, <4>1 DEF RecordEvidence, SetStatus
      <4>3. RowTypes /\ "expired" \in AttemptStates
        BY DEF IInv, TypeOK, RowTypes, AttemptStates
      <4>. HIDE DEF t, n
      <4>4. QED
        BY <2>1, <4>2, <4>3, OneRow
    <3>5. d \in {"canceled", "expired"} => d \in {attempt'[t][n].status, task'[t].status}
      <4>1. SUFFICES ASSUME d \in {"canceled", "expired"},
                            d \in {attempt[t][n].status, task[t].status}
                     PROVE  d \in {attempt'[t][n].status, task'[t].status}
        BY <3>1, <3>4, Disposed
      <4>2. CASE attempt[t][n].status = d
        <5>1. attempt'[t][n] = attempt[t][n]
          BY <2>1, <4>1, <4>2 DEF Kept, Open
        <5>2. QED
          BY <4>2, <5>1
      <4>3. CASE task[t].status = d
        <5>1. task'[t] = task[t]
          BY <2>1, <4>1, <4>3 DEF Kept, Open
        <5>2. QED
          BY <4>3, <5>1
      <4>4. QED
        BY <4>1, <4>2, <4>3
    <3>6. d = "superseded" => attempt'[t][n].status = "superseded"
      <4>1. SUFFICES ASSUME attempt[t][n].status = "superseded"
                     PROVE  attempt'[t][n].status = "superseded"
        BY <3>1, Disposed
      <4>2. QED
        BY <2>1, <4>1 DEF Kept, Open
    <3>7. d = "terminal" => attempt'[t][n].status = "failed" \/ result'[t].number \notin {0, n}
      <4>1. SUFFICES ASSUME attempt[t][n].status = "failed"
                     PROVE  attempt'[t][n].status = "failed"
        BY <3>1, <3>2, Disposed
      <4>2. QED
        BY <2>1, <4>1 DEF Kept, Open
    <3>. HIDE DEF d, t, n
    <3>8. Attested(e)'
      BY <3>3, <3>5, <3>6, <3>7, AttestationNext
    <3>9. QED
      BY <1>1, <1>2, <1>3, <3>2, <3>3, <3>8
  <2>4. QED
    BY <2>2, <2>3
<1>6. \/ evidence' = evidence
      \/ \E u \in Turns : Unattributable(u) \/ RecordEvidence(u)
  BY Writes
<1>7. QED
  BY <1>4, <1>5, <1>6

-----------------------------------------------------------------------------
(* Who waits for an attempt.                                               *)

LEMMA StillAwaited ==
  ASSUME IInv, Recorded, faults' = faults, NEW u \in Turns,
         \A v \in Turns : v # u => turn'[v] = turn[v],
         \A t \in Tasks : Current(t)' \subseteq Current(t),
         \/ turn'[u].number = turn[u].number
         \/ turn[u].number \notin Current(TaskOf[u])'
         \/ task'[TaskOf[u]].status = "expired"
  PROVE  CurrentIsAwaited'
<1>1. SUFFICES ASSUME faults = 0, NEW t \in Tasks, NEW n \in Current(t)',
                      task'[t].status # "expired"
               PROVE  \E v \in Turns : TaskOf[v] = t /\ turn'[v].number = n
  BY DEF CurrentIsAwaited
<1>2. n \in Current(t) /\ Kept(t)
  BY DEF Recorded
<1>3. task[t].status # "expired"
  BY <1>1, <1>2 DEF Kept, Open
<1>4. PICK v \in Turns : TaskOf[v] = t /\ turn[v].number = n
  BY <1>1, <1>2, <1>3 DEF IInv, CurrentIsAwaited
<1>5. turn'[v].number = n
  <2>1. CASE v # u
    BY <1>4, <2>1
  <2>2. CASE v = u
    BY <1>1, <1>4, <2>2
  <2>3. QED
    BY <2>1, <2>2
<1>6. QED
  BY <1>4, <1>5

(* A step that changes the status of one attempt opens none.               *)
LEMMA NoneOpened ==
  ASSUME RowTypes, NEW t \in Tasks, NEW n \in Numbers, NEW s \in AttemptStates,
         SetStatus(t, n, s), s \in Open => attempt[t][n].status \in Open
  PROVE  /\ \A x \in Tasks : Current(x)' \subseteq Current(x)
         /\ s \notin Open => n \notin Current(t)'
<1>1. /\ attempt'[t][n].status = s
      /\ \A m \in Numbers : m # n => attempt'[t][m] = attempt[t][m]
      /\ \A x \in Tasks : x # t => attempt'[x] = attempt[x]
  BY OneRow
<1>2. ASSUME NEW x \in Tasks PROVE Current(x)' \subseteq Current(x)
  <2>1. CASE x = t
    BY <1>1, <2>1 DEF Current
  <2>2. CASE x # t
    BY <1>1, <2>2 DEF Current
  <2>3. QED
    BY <2>1, <2>2
<1>3. s \notin Open => n \notin Current(t)'
  BY <1>1 DEF Current
<1>4. QED
  BY <1>2, <1>3

LEMMA SameAttempts ==
  ASSUME attempt' = attempt
  PROVE  \A x \in Tasks : Current(x)' = Current(x)
  BY DEF Current

LEMMA NotesAwaited ==
  ASSUME IInv, Recorded, NEW u \in Turns,
         Replay(u) \/ EnsureTask(u) \/ Answered(u) \/ Unanswered(u)
  PROVE  CurrentIsAwaited'
<1>1. attempt' = attempt /\ faults' = faults
  BY DEF Replay, EnsureTask, Answered, Unanswered, records
<1>2. /\ \A v \in Turns : v # u => turn'[v] = turn[v]
      /\ turn'[u].number = turn[u].number
  BY NotesHold
<1>3. \A x \in Tasks : Current(x)' \subseteq Current(x)
  BY <1>1, SameAttempts
<1>4. QED
  BY <1>1, <1>2, <1>3, StillAwaited

LEMMA OpenAwaited ==
  ASSUME IInv, Recorded, NEW u \in Turns, OpenAttempt(u)
  PROVE  CurrentIsAwaited'
<1>. DEFINE t == TaskOf[u]
           n == task[t].attempts + 1
<1>1. /\ turn \in [Turns -> Locals] /\ turn[u] \in Locals /\ t \in Tasks
      /\ RowTypes /\ \A x \in Tasks : TaskOK(x)
      /\ task[t] \in TaskRows /\ attempt \in [Tasks -> [Numbers -> AttemptRows]]
  BY DispatchAssumption DEF IInv, TypeOK, RowTypes
<1>2. /\ turn' = [turn EXCEPT ![u].at = "issue", ![u].opened = 0, ![u].number = n]
      /\ faults' = faults
      /\ task' = [task EXCEPT ![t].attempts = n, ![t].expires = turn[u].opened + Lease]
  BY DEF OpenAttempt
<1>3. turn'[u].number = n /\ \A v \in Turns : v # u => turn'[v] = turn[v]
  BY <1>1, <1>2 DEF Locals
<1>4. task'[t].attempts = n
  <2>. DEFINE expiry == turn[u].opened + Lease
             row == [[task[t] EXCEPT !.attempts = n] EXCEPT !.expires = expiry]
  <2>1. task' = [task EXCEPT ![t] = row]
    BY <1>1, <1>2 DEF RowTypes
  <2>2. row.attempts = n
    BY <1>1 DEF TaskRows
  <2>. HIDE DEF row
  <2>3. QED
    BY <1>1, <2>1, <2>2 DEF RowTypes
<1>5. \A x \in Tasks : x # t => attempt'[x] = attempt[x] /\ task'[x] = task[x]
  BY <1>1, <1>2 DEF OpenAttempt, RowTypes
<1>6. \A m \in Current(t)' : m = n
  BY <1>1, <1>4 DEF Recorded, TaskOK
<1>7. \A x \in Tasks : x # t => Current(x)' = Current(x)
  BY <1>5 DEF Current
<1>8. ASSUME faults = 0, NEW x \in Tasks, NEW m \in Current(x)', task'[x].status # "expired"
      PROVE  \E v \in Turns : TaskOf[v] = x /\ turn'[v].number = m
  <2>1. CASE x = t
    BY <1>3, <1>6, <2>1
  <2>2. CASE x # t
    <3>1. m \in Current(x) /\ task[x].status # "expired"
      BY <1>5, <1>7, <1>8, <2>2
    <3>2. PICK v \in Turns : TaskOf[v] = x /\ turn[v].number = m
      BY <1>8, <3>1 DEF IInv, CurrentIsAwaited
    <3>3. turn'[v] = turn[v]
      BY <1>3, <2>2, <3>2
    <3>4. QED
      BY <3>2, <3>3
  <2>3. QED
    BY <2>1, <2>2
<1>9. faults' = faults
  BY <1>2
<1>. HIDE DEF t, n
<1>10. ASSUME faults' = 0, NEW x \in Tasks, NEW m \in Current(x)', task'[x].status # "expired"
       PROVE  \E v \in Turns : TaskOf[v] = x /\ turn'[v].number = m
  <2>1. faults = 0
    BY <1>9, <1>10
  <2>2. QED
    BY <1>8, <1>10, <2>1
<1>11. QED
  BY <1>10 DEF CurrentIsAwaited

LEMMA EndingAwaited ==
  ASSUME IInv, Recorded, NEW u \in Turns,
         \/ RefuseReuse(u) \/ RefuseOpen(u) \/ CloseAttempt(u) \/ RecordEvidence(u)
         \/ CommitFailure(u) \/ Commit(u)
  PROVE  CurrentIsAwaited'
<1>. DEFINE t == TaskOf[u]
           n == turn[u].number
           Gone == n \notin Current(t)' \/ task'[t].status = "expired"
           Fewer == \A x \in Tasks : Current(x)' \subseteq Current(x)
<1>1. /\ RowTypes /\ t \in Tasks /\ TaskOK(t) /\ TurnOK(u) /\ Kept(t)
      /\ turn[u].at \in Waiting => n \in Numbers
  BY Domains DEF IInv, TypeOK, RowTypes, Recorded
<1>2. faults' = faults /\ \A v \in Turns : v # u => turn'[v] = turn[v]
  <2>1. Ends(u, "failed") \/ Ends(u, "answered")
    BY DEF RefuseReuse, RefuseOpen, CloseAttempt, RecordEvidence, CommitFailure, Commit
  <2>2. {"failed", "answered"} \subseteq Stages
    BY DEF Stages
  <2>3. faults' = faults
    BY DEF RefuseReuse, RefuseOpen, CloseAttempt, RecordEvidence, CommitFailure, Commit
  <2>4. QED
    BY <2>1, <2>2, <2>3, OneMoves
<1>3. {"failed", "expired", "succeeded"} \subseteq AttemptStates /\ 0 \notin Numbers
  BY DEF AttemptStates, Numbers
<1>4. {"failed", "expired", "succeeded"} \cap Open = {}
  BY DEF Open
<1>5. ASSUME NEW s \in {"failed", "expired", "succeeded"}, SetStatus(t, n, s), n \in Numbers
      PROVE  Fewer /\ Gone
  <2>1. s \in AttemptStates /\ s \notin Open
    BY <1>3, <1>4
  <2>. HIDE DEF t, n
  <2>2. QED
    BY <1>1, <1>5, <2>1, NoneOpened
<1>6. ASSUME attempt' = attempt, \/ n = 0 \/ n \notin Current(t) \/ task'[t].status = "expired"
      PROVE  Fewer /\ Gone
  BY <1>1, <1>3, <1>6, SameAttempts DEF Current
<1>7. CASE RefuseReuse(u)
  <2>1. n = 0 /\ attempt' = attempt
    BY <1>1, <1>7 DEF RefuseReuse, TurnOK, records
  <2>2. Fewer /\ Gone
    BY <2>1, <1>6
  <2>. HIDE DEF t, n
  <2>3. QED
    BY <1>2, <2>2, StillAwaited DEF t, n
<1>8. CASE RefuseOpen(u)
  <2>1. attempt' = attempt /\ task' = task /\ task[t].status \notin Open
    BY <1>8 DEF RefuseOpen, records
  <2>2. n \notin Current(t) \/ task'[t].status = "expired"
    BY <2>1, <1>1 DEF TaskOK
  <2>3. Fewer /\ Gone
    BY <2>1, <2>2, <1>6
  <2>4. QED
    BY <1>2, <2>3, StillAwaited
<1>9. CASE CloseAttempt(u)
  <2>1. n \in Numbers
    BY <1>1, <1>9 DEF CloseAttempt, Waiting
  <2>2. CASE attempt[t][n].status \in Open
    BY <2>1, <2>2, <1>2, <1>5, <1>9, StillAwaited DEF CloseAttempt, SetStatus
  <2>3. CASE attempt[t][n].status \notin Open
    <3>1. attempt' = attempt /\ n \notin Current(t)
      BY <2>3, <1>9 DEF CloseAttempt, Current
    <3>2. Fewer /\ Gone
      BY <3>1, <1>6
    <3>3. QED
      BY <1>2, <3>2, StillAwaited
  <2>4. QED
    BY <2>2, <2>3
<1>10. CASE CommitFailure(u)
  <2>1. n \in Numbers /\ SetStatus(t, n, "failed")
    BY <1>1, <1>10 DEF CommitFailure, Waiting, SetStatus
  <2>2. Fewer /\ Gone
    BY <2>1, <1>5
  <2>3. QED
    BY <1>2, <2>2, StillAwaited
<1>11. CASE Commit(u)
  <2>1. n \in Numbers /\ SetStatus(t, n, "succeeded")
    BY <1>1, <1>11 DEF Commit, Waiting, SetStatus
  <2>2. Fewer /\ Gone
    BY <2>1, <1>5
  <2>3. QED
    BY <1>2, <2>2, StillAwaited
<1>12. CASE RecordEvidence(u)
  <2>1. n \in Numbers /\ turn[u].at = "settle" /\ Presented(u) # "committed"
    BY <1>1, <1>12 DEF RecordEvidence, Waiting
  <2>2. CASE attempt[t][n].status \in Open /\ Presented(u) = "expired"
    <3>1. SetStatus(t, n, "expired")
      BY <2>2, <1>12 DEF RecordEvidence, SetStatus
    <3>2. Fewer /\ Gone
      BY <2>1, <3>1, <1>5
    <3>3. QED
      BY <1>2, <3>2, StillAwaited
  <2>3. CASE ~ (attempt[t][n].status \in Open /\ Presented(u) = "expired")
    <3>1. attempt' = attempt
      BY <2>3, <1>12 DEF RecordEvidence
    <3>2. n \notin Current(t)
      <4>1. SUFFICES ASSUME n \in Current(t) PROVE FALSE
        OBVIOUS
      <4>2. attempt[t][n].status \in Open /\ Presented(u) # "expired"
        BY <4>1, <2>3 DEF Current
      <4>3. task[t].status \in Open \cup {"expired"} /\ result[t].number = 0
        BY <4>1, <1>1 DEF TaskOK, Open
      <4>4. n # 0
        BY <2>1, <1>3
      <4>5. Evaluate(t, n, turn[u].observed) \in {"expired", "committed"}
        <5>. HIDE DEF t, n
        <5>1. QED
          BY <4>2, <4>3, <4>4 DEF Evaluate, Open
      <4>6. QED
        BY <4>2, <4>5, <2>1 DEF Presented
    <3>3. Fewer /\ Gone
      BY <3>1, <3>2, <1>6
    <3>4. QED
      BY <1>2, <3>3, StillAwaited
  <2>4. QED
    BY <2>2, <2>3
<1>13. QED
  BY <1>7, <1>8, <1>9, <1>10, <1>11, <1>12

LEMMA MovingAwaited ==
  ASSUME IInv, Recorded, NEW u \in Turns,
         Begin(u) \/ IssueCredential(u) \/ MarkDispatched(u) \/ Unattributable(u) \/ GiveUp(u)
  PROVE  CurrentIsAwaited'
<1>1. /\ faults' = faults
      /\ \/ Becomes(u, "replay") \/ Becomes(u, "mark") \/ Becomes(u, "await")
         \/ Becomes(u, "abandon")
  BY DEF Begin, IssueCredential, MarkDispatched, Unattributable, GiveUp
<1>2. {"replay", "mark", "await", "abandon"} \subseteq Stages
  BY DEF Stages, Waiting
<1>3. /\ \A v \in Turns : v # u => turn'[v] = turn[v]
      /\ turn'[u].number = turn[u].number
  BY <1>1, <1>2, OneMoves
<1>4. \A x \in Tasks : Current(x)' \subseteq Current(x)
  <2>1. CASE attempt' = attempt
    BY <2>1, SameAttempts
  <2>2. CASE attempt' # attempt
    <3>. DEFINE t == TaskOf[u]
               n == turn[u].number
    <3>1. MarkDispatched(u)
      BY <2>2 DEF Begin, IssueCredential, Unattributable, GiveUp, records
    <3>2. attempt[t][n].status = "accepted" /\ SetStatus(t, n, "running")
      BY <2>2, <3>1 DEF MarkDispatched, SetStatus
    <3>3. turn[u].at \in Waiting
      BY <3>1 DEF MarkDispatched, Waiting
    <3>4. RowTypes /\ t \in Tasks /\ n \in Numbers
      BY <3>3, Domains DEF IInv, TypeOK, RowTypes
    <3>5. "running" \in AttemptStates /\ attempt[t][n].status \in Open
      BY <3>2 DEF AttemptStates, Open
    <3>. HIDE DEF t, n
    <3>6. QED
      BY <3>2, <3>4, <3>5, NoneOpened
  <2>3. QED
    BY <2>1, <2>2
<1>5. QED
  BY <1>1, <1>3, <1>4, StillAwaited

LEMMA StepAwaited ==
  ASSUME IInv, [Next]_vars
  PROVE  CurrentIsAwaited'
<1>0. Recorded
  BY StepRecords
<1>1. ASSUME NEW u \in Turns, Replay(u) \/ EnsureTask(u) \/ Answered(u) \/ Unanswered(u)
      PROVE  CurrentIsAwaited'
  BY <1>0, <1>1, NotesAwaited
<1>2. ASSUME NEW u \in Turns, OpenAttempt(u) PROVE CurrentIsAwaited'
  BY <1>0, <1>2, OpenAwaited
<1>3. ASSUME NEW u \in Turns,
             \/ RefuseReuse(u) \/ RefuseOpen(u) \/ CloseAttempt(u) \/ RecordEvidence(u)
             \/ CommitFailure(u) \/ Commit(u)
      PROVE  CurrentIsAwaited'
  BY <1>0, <1>3, EndingAwaited
<1>4. ASSUME NEW u \in Turns,
             Begin(u) \/ IssueCredential(u) \/ MarkDispatched(u) \/ Unattributable(u) \/ GiveUp(u)
      PROVE  CurrentIsAwaited'
  BY <1>0, <1>4, MovingAwaited
<1>5. ASSUME NEW u \in Turns, CallFails(u) \/ Crash(u) PROVE CurrentIsAwaited'
  <2>1. faults' = faults + 1 /\ faults \in Nat
    BY <1>5, DispatchAssumption DEF CallFails, Crash, IInv, TypeOK
  <2>2. faults' # 0
    BY <2>1
  <2>3. QED
    BY <2>2 DEF CurrentIsAwaited
<1>6. CASE Stop \/ Tick \/ RevokeLeases \/ UNCHANGED vars
  <2>1. turn' = turn /\ faults' = faults
    BY <1>6 DEF Stop, Tick, RevokeLeases, vars
  <2>2. \A x \in Tasks : Current(x)' \subseteq Current(x)
    <3>1. CASE attempt' = attempt
      BY <3>1, SameAttempts
    <3>2. CASE RevokeLeases
      <4>1. ASSUME NEW x \in Tasks, NEW m \in Numbers
            PROVE  attempt'[x][m].status \in Open => attempt[x][m].status \in Open
        BY <3>2 DEF RevokeLeases, Revoked
      <4>2. QED
        BY <4>1 DEF Current
    <3>3. QED
      BY <1>6, <3>1, <3>2 DEF Stop, Tick, vars, records
  <2>3. CASE Turns # {}
    <3>1. PICK u \in Turns : TRUE
      BY <2>3
    <3>2. QED
      BY <1>0, <2>1, <2>2, StillAwaited
  <2>4. CASE Turns = {}
    <3>1. ASSUME faults = 0, NEW x \in Tasks, NEW m \in Current(x)'
          PROVE  task'[x].status = "expired"
      <4>1. m \in Current(x) /\ Kept(x)
        BY <1>0, <2>2, <3>1 DEF Recorded
      <4>2. task[x].status = "expired"
        BY <2>4, <3>1, <4>1 DEF IInv, CurrentIsAwaited
      <4>3. QED
        BY <4>1, <4>2 DEF Kept, Open
    <3>2. QED
      BY <2>1, <3>1 DEF CurrentIsAwaited
  <2>5. QED
    BY <2>3, <2>4
<1>7. QED
  BY <1>1, <1>2, <1>3, <1>4, <1>5, <1>6 DEF Next, Step

-----------------------------------------------------------------------------
(* The invariants.                                                         *)

LEMMA InvInit == Init => IInv
<1>. SUFFICES ASSUME Init PROVE IInv
  OBVIOUS
<1>1. TypeOK
  <2>1. Idle \in Locals
    BY DEF Idle, Locals, Stages
  <2>2. /\ [status |-> "absent", expires |-> 0, attempts |-> 0] \in TaskRows
        /\ [status |-> "none", expires |-> 0] \in AttemptRows
        /\ Unregistered \in [number : 0..MaxNumber, at : Nat]
    BY DispatchAssumption
       DEF TaskRows, TaskStates, AttemptRows, AttemptStates, Unregistered
  <2>3. 0 \in 0..MaxTime /\ 0 \in 0..MaxFaults /\ 0 \in 0..MaxNumber /\ FALSE \in BOOLEAN
    BY DispatchAssumption
  <2>4. /\ task \in [Tasks -> TaskRows]
        /\ attempt \in [Tasks -> [Numbers -> AttemptRows]]
        /\ result \in [Tasks -> [number : 0..MaxNumber, at : Nat]]
        /\ turn \in [Turns -> Locals] /\ answer \in [Turns -> 0..MaxNumber]
    BY <2>1, <2>2, <2>3 DEF Init
  <2>5. /\ now \in 0..MaxTime /\ stopped \in BOOLEAN /\ faults \in 0..MaxFaults /\ evidence = {}
    BY <2>3 DEF Init
  <2>6. QED
    BY <2>4, <2>5 DEF TypeOK
<1>2. ASSUME NEW t \in Tasks PROVE TaskOK(t) /\ Current(t) = {}
  <2>1. /\ task[t].status = "absent" /\ task[t].attempts = 0 /\ result[t].number = 0
        /\ \A n \in Numbers : attempt[t][n].status = "none"
    BY DEF Init, Unregistered
  <2>2. Current(t) = {}
    BY <2>1 DEF Current, Open
  <2>3. \A n \in Numbers : n # 0 /\ n > 0
    BY DispatchAssumption DEF Numbers
  <2>4. QED
    BY <2>1, <2>2, <2>3 DEF TaskOK
<1>3. ASSUME NEW u \in Turns PROVE TurnOK(u)
  <2>1. /\ turn[u].at = "idle" /\ turn[u].tries = 1 /\ turn[u].number = 0 /\ answer[u] = 0
        /\ task[TaskOf[u]].attempts = 0
    BY DispatchAssumption DEF Init, Idle
  <2>2. "idle" \notin Waiting
    BY DEF Waiting
  <2>3. QED
    BY <2>1, <2>2 DEF TurnOK
<1>4. HeldByOne
  BY DEF Init, Idle, HeldByOne
<1>5. EvidenceIsTrue
  BY DEF Init, EvidenceIsTrue
<1>6. CurrentIsAwaited
  BY <1>2 DEF CurrentIsAwaited
<1>7. QED
  BY <1>1, <1>2, <1>3, <1>4, <1>5, <1>6 DEF IInv

LEMMA InvNext == IInv /\ [Next]_vars => IInv'
<1>. SUFFICES ASSUME IInv, [Next]_vars PROVE IInv'
  OBVIOUS
<1>1. Recorded /\ Known /\ HeldByOne' /\ CurrentIsAwaited'
  BY StepRecords, StepTurns, StepHeld, StepAwaited
<1>2. /\ evidence' \subseteq [task : Tasks, number : Numbers, disposition : Dispositions]
      /\ EvidenceIsTrue'
  BY StepEvidence
<1>3. now' \in 0..MaxTime /\ stopped' \in BOOLEAN /\ faults' \in 0..MaxFaults
  <2>1. now \in 0..MaxTime /\ stopped \in BOOLEAN /\ faults \in 0..MaxFaults
    BY DEF IInv, TypeOK
  <2>2. \/ now' = now
        \/ now < MaxTime /\ now' = now + 1
    BY Writes
  <2>3. stopped' \in {stopped, TRUE}
    BY Writes
  <2>4. \/ faults' = faults
        \/ faults < MaxFaults /\ faults' = faults + 1
    BY Writes
  <2>5. now' \in 0..MaxTime
    BY <2>1, <2>2, DispatchAssumption
  <2>6. faults' \in 0..MaxFaults
    BY <2>1, <2>4, DispatchAssumption
  <2>7. QED
    BY <2>1, <2>3, <2>5, <2>6
<1>4. TypeOK'
  BY <1>1, <1>2, <1>3 DEF TypeOK, Recorded, RowTypes, Known
<1>5. QED
  BY <1>1, <1>2, <1>4 DEF IInv, Recorded, Known

LEMMA Invariant == Spec => []IInv
  BY InvInit, InvNext, PTL DEF Spec

(* Every variable stays in its domain.                                     *)
THEOREM DispatchTypes == Spec => []TypeOK
<1>1. IInv => TypeOK
  BY DEF IInv
<1>2. QED
  BY <1>1, Invariant, PTL

(* However attempts are opened, replaced, revoked and answered, by however *)
(* many processes, a task has at most its newest attempt open.             *)
THEOREM NewestAttemptOnly == Spec => []OneCurrentAttempt
<1>1. IInv => OneCurrentAttempt
  BY Parts DEF IInv
<1>2. QED
  BY <1>1, Invariant, PTL

(* Only the newest attempt ever settles a task, and only within its lease. *)
THEOREM NewestAttemptSettles == Spec => []SettledByNewest
<1>1. IInv => SettledByNewest
  BY Parts DEF IInv
<1>2. QED
  BY <1>1, Invariant, PTL

(* What evidence says of a result that did not commit stays true.          *)
THEOREM EvidenceStaysTrue == Spec => []EvidenceIsTrue
<1>1. IInv => EvidenceIsTrue
  BY DEF IInv
<1>2. QED
  BY <1>1, Invariant, PTL

(* While no process dies and no call fails, an attempt that is still open  *)
(* is one a turn is waiting for, unless its task expired under it.         *)
THEOREM NoAttemptForgotten == Spec => []CurrentIsAwaited
<1>1. IInv => CurrentIsAwaited
  BY DEF IInv
<1>2. QED
  BY <1>1, Invariant, PTL

(* No step changes an attempt or a task that is closed, or a registration. *)
THEOREM ClosedForEver == Spec => ClosedStaysClosed
<1>1. ASSUME IInv, [Next]_vars, NEW t \in Tasks PROVE Kept(t)
  BY <1>1, StepRecords DEF Recorded
<1>. DEFINE Stays ==
       \A t \in Tasks :
         /\ task[t].status \notin Open \cup {"absent"} => task'[t] = task[t]
         /\ \A n \in Numbers :
              attempt[t][n].status \notin Open \cup {"none"} => attempt'[t][n] = attempt[t][n]
         /\ result[t].number # 0 => result'[t] = result[t]
<1>2. IInv /\ [Next]_vars => [Stays]_vars
  BY <1>1 DEF Kept
<1>3. QED
  BY <1>2, Invariant, PTL DEF Spec, ClosedStaysClosed

-----------------------------------------------------------------------------
(* Turns settle once: a commit is the only step that settles, and every    *)
(* answer is the registration.                                             *)

SettledAs == [t \in Tasks |-> result[t].number]

LEMMA SameResults == ASSUME result' = result PROVE SettledAs' = SettledAs
  BY DEF SettledAs

LEMMA StepSettles ==
  ASSUME IInv, [Next]_vars
  PROVE  [Settlement!Next]_<<SettledAs, answer>>
<1>1. ASSUME NEW u \in Turns, Commit(u) PROVE Settlement!Next
  <2>. DEFINE t == TaskOf[u]
             n == turn[u].number
  <2>1. /\ answer' = [answer EXCEPT ![u] = n] /\ turn[u].at \in Waiting
        /\ result' = [result EXCEPT ![t] = [number |-> n, at |-> turn[u].observed]]
    BY <1>1 DEF Commit, Waiting
  <2>2. t \in Tasks /\ n \in Numbers /\ result \in [Tasks -> [number : 0..MaxNumber, at : Nat]]
    BY <2>1, Domains DEF IInv, TypeOK
  <2>3. result[t].number = 0
    BY <1>1, Committable DEF Commit
  <2>4. SettledAs' = [SettledAs EXCEPT ![t] = n]
    BY <2>1, <2>2 DEF SettledAs
  <2>5. PICK o \in Numbers : o = n
    BY <2>2
  <2>6. Settlement!SettleAndAnswer(u, o)
    BY <2>1, <2>2, <2>3, <2>4, <2>5 DEF Settlement!SettleAndAnswer, SettledAs
  <2>7. QED
    BY <2>6 DEF Settlement!Next
<1>2. ASSUME NEW u \in Turns, result' = result, result[TaskOf[u]].number # 0,
             answer' = [answer EXCEPT ![u] = result[TaskOf[u]].number]
      PROVE  Settlement!Next
  <2>1. TaskOf[u] \in Tasks
    BY DispatchAssumption
  <2>2. Settlement!Answer(u)
    BY <1>2, <2>1, SameResults DEF Settlement!Answer, SettledAs
  <2>3. QED
    BY <2>2 DEF Settlement!Next
<1>3. ASSUME NEW u \in Turns, Replay(u) PROVE [Settlement!Next]_<<SettledAs, answer>>
  <2>1. result' = result
    BY <1>3 DEF Replay, records
  <2>2. CASE result[TaskOf[u]].number # 0
    BY <1>2, <1>3, <2>1, <2>2 DEF Replay
  <2>3. CASE result[TaskOf[u]].number = 0
    <3>1. answer' = answer
      BY <1>3, <2>3 DEF Replay
    <3>2. QED
      BY <2>1, <3>1, SameResults
  <2>4. QED
    BY <2>2, <2>3
<1>4. ASSUME NEW u \in Turns, Crash(u) PROVE Settlement!Next
  <2>1. result' = result /\ answer' = [answer EXCEPT ![u] = 0]
    BY <1>4 DEF Crash, records
  <2>2. Settlement!Forget(u)
    BY <2>1, SameResults DEF Settlement!Forget, SettledAs
  <2>3. QED
    BY <2>2 DEF Settlement!Next
<1>5. \/ UNCHANGED <<result, answer>>
      \/ \E u \in Turns : Commit(u) \/ Replay(u) \/ Crash(u)
  BY Writes
<1>6. ASSUME UNCHANGED <<result, answer>> PROVE UNCHANGED <<SettledAs, answer>>
  BY <1>6, SameResults
<1>7. QED
  BY <1>1, <1>3, <1>4, <1>5, <1>6

(* A turn settles once, on the result of one attempt, and whoever runs it, *)
(* and however often, is answered with that result.                        *)
THEOREM TurnSettlesOnce == Spec => TurnsSettleOnce
<1>1. Init => Settlement!Init
  BY DEF Init, Unregistered, Settlement!Init
<1>2. IInv /\ [Next]_vars => [Settlement!Next]_<<SettledAs, answer>>
  BY StepSettles
<1>3. QED
  BY <1>1, <1>2, Invariant, PTL DEF Spec, TurnsSettleOnce, Settlement!Spec, SettledAs
=============================================================================
