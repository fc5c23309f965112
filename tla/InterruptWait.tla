---------------------------- MODULE InterruptWait ---------------------------
(***************************************************************************)
(* A run that stops for a person: the workflow opens an input or approval  *)
(* request, waits for a signal or for the deadline, reads what was         *)
(* decided and goes on, while API callers respond, an operator cancels or  *)
(* discards, and the deadline passes.  The workflow is AgentRunWorkflow    *)
(* (internal/workflow) with the operations of execution.Executor; the      *)
(* requests are the rows of interrupts/postgres.Store, every write of      *)
(* which is one transaction under idempotency.Store.Execute.               *)
(*                                                                         *)
(* The workflow has one actor.  Each of its steps loads the run first,     *)
(* writes later and returns after that.  A crash forgets a step whose      *)
(* output was not recorded, and the step runs again; an error is recorded  *)
(* as the output, so that the step never runs again, and ends the run.     *)
(*                                                                         *)
(* Left out: runs without a governed effect (review completes them without *)
(* a request), retries (a new generation, with a workflow of its own),     *)
(* outcomes of child runs (nothing in the service reports them), and       *)
(* checks that refuse a caller and change nothing (authority, schema,      *)
(* action digest, and the request version, which a request keeps for       *)
(* life).  The turn stands for its decision record, its tool call and its  *)
(* delegation too: they move no state kept here, and end like a turn.      *)
(***************************************************************************)
EXTENDS Integers

CONSTANTS
  Callers,     \* API calls that answer a request, each under its own key
  RequestOf,   \* the turn whose request a caller answers
  TurnLimit,   \* turns of the workflow; a turn opens one request at most
  MaximumWakes, \* how often the wait for one request may be woken
  MaxCrashes   \* bound: deaths of the workflow's process and of handlers

Turns == 1..TurnLimit

ASSUME InterruptAssumption ==
  /\ TurnLimit \in Nat \ {0} /\ MaximumWakes \in Nat \ {0} /\ MaxCrashes \in Nat
  /\ RequestOf \in [Callers -> Turns]

VARIABLES
  run,          \* status and version of the aggregate
  request,      \* the request row of each turn
  elapsed,      \* turns whose deadline has passed
  wf,           \* what the engine recorded: where, turn, wake, carried version, outcome
  step,         \* local to the step in flight: how far it is, the snapshot it loaded
  expiry,       \* the idempotency row of the expiry step in flight
  signals,      \* signals delivered to a topic and not consumed
  stopped,      \* the engine was told to cancel the workflow
  budget,       \* the reservation, as the workflow that ends the run leaves it
  call,         \* local state of each API call
  keys,         \* callers whose write has an idempotency row
  acknowledged, \* callers whose fact is in the authority journal
  delivered,    \* signal keys the engine has seen
  crashes

requestVars == <<request, elapsed, keys>>
engineVars == <<wf, step, expiry, stopped>>
signalVars == <<signals, delivered>>
callVars == <<call, acknowledged>>
vars == <<run, request, elapsed, wf, step, expiry, signals, stopped, budget, call, keys,
          acknowledged, delivered, crashes>>

Answers == [input |-> {"respond"}, approval |-> {"approve", "revise"}]
Kinds == DOMAIN Answers
AnyAnswer == UNION {Answers[k] : k \in Kinds}
Awaiting == [input |-> "awaiting_input", approval |-> "awaiting_approval"]

Unopened == [kind |-> "none", answer |-> "none", expired |-> FALSE]
Unread == [phase |-> "idle", status |-> "planning", version |-> 0]
NoExpiry == [version |-> 0, raced |-> FALSE]
Unsent == [at |-> "idle", answer |-> "none", version |-> 0, inTime |-> FALSE]

Statuses == {"planning", "awaiting_input", "executing", "validating", "awaiting_review",
             "awaiting_approval", "committing", "cancelling", "failed", "refused", "discarded"}

Opening == {"open-input", "review"}
Terminals == {"terminal-failed", "terminal-refused"}
Steps == {"turn", "finalize", "read", "expire", "revise", "commit"} \cup Opening \cup Terminals
Phases == {"idle", "loaded", "written", "settled"}
Ended == {"committing", "failed", "refused", "superseded", "cancelled", "errored"}

Init ==
  /\ run = [status |-> "planning", version |-> 1]
  /\ request = [t \in Turns |-> Unopened]
  /\ elapsed = {}
  /\ wf = [at |-> "turn", turn |-> 1, wake |-> 0, version |-> 1, timedOut |-> FALSE]
  /\ step = Unread
  /\ expiry = NoExpiry
  /\ signals = [t \in Turns |-> {}]
  /\ stopped = FALSE
  /\ budget = "held"
  /\ call = [c \in Callers |-> Unsent]
  /\ keys = {} /\ acknowledged = {} /\ delivered = {}
  /\ crashes = 0

-----------------------------------------------------------------------------
(* Mutant of Transition: the writer does not compare versions.             *)
TransitionUnguarded(expected, status) ==
  run' = [status |-> status, version |-> run.version + 1]

(* The aggregate: a compare-and-set on the version the writer expects.     *)
Transition(expected, status) ==
  /\ run.version = expected
  /\ run' = [status |-> status, version |-> run.version + 1]

Record(next) ==
  /\ wf' = next
  /\ step' = Unread
  /\ expiry' = NoExpiry

GoTo(place) == Record([wf EXCEPT !.at = place])

In(location, phase) == wf.at = location /\ step.phase = phase

Engine == UNCHANGED <<requestVars, signalVars, callVars, stopped, crashes>>

(* load: a run that another authority is ending supersedes the workflow.   *)
Load ==
  /\ wf.at \in Steps /\ step.phase = "idle" /\ ~stopped
  /\ IF run.status \in {"cancelling", "discarded"}
     THEN GoTo("superseded")
     ELSE /\ step' = [phase |-> "loaded", status |-> run.status, version |-> run.version]
          /\ UNCHANGED <<wf, expiry>>
  /\ Engine /\ UNCHANGED <<run, budget>>

NextTurn(next) == [next EXCEPT !.at = "turn", !.turn = @ + 1]

(* A turn past the limit fails the run, and any other may end it: refused  *)
(* by the agent, halted by stale authority or by the budget, or asking for *)
(* input after the plan was revised.  Else it decides what comes next:     *)
(* input, a candidate, or another turn, with or without a tool call.       *)
Decide ==
  /\ In("turn", "loaded")
  /\ \/ wf.turn > TurnLimit /\ GoTo("terminal-failed")
     \/ wf.turn <= TurnLimit /\ \E end \in Terminals : GoTo(end)
     \/ /\ wf.turn <= TurnLimit /\ step.status = "planning"
        /\ Record([wf EXCEPT !.at = "open-input", !.version = step.version])
     \/ /\ wf.turn <= TurnLimit /\ step.status \in {"planning", "executing"}
        /\ Record([wf EXCEPT !.at = "finalize", !.version = step.version])
     \/ /\ wf.turn <= TurnLimit /\ step.status \in {"planning", "executing"}
        /\ Record(NextTurn([wf EXCEPT !.version = step.version]))
  /\ Engine /\ UNCHANGED <<run, budget>>

After == [planning |-> "executing", executing |-> "validating",
          validating |-> "awaiting_review"]

(* FinalizeCandidate walks the run to review, one transition at a time,    *)
(* unless the candidate is rejected on the way.                            *)
Finalize ==
  /\ In("finalize", "loaded")
  /\ \/ /\ step.status \notin DOMAIN After
        /\ Record([wf EXCEPT !.at = "review", !.version = step.version])
        /\ UNCHANGED run
     \/ /\ step.status \notin {"planning", "executing"}
        /\ GoTo("terminal-refused") /\ UNCHANGED run
     \/ /\ step.status \in DOMAIN After
        /\ Transition(step.version, After[step.status])
        /\ step' = [step EXCEPT !.status = After[step.status], !.version = @ + 1]
        /\ UNCHANGED <<wf, expiry>>
     \/ /\ step.status \in DOMAIN After /\ run.version # step.version
        /\ GoTo("superseded") /\ UNCHANGED run
  /\ Engine /\ UNCHANGED budget

(* A replay finds the request its first execution opened.                  *)
Open(location, kind) ==
  /\ In(location, "loaded")
  /\ \/ /\ request[wf.turn].kind # "none"
        /\ UNCHANGED <<run, request>>
     \/ /\ request[wf.turn].kind = "none"
        /\ Transition(wf.version, Awaiting[kind])
        /\ request' = [request EXCEPT ![wf.turn] = [Unopened EXCEPT !.kind = kind]]
  /\ step' = [step EXCEPT !.phase = "written"]
  /\ UNCHANGED <<wf, expiry, elapsed, keys, signalVars, callVars, stopped, crashes, budget>>

OpenConflict ==
  /\ wf.at \in Opening /\ step.phase = "loaded"
  /\ request[wf.turn].kind = "none" /\ run.version # wf.version
  /\ GoTo("superseded")
  /\ Engine /\ UNCHANGED <<run, budget>>

ReturnOpened ==
  /\ wf.at \in Opening /\ step.phase = "written"
  /\ Record([wf EXCEPT !.at = "await", !.wake = 0, !.version = @ + 1])
  /\ Engine /\ UNCHANGED <<run, budget>>

OpenInput == Open("open-input", "input")
ResolveReview == Open("review", "approval")

-----------------------------------------------------------------------------
(* AwaitSignal takes a pending signal before it looks at the deadline.     *)
AwaitSignal ==
  /\ wf.at = "await" /\ ~stopped
  /\ \E c \in signals[wf.turn] :
       signals' = [signals EXCEPT ![wf.turn] = @ \ {c}]
  /\ Record([wf EXCEPT !.at = "read", !.timedOut = FALSE])
  /\ UNCHANGED <<run, requestVars, callVars, stopped, delivered, crashes, budget>>

(* Mutant of AwaitTimeout: only an answer ends the wait.                   *)
AwaitTimeoutAnswered ==
  /\ wf.at = "await" /\ ~stopped
  /\ signals[wf.turn] = {} /\ request[wf.turn].answer # "none"
  /\ Record([wf EXCEPT !.at = "read", !.timedOut = TRUE])
  /\ Engine /\ UNCHANGED <<run, budget>>

AwaitTimeout ==
  /\ wf.at = "await" /\ ~stopped
  /\ signals[wf.turn] = {} /\ wf.turn \in elapsed
  /\ Record([wf EXCEPT !.at = "read", !.timedOut = TRUE])
  /\ Engine /\ UNCHANGED <<run, budget>>

(* The wake budget is a guard against a broken source of signals: a wait   *)
(* that spends it fails the run.                                           *)
WaitAgain ==
  IF wf.wake + 1 < MaximumWakes
  THEN Record([wf EXCEPT !.at = "await", !.wake = @ + 1])
  ELSE GoTo("terminal-failed")

(* ReadInput and ReadApproval: the version they carry on is the one loaded *)
(* before the request was read.                                            *)
ReadRequest ==
  /\ In("read", "loaded")
  /\ LET answer == request[wf.turn].answer
         carried == [wf EXCEPT !.version = step.version]
     IN CASE answer = "respond" -> Record(NextTurn(carried))
          [] answer = "approve" -> Record([carried EXCEPT !.at = "commit"])
          [] answer = "revise"  -> Record([carried EXCEPT !.at = "revise"])
          [] wf.timedOut \/ wf.turn \in elapsed -> GoTo("expire")
          [] OTHER -> WaitAgain
  /\ Engine /\ UNCHANGED <<run, budget>>

(* Mutant of ExpireRequest: the answer on the row is not looked at.        *)
ExpireRequestBlind ==
  /\ In("expire", "loaded") /\ expiry = NoExpiry
  /\ Transition(step.version, "failed")
  /\ request' = [request EXCEPT ![wf.turn].expired = TRUE]
  /\ expiry' = [version |-> step.version, raced |-> FALSE]
  /\ step' = [step EXCEPT !.phase = "written"]
  /\ UNCHANGED <<wf, elapsed, keys, signalVars, callVars, stopped, crashes, budget>>

(* The expiry transaction, under a key of the step and the loaded version. *)
(* It holds the request row: an answer that is there has won, otherwise    *)
(* the run fails and the request is expired.  A row left under another     *)
(* version is a reused key, and a run that moved since the load a version  *)
(* conflict: errors both, see WorkflowErrs.                                *)
ExpireRequest ==
  /\ In("expire", "loaded")
  /\ IF expiry # NoExpiry
     THEN expiry.version = step.version /\ UNCHANGED <<run, request, expiry>>
     ELSE \/ /\ request[wf.turn].answer # "none" /\ run.version = step.version
             /\ expiry' = [version |-> step.version, raced |-> TRUE]
             /\ UNCHANGED <<run, request>>
          \/ /\ request[wf.turn].answer = "none"
             /\ Transition(step.version, "failed")
             /\ request' = [request EXCEPT ![wf.turn].expired = TRUE]
             /\ expiry' = [version |-> step.version, raced |-> FALSE]
  /\ step' = [step EXCEPT !.phase = "written"]
  /\ UNCHANGED <<wf, elapsed, keys, signalVars, callVars, stopped, crashes, budget>>

(* After a raced expiry the wait goes on and reads the answer.             *)
ReturnRaced ==
  /\ In("expire", "written") /\ expiry.raced
  /\ WaitAgain
  /\ Engine /\ UNCHANGED <<run, budget>>

(* settleRunBudget, at the end of an expiry or a terminalization.          *)
SettleBudget ==
  /\ wf.at \in {"expire"} \cup Terminals /\ step.phase = "written"
  /\ ~(wf.at = "expire" /\ expiry.raced)
  /\ budget' = IF run.status = "refused" THEN "released" ELSE "settled"
  /\ step' = [step EXCEPT !.phase = "settled"]
  /\ Engine /\ UNCHANGED <<run, wf, expiry>>

ReturnEnded ==
  /\ step.phase = "settled"
  /\ GoTo(IF wf.at = "terminal-refused" THEN "refused" ELSE "failed")
  /\ Engine /\ UNCHANGED <<run, budget>>

-----------------------------------------------------------------------------
(* apply: the transition, or its own earlier effect, which a step that     *)
(* runs again finds, or superseded.                                        *)
Revise ==
  /\ In("revise", "loaded")
  /\ \/ /\ \/ Transition(wf.version, "executing")
           \/ run = [status |-> "executing", version |-> wf.version + 1] /\ UNCHANGED run
        /\ step' = [step EXCEPT !.phase = "written"]
        /\ UNCHANGED <<wf, expiry>>
     \/ /\ run.version # wf.version
        /\ run # [status |-> "executing", version |-> wf.version + 1]
        /\ GoTo("superseded") /\ UNCHANGED run
  /\ Engine /\ UNCHANGED budget

ReturnRevised ==
  /\ In("revise", "written")
  /\ Record(NextTurn(wf))
  /\ Engine /\ UNCHANGED <<run, budget>>

(* From the approved commit on, the step is DomainCommit's.                *)
Commit ==
  /\ In("commit", "loaded") /\ request[wf.turn].answer = "approve"
  /\ \/ Transition(step.version, "committing") /\ GoTo("committing")
     \/ run.version # step.version /\ GoTo("superseded") /\ UNCHANGED run
  /\ Engine /\ UNCHANGED budget

(* A refusal is legal from some states only, and a failure from any that   *)
(* has not ended: the second execution of a refusal fails a refused run,   *)
(* which is illegal, and is superseded.                                    *)
Target ==
  IF wf.at = "terminal-refused" /\ step.status \in {"planning", "validating"}
  THEN "refused" ELSE "failed"

Terminalize ==
  /\ wf.at \in Terminals /\ step.phase = "loaded"
  /\ \/ /\ step.status \notin {"failed", "refused"} /\ Transition(step.version, Target)
        /\ step' = [step EXCEPT !.phase = "written"]
        /\ UNCHANGED <<wf, expiry>>
     \/ /\ step.status = "failed"
        /\ step' = [step EXCEPT !.phase = "written"]
        /\ UNCHANGED <<run, wf, expiry>>
     \/ /\ step.status = "refused" \/ (step.status # "failed" /\ run.version # step.version)
        /\ GoTo("superseded") /\ UNCHANGED run
  /\ Engine /\ UNCHANGED budget

(* A step that errs, or halts on stale authority, ends the run, whatever   *)
(* it has written.                                                         *)
StepFails ==
  /\ wf.at \in Steps \ ({"expire"} \cup Terminals) /\ step.phase # "idle"
  /\ GoTo("terminal-failed")
  /\ Engine /\ UNCHANGED <<run, budget>>

(* The errors of a wait, of an expiry and of a terminalization are the     *)
(* workflow's own.                                                         *)
WorkflowErrs ==
  /\ \/ wf.at = "await" /\ ~stopped
     \/ wf.at \in {"expire"} \cup Terminals /\ step.phase \in {"loaded", "written"}
  /\ GoTo("errored")
  /\ Engine /\ UNCHANGED <<run, budget>>

(* A step or a wait that starts after CancelRun ends the workflow.         *)
Stopped ==
  /\ stopped /\ step.phase = "idle" /\ wf.at \notin Ended
  /\ GoTo("cancelled")
  /\ Engine /\ UNCHANGED <<run, budget>>

Crash ==
  /\ step.phase # "idle" /\ crashes < MaxCrashes
  /\ step' = Unread /\ crashes' = crashes + 1
  /\ UNCHANGED <<run, requestVars, wf, expiry, signalVars, stopped, budget, callVars>>

-----------------------------------------------------------------------------
(* RespondInput and DecideApproval, for a caller that has seen the request *)
(* and a version of the run.                                               *)
OthersCall == UNCHANGED <<wf, step, expiry, stopped, budget>>

Address(c, answer) ==
  /\ call[c].at = "idle" /\ request[RequestOf[c]].kind # "none"
  /\ answer \in Answers[request[RequestOf[c]].kind]
  /\ call' = [call EXCEPT ![c] = [Unsent EXCEPT !.at = "begin", !.answer = answer,
                                                !.version = run.version]]
  /\ OthersCall /\ UNCHANGED <<run, requestVars, signalVars, acknowledged, crashes>>

(* The clock is read before the transaction.                               *)
ReadClock(c) ==
  /\ call[c].at = "begin"
  /\ call' = [call EXCEPT ![c].at = "write", ![c].inTime = RequestOf[c] \notin elapsed]
  /\ OthersCall /\ UNCHANGED <<run, requestVars, signalVars, acknowledged, crashes>>

Acceptable(c) ==
  /\ run.version = call[c].version
  /\ request[RequestOf[c]].answer = "none" /\ ~request[RequestOf[c]].expired
  /\ call[c].inTime
  /\ call[c].answer = "respond" => run.status = "awaiting_input"
  /\ call[c].answer = "revise" => run.status = "awaiting_approval"

(* Mutant of Accept: a decision to revise moves the run no more than an    *)
(* approval does.                                                          *)
AcceptInPlace(c) ==
  /\ call[c].at = "write" /\ c \notin keys /\ Acceptable(c)
  /\ IF call[c].answer = "respond" THEN Transition(call[c].version, "planning")
     ELSE UNCHANGED run
  /\ request' = [request EXCEPT ![RequestOf[c]].answer = call[c].answer]
  /\ keys' = keys \cup {c}
  /\ call' = [call EXCEPT ![c].at = "acknowledge"]
  /\ OthersCall /\ UNCHANGED <<elapsed, signalVars, acknowledged, crashes>>

(* AcceptInput and DecideApproval.  An approval moves no state, and looks  *)
(* at none: the workflow moves the run at the commit.                      *)
Accept(c) ==
  /\ call[c].at = "write" /\ c \notin keys /\ Acceptable(c)
  /\ CASE call[c].answer = "respond" -> Transition(call[c].version, "planning")
       [] call[c].answer = "revise"  -> Transition(call[c].version, "awaiting_review")
       [] call[c].answer = "approve" -> UNCHANGED run
  /\ request' = [request EXCEPT ![RequestOf[c]].answer = call[c].answer]
  /\ keys' = keys \cup {c}
  /\ call' = [call EXCEPT ![c].at = "acknowledge"]
  /\ OthersCall /\ UNCHANGED <<elapsed, signalVars, acknowledged, crashes>>

(* A key that is there replays its outcome, whatever has happened since.   *)
Replay(c) ==
  /\ call[c].at = "write" /\ c \in keys
  /\ call' = [call EXCEPT ![c].at = "acknowledge"]
  /\ OthersCall /\ UNCHANGED <<run, requestVars, signalVars, acknowledged, crashes>>

Refuse(c) ==
  /\ call[c].at = "write" /\ c \notin keys /\ ~Acceptable(c)
  /\ call' = [call EXCEPT ![c].at = "refused"]
  /\ OthersCall /\ UNCHANGED <<run, requestVars, signalVars, acknowledged, crashes>>

Acknowledge(c) ==
  /\ call[c].at = "acknowledge"
  /\ acknowledged' = acknowledged \cup {c}
  /\ call' = [call EXCEPT ![c].at = "signal"]
  /\ OthersCall /\ UNCHANGED <<run, requestVars, signalVars, crashes>>

(* The engine takes a key once.  ResumeRun attaches to the execution that  *)
(* exists, ended or not, and changes nothing.                              *)
Signal(c) ==
  /\ call[c].at = "signal"
  /\ delivered' = delivered \cup {c}
  /\ signals' = IF c \in delivered THEN signals
                ELSE [signals EXCEPT ![RequestOf[c]] = @ \cup {c}]
  /\ call' = [call EXCEPT ![c].at = "done"]
  /\ OthersCall /\ UNCHANGED <<run, requestVars, acknowledged, crashes>>

(* A call that dies or fails on the way; its client may send it again.     *)
HandlerCrash(c) ==
  /\ call[c].at \in {"acknowledge", "signal"} /\ crashes < MaxCrashes
  /\ call' = [call EXCEPT ![c].at = "lost"] /\ crashes' = crashes + 1
  /\ OthersCall /\ UNCHANGED <<run, requestVars, signalVars, acknowledged>>

Resend(c) ==
  /\ call[c].at = "lost"
  /\ call' = [call EXCEPT ![c].at = "begin"]
  /\ OthersCall /\ UNCHANGED <<run, requestVars, signalVars, acknowledged, crashes>>

-----------------------------------------------------------------------------
(* RequestCancellation before the commit boundary, then StopRun.           *)
RequestCancellation ==
  /\ run.status \notin {"committing", "cancelling", "failed", "refused", "discarded"}
  /\ Transition(run.version, "cancelling")
  /\ OthersCall /\ UNCHANGED <<requestVars, signalVars, callVars, crashes>>

StopRun ==
  /\ run.status = "cancelling" /\ ~stopped
  /\ stopped' = TRUE
  /\ UNCHANGED <<run, requestVars, wf, step, expiry, signalVars, budget, callVars, crashes>>

Discard ==
  /\ run.status = "awaiting_review"
  /\ Transition(run.version, "discarded")
  /\ OthersCall /\ UNCHANGED <<requestVars, signalVars, callVars, crashes>>

Elapse(t) ==
  /\ request[t].kind # "none" /\ t \notin elapsed
  /\ elapsed' = elapsed \cup {t}
  /\ OthersCall /\ UNCHANGED <<run, request, keys, signalVars, callVars, crashes>>

Advance ==
  \/ Load \/ Decide \/ Finalize
  \/ OpenInput \/ ResolveReview \/ OpenConflict \/ ReturnOpened
  \/ AwaitSignal \/ AwaitTimeout \/ ReadRequest \/ ExpireRequest \/ ReturnRaced
  \/ Revise \/ ReturnRevised \/ Commit \/ Terminalize \/ SettleBudget \/ ReturnEnded
  \/ Stopped

WorkflowStep == Advance \/ StepFails \/ WorkflowErrs

CallStep(c) ==
  \/ \E answer \in AnyAnswer : Address(c, answer)
  \/ ReadClock(c) \/ Accept(c) \/ Replay(c) \/ Refuse(c) \/ Acknowledge(c) \/ Signal(c)
  \/ HandlerCrash(c) \/ Resend(c)

Next ==
  \/ WorkflowStep \/ Crash
  \/ \E c \in Callers : CallStep(c)
  \/ RequestCancellation \/ StopRun \/ Discard
  \/ \E t \in Turns : Elapse(t)

Spec == Init /\ [][Next]_vars

(* An expiry that its key or the run version bars can only err.            *)
ExpiryBarred ==
  /\ In("expire", "loaded")
  /\ (IF expiry = NoExpiry THEN run.version ELSE expiry.version) # step.version
  /\ WorkflowErrs

(* The engine runs and recovers the workflow; deadlines pass.  Nothing is  *)
(* owed by callers and operators, nor by the errors that strike a step     *)
(* which could have gone on.                                               *)
Fairness ==
  /\ WF_vars(Advance \/ ExpiryBarred)
  /\ \A t \in Turns : WF_vars(Elapse(t))

LiveSpec == Spec /\ Fairness
-----------------------------------------------------------------------------
TypeOK ==
  /\ run \in [status : Statuses, version : Nat]
  /\ request \in [Turns -> [kind : {"none"} \cup Kinds, answer : {"none"} \cup AnyAnswer,
                            expired : BOOLEAN]]
  /\ elapsed \subseteq Turns
  /\ wf \in [at : Steps \cup Ended \cup {"await"}, turn : 1..(TurnLimit + 1), wake : Nat,
             version : Nat, timedOut : BOOLEAN]
  /\ step \in [phase : Phases, status : Statuses, version : Nat]
  /\ expiry \in [version : Nat, raced : BOOLEAN]
  /\ signals \in [Turns -> SUBSET Callers]
  /\ stopped \in BOOLEAN /\ budget \in {"held", "settled", "released"}
  /\ call \in [Callers -> [at : {"idle", "begin", "write", "acknowledge", "signal", "lost",
                                 "refused", "done"},
                           answer : {"none"} \cup AnyAnswer, version : Nat, inTime : BOOLEAN]]
  /\ keys \subseteq Callers /\ acknowledged \subseteq Callers /\ delivered \subseteq Callers
  /\ crashes \in 0..MaxCrashes

(* A run waits on a request that is there to be answered: the last one the *)
(* workflow opened, of that kind, neither expired nor, but for an approval *)
(* the commit has not picked up, answered (the transactions of             *)
(* OpenInput, AcceptInput, DecideApproval and expire keep both in step).   *)
WaitsOnOpenRequest ==
  \A k \in Kinds : run.status = Awaiting[k] =>
    \E t \in Turns :
      /\ request[t].kind = k /\ ~request[t].expired
      /\ request[t].answer \in {"none", "approve"}
      /\ \A u \in Turns : u > t => request[u].kind = "none"

(* A run is failed or refused by its own workflow only, at its terminal    *)
(* step, or by a deadline that passed over an unanswered request: while    *)
(* the workflow takes turns, waits, reads or commits, and after it was     *)
(* cancelled, the run has not ended behind its back.  An expired request   *)
(* always means a failed run.                                              *)
EndHasCause ==
  /\ \A t \in Turns : request[t].expired => t \in elapsed /\ run.status = "failed"
  /\ run.status \in {"failed", "refused"} =>
       \/ \E t \in Turns : request[t].expired
       \/ wf.at \in Terminals \cup {"failed", "refused", "superseded", "errored"}

(* The run waits, goes on and ends with its requests and its workflow,     *)
(* over steps that fail and steps that run again after their transaction   *)
(* committed.                                                              *)
RunFollowsRequests == WaitsOnOpenRequest /\ EndHasCause

(* A run that was cancelled, discarded, failed, refused or committed stays *)
(* so: no workflow step that loaded it earlier and no late answer takes it *)
(* back.                                                                   *)
TakenRunsStay ==
  [][run.status \in {"cancelling", "discarded", "failed", "refused", "committing"} =>
       run' = run]_run

(* Requests and callers as SettledOnce has them: a request settles once,   *)
(* on one answer or on expiry and never both, and a call is acknowledged   *)
(* in the authority journal only with the answer that settled its request. *)
Settlement == INSTANCE SettledOnce WITH
  Invocations <- Turns,
  InvocationOf <- RequestOf,
  Outputs <- {<<a, FALSE>> : a \in AnyAnswer} \cup {<<"none", TRUE>>},
  Unsettled <- <<"none", FALSE>>,
  settled <- [t \in Turns |-> <<request[t].answer, request[t].expired>>],
  answer <- [c \in Callers |-> <<IF c \in acknowledged THEN call[c].answer ELSE "none", FALSE>>]

RequestsSettleOnce == Settlement!Spec

(* A wait ends, whatever becomes of the callers: a signal lost between the *)
(* accepted answer and the engine delays the workflow to the deadline.     *)
WaitsEnd == wf.at \in {"await", "read", "expire"} ~> wf.at \notin {"await", "read", "expire"}

=============================================================================
