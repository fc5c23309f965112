------------------------ MODULE InterruptWaitProofs ------------------------
(***************************************************************************)
(* For any callers, turns and deaths: run and requests stay in step, what  *)
(* another authority took stays taken, and the requests settle once.       *)
(***************************************************************************)
EXTENDS InterruptWait, TLAPS

(* Places of the workflow before it opens its turn's request, places past  *)
(* the opening, and runs that another authority takes back, that nobody    *)
(* moves again, or that have ended, with the places that ended them.       *)
Before == {"turn", "finalize"}
Facing == {"await", "read", "expire", "revise", "commit"}
Withdrawn == {"cancelling", "discarded"}
Taken == {"cancelling", "discarded", "failed", "refused", "committing"}
Closed == {"failed", "refused"}
Concluding == Terminals \cup {"failed", "refused", "superseded", "errored"}

(* Requests are opened turn by turn, and left behind only answered.        *)
RowInv(t) ==
  LET r == request[t] IN
  /\ r.kind = "none" => r = Unopened
  /\ r.kind # "none" => r.answer \in {"none"} \cup Answers[r.kind]
  /\ r.expired => r.answer = "none" /\ t \in elapsed /\ run.status = "failed"
  /\ t > wf.turn \/ (t = wf.turn /\ wf.at \in Before) => r.kind = "none"
  /\ t < wf.turn /\ r.kind # "none" => r.answer # "none"

(* What the request of the turn says of the run, wherever the workflow     *)
(* faces it: a step that opened it or revised runs again until it returns. *)
Faces(w) == w.at \in Facing \/ (w.at \in Opening /\ request[w.turn].kind # "none")
Faced(w, r) ==
  /\ r.kind # "none"
  /\ r.answer = "none" => \/ run.status \in {Awaiting[r.kind], "cancelling"}
                          \/ run.status = "failed" /\ r.expired /\ w.at = "expire"
  /\ r.answer = "respond" => run.status \in {"planning", "cancelling"}
  /\ r.answer = "approve" => run.status \in {"awaiting_approval", "cancelling"}
  /\ r.answer = "revise" => \/ run.status \in {"awaiting_review"} \cup Withdrawn
                            \/ run.status = "executing" /\ w.at = "revise"

(* What the workflow's place says of the run.                              *)
Placed(w) ==
  /\ w.at = "turn" => run.status \in {"planning", "executing"} \cup Withdrawn
  /\ w.at = "finalize" =>
       run.status \in {"planning", "executing", "validating", "awaiting_review"} \cup Withdrawn
  /\ w.at = "open-input" /\ request[w.turn].kind = "none" =>
       run.status \in {"planning"} \cup Withdrawn
  /\ w.at = "review" /\ request[w.turn].kind = "none" =>
       run.status \in {"awaiting_review"} \cup Withdrawn
  /\ w.at \in Opening /\ request[w.turn].kind # "none" => w.version < run.version
  /\ w.at \in Facing \cup Opening \cup {"finalize"} => w.turn \in Turns
  /\ Faces(w) => Faced(w, request[w.turn])
  /\ w.at = "revise" => request[w.turn].answer = "revise"
  /\ w.at = "commit" => request[w.turn].answer = "approve"
  /\ w.at = "expire" \/ (w.at = "read" /\ w.timedOut) => w.turn \in elapsed

(* Whoever ended the workflow, a waiting run waits on the request of its   *)
(* turn, a run that ended has its cause, and the commit step alone commits.*)
Waits(w) ==
  \A k \in Kinds : run.status = Awaiting[k] =>
    /\ w.turn \in Turns /\ request[w.turn].kind = k
    /\ request[w.turn].answer \in {"none", "approve"}
Cause(w) ==
  /\ run.status \in Closed => (\E t \in Turns : request[t].expired) \/ w.at \in Concluding
  /\ run.status = "committing" => w.at = "committing"

(* A carried version or a snapshot that is still current tells the truth,  *)
(* and a step that has written left its mark.                              *)
Carried(w) ==
  /\ w.version <= run.version
  /\ w.at \in Opening \cup {"revise"} /\ w.version = run.version => run.status \notin Withdrawn
Snapshot(w, s) ==
  /\ s.phase # "idle" => w.at \in Steps
  /\ s.phase = "loaded" =>
       /\ 1 <= s.version /\ s.version <= run.version
       /\ s.status \notin Withdrawn
       /\ s.version = run.version => s.status = run.status
       /\ w.at \in {"turn", "finalize"} /\ s.version # run.version => run.status \in Withdrawn
  /\ s.phase = "written" /\ w.at \in Opening => request[w.turn].kind # "none"
  /\ s.phase = "written" /\ w.at = "revise" => run.status \in {"executing"} \cup Withdrawn

(* An expiry that failed the run, or lost to an answer, has left its row.  *)
ExpiryInv(w, e) ==
  w.at = "expire" => /\ run.status = "failed" => e # NoExpiry
                     /\ e.raced => request[w.turn].answer # "none"

(* The engine is told to stop a run that is being cancelled only.          *)
StopInv == stopped => run.status = "cancelling"

CallInv(c) ==
  LET r == request[RequestOf[c]] IN
  /\ call[c].at # "idle" => r.kind # "none" /\ call[c].answer \in Answers[r.kind]
  /\ c \in keys => call[c].at # "idle" /\ r.answer = call[c].answer
  /\ call[c].at \in {"acknowledge", "signal", "lost"} \/ c \in acknowledged => c \in keys

IInv ==
  /\ TypeOK /\ run.version >= 1
  /\ Placed(wf) /\ Waits(wf) /\ Cause(wf) /\ Carried(wf)
  /\ Snapshot(wf, step) /\ ExpiryInv(wf, expiry) /\ StopInv
  /\ \A t \in Turns : RowInv(t)
  /\ \A c \in Callers : CallInv(c)

-----------------------------------------------------------------------------
(* Types.                                                                  *)

RunRows == [status : Statuses, version : Nat]
RequestRows == [kind : {"none"} \cup Kinds, answer : {"none"} \cup AnyAnswer, expired : BOOLEAN]
WorkRows == [at : Steps \cup Ended \cup {"await"}, turn : 1..(TurnLimit + 1), wake : Nat,
             version : Nat, timedOut : BOOLEAN]
StepRows == [phase : Phases, status : Statuses, version : Nat]
ExpiryRows == [version : Nat, raced : BOOLEAN]
CallRows == [at : {"idle", "begin", "write", "acknowledge", "signal", "lost", "refused", "done"},
             answer : {"none"} \cup AnyAnswer, version : Nat, inTime : BOOLEAN]
Rows ==
  /\ run \in RunRows /\ request \in [Turns -> RequestRows] /\ elapsed \subseteq Turns
  /\ wf \in WorkRows /\ step \in StepRows /\ expiry \in ExpiryRows
Calls == call \in [Callers -> CallRows] /\ keys \subseteq Callers /\ acknowledged \subseteq Callers
Side ==
  /\ signals \in [Turns -> SUBSET Callers] /\ delivered \subseteq Callers
  /\ stopped \in BOOLEAN /\ budget \in {"held", "settled", "released"} /\ crashes \in 0..MaxCrashes

LEMMA TypeParts == TypeOK <=> Rows /\ Calls /\ Side
BY DEF TypeOK, Rows, Calls, Side, RunRows, RequestRows, WorkRows, StepRows, ExpiryRows, CallRows

LEMMA Facts ==
  ASSUME IInv
  PROVE  /\ Rows /\ Calls /\ Side /\ run.version >= 1
         /\ Placed(wf) /\ Waits(wf) /\ Cause(wf) /\ Carried(wf)
         /\ Snapshot(wf, step) /\ ExpiryInv(wf, expiry) /\ StopInv
         /\ \A t \in Turns : RowInv(t)
         /\ \A c \in Callers : CallInv(c)
BY TypeParts DEF IInv

LEMMA Numbers ==
  /\ TurnLimit \in Nat \ {0} /\ MaximumWakes \in Nat \ {0} /\ MaxCrashes \in Nat
  /\ RequestOf \in [Callers -> Turns]
  /\ Turns \subseteq Nat /\ 1 \in Turns /\ \A t \in Turns : 1 <= t /\ t <= TurnLimit
BY InterruptAssumption DEF Turns

LEMMA Words ==
  /\ Kinds = {"input", "approval"} /\ AnyAnswer = {"respond", "approve", "revise"}
  /\ Answers["input"] = {"respond"} /\ Answers["approval"] = {"approve", "revise"}
  /\ Awaiting["input"] = "awaiting_input" /\ Awaiting["approval"] = "awaiting_approval"
BY DEF Kinds, AnyAnswer, Answers, Awaiting

-----------------------------------------------------------------------------
(* The steps of the workflow that leave run and requests alone.            *)
Quiet == UNCHANGED <<run, request, elapsed, stopped, call, keys, acknowledged>>

LEMMA MoveKeeps ==
  ASSUME IInv, Quiet, Side', NEW w \in WorkRows, wf' = w,
         NEW s \in StepRows, step' = s, NEW e \in ExpiryRows, expiry' = e,
         Placed(w), Waits(w), Cause(w), Carried(w), Snapshot(w, s), ExpiryInv(w, e),
         \A t \in Turns : /\ t > w.turn \/ (t = w.turn /\ w.at \in Before) => request[t].kind = "none"
                          /\ t < w.turn /\ request[t].kind # "none" => request[t].answer # "none"
  PROVE  IInv'
<1>1. TypeOK'
  <2>1. Rows' /\ Calls'
    BY Facts DEF Quiet, Rows, Calls
  <2> QED BY <2>1 DEF TypeOK, Rows, Calls, Side, RunRows, RequestRows, WorkRows, StepRows,
             ExpiryRows, CallRows
<1>2. \A t \in Turns : RowInv(t)'
  BY Facts DEF Quiet, RowInv
<1>3. \A c \in Callers : CallInv(c)'
  BY Facts DEF Quiet, CallInv
<1>4. Placed(wf)' /\ Waits(wf)' /\ Cause(wf)' /\ Carried(wf)'
  BY DEF Quiet, Placed, Faces, Faced, Waits, Cause, Carried
<1>5. Snapshot(wf, step)' /\ ExpiryInv(wf, expiry)' /\ StopInv' /\ (run.version >= 1)'
  BY Facts DEF Quiet, Snapshot, ExpiryInv, StopInv
<1> QED BY <1>1, <1>2, <1>3, <1>4, <1>5 DEF IInv

LEMMA Fresh ==
  /\ Unread \in StepRows /\ Unread.phase = "idle"
  /\ NoExpiry \in ExpiryRows /\ ~NoExpiry.raced
BY DEF Unread, NoExpiry, StepRows, ExpiryRows, Phases, Statuses

LEMMA EngineQuiet ==
  ASSUME IInv, Engine, UNCHANGED <<run, budget>>
  PROVE  Quiet /\ Side'
BY Facts DEF Engine, requestVars, signalVars, callVars, Quiet, Side

LEMMA Moves ==
  ASSUME IInv, Quiet, Side', NEW w \in WorkRows, Record(w), w.turn = wf.turn,
         wf.at \notin Ended, wf.at \in Terminals => w.at \in Concluding \/ run.status \notin Closed,
         w.at \in Before => wf.at \in Before, Placed(w), Carried(w),
         w.at = "expire" => run.status # "failed"
  PROVE  IInv'
<1>1. /\ wf' = w /\ step' = Unread /\ expiry' = NoExpiry
  BY DEF Record
<1>2. Waits(w) /\ Cause(w)
  <2>1. wf.at \in Concluding => wf.at \in Terminals
    BY DEF Concluding, Ended
  <2>2. wf.at # "committing"
    BY DEF Ended
  <2> QED BY <2>1, <2>2, Facts DEF Waits, Cause
<1>3. \A t \in Turns : /\ t > w.turn \/ (t = w.turn /\ w.at \in Before) => request[t].kind = "none"
                       /\ t < w.turn /\ request[t].kind # "none" => request[t].answer # "none"
  BY Facts DEF RowInv
<1>4. Snapshot(w, Unread) /\ ExpiryInv(w, NoExpiry)
  BY Fresh DEF Snapshot, ExpiryInv
<1> QED BY <1>1, <1>2, <1>3, <1>4, Fresh, MoveKeeps

(* The row with which the workflow goes to another place.                  *)
LEMMA At ==
  ASSUME IInv, NEW at \in Steps \cup Ended \cup {"await"}, NEW version \in Nat
  PROVE  LET w == [wf EXCEPT !.at = at, !.version = version] IN
         /\ w \in WorkRows /\ w.at = at /\ w.version = version
         /\ w.turn = wf.turn /\ w.timedOut = wf.timedOut
<1>1. wf \in WorkRows
  BY Facts DEF Rows
<1> QED BY <1>1 DEF WorkRows

LEMMA Finishes ==
  ASSUME IInv, Quiet, Side', NEW place \in Ended \cup Terminals, GoTo(place), wf.at \notin Ended,
         wf.at \in Terminals => place \in Concluding \/ run.status \notin Closed
  PROVE  IInv'
<1> DEFINE w == [wf EXCEPT !.at = place]
<1>1. wf \in WorkRows
  BY Facts DEF Rows
<1>2. w \in WorkRows /\ w.at = place /\ w.turn = wf.turn /\ w.version = wf.version
  BY <1>1 DEF WorkRows, Steps
<1>3. Record(w)
  BY DEF GoTo
<1> HIDE DEF w
<1>4. place \notin Before \cup Facing \cup Opening
  BY DEF Ended, Terminals, Before, Facing, Opening
<1>5. Placed(w) /\ Carried(w)
  <2>1. w.version <= run.version
    BY <1>2, Facts DEF Carried
  <2> QED BY <1>2, <1>4, <2>1 DEF Placed, Faces, Carried, Before, Facing, Opening
<1> QED BY <1>2, <1>3, <1>4, <1>5, Moves DEF Before, Facing

(* The workflow takes its next turn, with this turn's request answered.    *)
LEMMA NextTurnRow ==
  ASSUME NEW w \in WorkRows, w.turn \in Turns
  PROVE  LET n == NextTurn(w) IN
         n \in WorkRows /\ n.at = "turn" /\ n.turn = w.turn + 1 /\ n.version = w.version
<1>1. w.turn + 1 \in 1..(TurnLimit + 1)
  <2>1. w.turn \in Nat /\ 1 <= w.turn /\ w.turn <= TurnLimit
    BY Numbers
  <2> QED BY <2>1, Numbers
<1> QED BY <1>1 DEF NextTurn, WorkRows, Steps

LEMMA TakesNextTurn ==
  ASSUME IInv, Quiet, Side', NEW w \in WorkRows, Record(NextTurn(w)), w.turn = wf.turn,
         wf.turn \in Turns, w.version <= run.version,
         run.status \in {"planning", "executing"} \cup Withdrawn,
         request[wf.turn].kind # "none" => request[wf.turn].answer # "none"
  PROVE  IInv'
<1> DEFINE n == NextTurn(w)
<1>1. n \in WorkRows /\ n.at = "turn" /\ n.turn = wf.turn + 1 /\ n.version = w.version
  BY NextTurnRow
<1>2. wf' = n /\ step' = Unread /\ expiry' = NoExpiry
  BY DEF Record
<1> HIDE DEF n
<1>3. Waits(n) /\ Cause(n)
  BY Words DEF Waits, Cause, Closed, Withdrawn
<1>4. \A t \in Turns : /\ t > n.turn \/ (t = n.turn /\ n.at \in Before) => request[t].kind = "none"
                       /\ t < n.turn /\ request[t].kind # "none" => request[t].answer # "none"
  <2> SUFFICES ASSUME NEW t \in Turns
               PROVE  /\ t > n.turn \/ t = n.turn => request[t].kind = "none"
                      /\ t < n.turn /\ request[t].kind # "none" => request[t].answer # "none"
    OBVIOUS
  <2>1. wf.turn \in Nat /\ t \in Nat
    BY Numbers
  <2>2. t < n.turn => t < wf.turn \/ t = wf.turn
    BY <1>1, <2>1
  <2>3. t > n.turn \/ t = n.turn => t > wf.turn
    BY <1>1, <2>1
  <2> QED BY <2>2, <2>3, Facts DEF RowInv
<1>5. Snapshot(n, Unread) /\ ExpiryInv(n, NoExpiry)
  BY <1>1, Fresh DEF Snapshot, ExpiryInv
<1>6. Placed(n) /\ Carried(n)
  BY <1>1 DEF Placed, Faces, Carried, Facing, Opening
<1> QED BY <1>1, <1>2, <1>3, <1>4, <1>5, <1>6, Fresh, MoveKeeps

(* A step that moves nothing but its own snapshot.                         *)
LEMMA StepKeeps ==
  ASSUME IInv, Quiet, Side', wf' = wf, NEW s \in StepRows, step' = s,
         NEW e \in ExpiryRows, expiry' = e, Snapshot(wf, s), ExpiryInv(wf, e)
  PROVE  IInv'
<1>1. \A t \in Turns : /\ t > wf.turn \/ (t = wf.turn /\ wf.at \in Before) => request[t].kind = "none"
                       /\ t < wf.turn /\ request[t].kind # "none" => request[t].answer # "none"
  BY Facts DEF RowInv
<1>2. wf \in WorkRows /\ Placed(wf) /\ Waits(wf) /\ Cause(wf) /\ Carried(wf)
  BY Facts DEF Rows
<1> QED BY <1>1, <1>2, MoveKeeps

Stays == run.status \in Taken => run' = run

LEMMA LoadKeeps == ASSUME IInv, Load PROVE IInv' /\ Stays
<1>1. wf.at \in Steps /\ Quiet /\ Side' /\ run' = run
  BY EngineQuiet DEF Load
<1>2. CASE GoTo("superseded")
  <2>1. wf.at \notin Ended
    BY <1>1 DEF Steps, Opening, Terminals, Ended
  <2> QED BY <1>1, <1>2, <2>1, Finishes DEF Ended, Concluding, Stays
<1>3. CASE /\ run.status \notin Withdrawn /\ UNCHANGED <<wf, expiry>>
           /\ step' = [phase |-> "loaded", status |-> run.status, version |-> run.version]
  <2> DEFINE s == [phase |-> "loaded", status |-> run.status, version |-> run.version]
  <2>1. run \in RunRows /\ expiry \in ExpiryRows /\ ExpiryInv(wf, expiry) /\ run.version >= 1
    BY Facts DEF Rows
  <2>2. s \in StepRows /\ s.status = run.status /\ s.version = run.version /\ s.phase = "loaded"
    BY <2>1 DEF RunRows, StepRows, Phases
  <2>3. Snapshot(wf, s)
    <3>1. run.version \in Nat
      BY <2>1 DEF RunRows
    <3> HIDE DEF s
    <3> QED BY <1>1, <1>3, <2>1, <2>2, <3>1 DEF Snapshot
  <2> HIDE DEF s
  <2>4. step' = s
    BY <1>3 DEF s
  <2> QED BY <1>1, <1>3, <2>1, <2>2, <2>3, <2>4, StepKeeps DEF Stays
<1> QED BY <1>2, <1>3 DEF Load, Withdrawn

LEMMA DecideKeeps == ASSUME IInv, Decide PROVE IInv' /\ Stays
<1>1. wf.at = "turn" /\ step.phase = "loaded" /\ Quiet /\ Side' /\ run' = run
  BY EngineQuiet DEF Decide, In
<1>2. /\ wf \in WorkRows /\ step \in StepRows /\ run \in RunRows
      /\ wf.turn \in 1..(TurnLimit + 1) /\ step.version \in Nat /\ run.version \in Nat
  BY Facts DEF Rows, WorkRows, StepRows, RunRows
<1>3. /\ step.version <= run.version
      /\ step.version = run.version => step.status = run.status /\ run.status \notin Withdrawn
      /\ step.version # run.version => run.status \in Withdrawn
      /\ run.status \in {"planning", "executing"} \cup Withdrawn
  BY <1>1, Facts DEF Snapshot, Placed
<1>4. CASE \E end \in Terminals : GoTo(end)
  BY <1>1, <1>4, Finishes DEF Ended, Terminals, Stays
<1>5. CASE /\ wf.turn <= TurnLimit /\ step.status = "planning"
           /\ Record([wf EXCEPT !.at = "open-input", !.version = step.version])
  <2> DEFINE w == [wf EXCEPT !.at = "open-input", !.version = step.version]
  <2>1. /\ w \in WorkRows /\ w.at = "open-input" /\ w.turn = wf.turn /\ w.version = step.version
    <3>1. "open-input" \in Steps \cup Ended \cup {"await"} /\ step.version \in Nat
      BY <1>2 DEF Steps, Opening
    <3> QED BY <3>1, At
  <2>2. Record(w)
    BY <1>5
  <2> HIDE DEF w
  <2>3. request[w.turn].kind = "none"
    BY <1>1, <1>2, <1>5, <2>1, Facts DEF RowInv, Before, Turns
  <2>4. Placed(w) /\ Carried(w)
    BY <1>2, <1>3, <1>5, <2>1, <2>3 DEF Placed, Faces, Carried, Facing, Opening, Turns
  <2> QED BY <1>1, <2>1, <2>2, <2>4, Moves DEF Before, Ended, Terminals, Stays
<1>6. CASE /\ wf.turn <= TurnLimit
           /\ Record([wf EXCEPT !.at = "finalize", !.version = step.version])
  <2> DEFINE w == [wf EXCEPT !.at = "finalize", !.version = step.version]
  <2>1. /\ w \in WorkRows /\ w.at = "finalize" /\ w.turn = wf.turn /\ w.version = step.version
    <3>1. "finalize" \in Steps \cup Ended \cup {"await"} /\ step.version \in Nat
      BY <1>2 DEF Steps
    <3> QED BY <3>1, At
  <2>2. Record(w)
    BY <1>6
  <2> HIDE DEF w
  <2>3. Placed(w) /\ Carried(w)
    BY <1>2, <1>3, <1>6, <2>1 DEF Placed, Faces, Carried, Facing, Opening, Turns
  <2> QED BY <1>1, <2>1, <2>2, <2>3, Moves DEF Before, Ended, Terminals, Stays
<1>7. CASE /\ wf.turn <= TurnLimit
           /\ Record(NextTurn([wf EXCEPT !.version = step.version]))
  <2> DEFINE w == [wf EXCEPT !.version = step.version]
  <2>1. w \in WorkRows /\ w.turn = wf.turn /\ w.version = step.version
    BY <1>2 DEF WorkRows
  <2>2. Record(NextTurn(w))
    BY <1>7
  <2> HIDE DEF w
  <2>3. wf.turn \in Turns /\ request[wf.turn].kind = "none"
    <3>1. wf.turn \in Turns
      BY <1>2, <1>7 DEF Turns
    <3> QED BY <1>1, <3>1, Facts DEF RowInv, Before
  <2> QED BY <1>1, <1>3, <2>1, <2>2, <2>3, TakesNextTurn DEF Stays
<1> QED BY <1>4, <1>5, <1>6, <1>7 DEF Decide, Terminals

LEMMA OpenConflictKeeps == ASSUME IInv, OpenConflict PROVE IInv' /\ Stays
<1>1. GoTo("superseded") /\ Quiet /\ Side' /\ run' = run
  BY EngineQuiet DEF OpenConflict
<1>2. wf.at \notin Ended \cup Terminals
  BY DEF OpenConflict, Opening, Ended, Terminals
<1> QED BY <1>1, <1>2, Finishes DEF Ended, Stays

LEMMA ReturnOpenedKeeps == ASSUME IInv, ReturnOpened PROVE IInv' /\ Stays
<1> DEFINE Row(v) == [wf EXCEPT !.at = "await", !.wake = 0, !.version = v]
           w == Row(wf.version + 1)
<1>1. /\ wf.at \in Opening /\ step.phase = "written" /\ Record(w) /\ Quiet /\ Side' /\ run' = run
  BY EngineQuiet DEF ReturnOpened
<1>2. /\ wf \in WorkRows /\ wf.version \in Nat /\ run.version \in Nat
      /\ request[wf.turn].kind # "none" /\ wf.version < run.version
      /\ wf.turn \in Turns /\ Faced(wf, request[wf.turn])
  BY <1>1, Facts DEF Rows, WorkRows, RunRows, Snapshot, Placed, Faces
<1>3. \A v \in Nat : /\ Row(v) \in WorkRows /\ Row(v).at = "await" /\ Row(v).version = v
                     /\ Row(v).turn = wf.turn
  BY <1>2 DEF WorkRows
<1>4. /\ w \in WorkRows /\ w.at = "await" /\ w.version = wf.version + 1 /\ w.turn = wf.turn
  <2>1. wf.version + 1 \in Nat
    BY <1>2
  <2> HIDE DEF Row
  <2> QED BY <1>3, <2>1
<1> HIDE DEF w, Row
<1>5. wf.at \notin Ended \cup Terminals \cup {"expire", "revise"}
  BY <1>1 DEF Opening, Ended, Terminals
<1>6. Placed(w) /\ Carried(w)
  BY <1>2, <1>4, <1>5 DEF Placed, Faces, Faced, Carried, Facing, Opening
<1> QED BY <1>1, <1>4, <1>5, <1>6, Moves DEF Before, Stays

LEMMA AwaitSignalKeeps == ASSUME IInv, AwaitSignal PROVE IInv' /\ Stays
<1>1. /\ wf.at = "await" /\ Quiet /\ run' = run
      /\ Record([wf EXCEPT !.at = "read", !.timedOut = FALSE])
  BY DEF AwaitSignal, Quiet, requestVars, callVars
<1>2. Side'
  <2>1. wf.turn \in Turns
    BY <1>1, Facts DEF Placed, Facing
  <2>2. signals' \in [Turns -> SUBSET Callers]
    <3>1. PICK c \in signals[wf.turn] : signals' = [signals EXCEPT ![wf.turn] = @ \ {c}]
      BY DEF AwaitSignal
    <3> QED BY <2>1, <3>1, Facts DEF Side
  <2> QED BY <2>2, Facts DEF AwaitSignal, Side
<1> DEFINE w == [wf EXCEPT !.at = "read", !.timedOut = FALSE]
<1>3. wf \in WorkRows /\ Placed(wf) /\ Carried(wf)
  BY Facts DEF Rows
<1>4. /\ w \in WorkRows /\ w.at = "read" /\ w.turn = wf.turn /\ w.version = wf.version
      /\ w.timedOut = FALSE
  BY <1>3 DEF WorkRows, Steps
<1>5. Record(w)
  BY <1>1
<1> HIDE DEF w
<1>6. Placed(w) /\ Carried(w)
  BY <1>1, <1>3, <1>4 DEF Placed, Faces, Faced, Carried, Facing, Opening
<1> QED BY <1>1, <1>2, <1>4, <1>5, <1>6, Moves DEF Before, Ended, Terminals, Stays

LEMMA AwaitTimeoutKeeps == ASSUME IInv, AwaitTimeout PROVE IInv' /\ Stays
<1>1. /\ wf.at = "await" /\ wf.turn \in elapsed /\ Quiet /\ Side' /\ run' = run
      /\ Record([wf EXCEPT !.at = "read", !.timedOut = TRUE])
  BY EngineQuiet DEF AwaitTimeout
<1> DEFINE w == [wf EXCEPT !.at = "read", !.timedOut = TRUE]
<1>3. wf \in WorkRows /\ Placed(wf) /\ Carried(wf)
  BY Facts DEF Rows
<1>4. w \in WorkRows /\ w.at = "read" /\ w.turn = wf.turn /\ w.version = wf.version
  BY <1>3 DEF WorkRows, Steps
<1>5. Record(w)
  BY <1>1
<1> HIDE DEF w
<1>6. Placed(w) /\ Carried(w)
  BY <1>1, <1>3, <1>4 DEF Placed, Faces, Faced, Carried, Facing, Opening
<1> QED BY <1>1, <1>4, <1>5, <1>6, Moves DEF Before, Ended, Terminals, Stays

(* A wait that goes on.                                                    *)
LEMMA WaitsAgain ==
  ASSUME IInv, Quiet, Side', WaitAgain, wf.at \in {"read", "expire"},
         wf.turn \in Turns, Faced(wf, request[wf.turn]), run.status # "failed"
  PROVE  IInv'
<1>1. wf \in WorkRows /\ wf.version <= run.version
  BY Facts DEF Rows, Carried
<1>2. CASE Record([wf EXCEPT !.at = "await", !.wake = @ + 1])
  <2> DEFINE w == [wf EXCEPT !.at = "await", !.wake = @ + 1]
  <2>1. \A n \in Nat : LET v == [wf EXCEPT !.at = "await", !.wake = n]
                       IN  /\ v \in WorkRows /\ v.at = "await" /\ v.turn = wf.turn
                           /\ v.version = wf.version
    BY <1>1 DEF WorkRows
  <2>2. wf.wake + 1 \in Nat
    BY <1>1 DEF WorkRows
  <2>3. w \in WorkRows /\ w.at = "await" /\ w.turn = wf.turn /\ w.version = wf.version
    BY <2>1, <2>2
  <2>4. Record(w)
    BY <1>2
  <2> HIDE DEF w
  <2>5. Placed(w) /\ Carried(w)
    BY <1>1, <2>3 DEF Placed, Faces, Faced, Carried, Facing, Opening
  <2> QED BY <2>3, <2>4, <2>5, Moves DEF Before, Ended, Terminals
<1>3. CASE GoTo("terminal-failed")
  BY <1>3, Finishes DEF Ended, Terminals
<1> QED BY <1>2, <1>3 DEF WaitAgain

LEMMA ReadRequestKeeps == ASSUME IInv, ReadRequest PROVE IInv' /\ Stays
<1> DEFINE answer == request[wf.turn].answer
           carried == [wf EXCEPT !.version = step.version]
<1>1. wf.at = "read" /\ step.phase = "loaded" /\ Quiet /\ Side' /\ run' = run
  BY EngineQuiet DEF ReadRequest, In
<1>2. /\ wf \in WorkRows /\ step \in StepRows /\ run \in RunRows /\ wf.version <= run.version
      /\ Placed(wf) /\ wf.turn \in Turns /\ Faced(wf, request[wf.turn])
      /\ step.version \in Nat /\ run.version \in Nat
  BY <1>1, Facts DEF Rows, StepRows, RunRows, Placed, Faces, Carried, Facing
<1>3. /\ step.version <= run.version
      /\ step.version = run.version => run.status \notin Withdrawn
  BY <1>1, Facts DEF Snapshot
<1>4. run.status # "failed"
  <2>1. request[wf.turn] \in RequestRows /\ RowInv(wf.turn)
    BY <1>2, Facts DEF Rows
  <2> QED BY <1>1, <1>2, <2>1, Words DEF Faced, Withdrawn, RowInv, RequestRows
<1>5. \/ answer = "respond" /\ Record(NextTurn(carried))
      \/ answer = "approve" /\ Record([carried EXCEPT !.at = "commit"])
      \/ answer = "revise" /\ Record([carried EXCEPT !.at = "revise"])
      \/ (wf.timedOut \/ wf.turn \in elapsed) /\ Record([wf EXCEPT !.at = "expire"])
      \/ WaitAgain
  BY DEF ReadRequest, GoTo
<1>6. carried \in WorkRows /\ carried.turn = wf.turn /\ carried.version = step.version
  BY <1>2 DEF WorkRows
<1>7. ASSUME answer = "respond", Record(NextTurn(carried)) PROVE IInv'
  <2>1. run.status \in {"planning", "executing"} \cup Withdrawn
    BY <1>2, <1>7 DEF Faced, Withdrawn
  <2> HIDE DEF carried
  <2> QED BY <1>1, <1>2, <1>3, <1>6, <1>7, <2>1, TakesNextTurn
<1>8. ASSUME NEW at \in {"commit", "revise"}, Record([carried EXCEPT !.at = at]),
             answer = IF at = "commit" THEN "approve" ELSE "revise"
      PROVE  IInv'
  <2> DEFINE w == [wf EXCEPT !.at = at, !.version = step.version]
  <2>1. [carried EXCEPT !.at = at] = w
    BY <1>2 DEF WorkRows
  <2>2. w \in WorkRows /\ w.at = at /\ w.turn = wf.turn /\ w.version = step.version
    BY <1>2, At DEF Steps
  <2>3. Record(w)
    BY <1>8, <2>1
  <2> HIDE DEF w
  <2>4. Placed(w) /\ Carried(w)
    BY <1>2, <1>3, <1>4, <1>8, <2>2 DEF Placed, Faces, Faced, Carried, Facing, Opening
  <2> QED BY <1>1, <2>2, <2>3, <2>4, Moves DEF Before, Ended, Terminals
<1>9. ASSUME wf.timedOut \/ wf.turn \in elapsed, Record([wf EXCEPT !.at = "expire"]) PROVE IInv'
  <2> DEFINE w == [wf EXCEPT !.at = "expire"]
  <2>1. w \in WorkRows /\ w.at = "expire" /\ w.turn = wf.turn /\ w.version = wf.version
    BY <1>2 DEF WorkRows, Steps
  <2>2. Record(w)
    BY <1>9
  <2> HIDE DEF w
  <2>3. Placed(w) /\ Carried(w)
    BY <1>1, <1>2, <1>9, <2>1 DEF Placed, Faces, Faced, Carried, Facing, Opening
  <2> QED BY <1>1, <1>4, <2>1, <2>2, <2>3, Moves DEF Before, Ended, Terminals
<1>10. ASSUME WaitAgain PROVE IInv'
  BY <1>1, <1>2, <1>4, <1>10, WaitsAgain
<1>11. IInv'
  BY <1>5, <1>7, <1>8, <1>9, <1>10
<1> QED BY <1>1, <1>11 DEF Stays

LEMMA ReturnRacedKeeps == ASSUME IInv, ReturnRaced PROVE IInv' /\ Stays
<1>1. wf.at = "expire" /\ expiry.raced /\ Quiet /\ Side' /\ run' = run /\ WaitAgain
  BY EngineQuiet DEF ReturnRaced, In
<1>2. /\ wf.turn \in Turns /\ Faced(wf, request[wf.turn]) /\ RowInv(wf.turn)
      /\ request[wf.turn].answer # "none" /\ request[wf.turn] \in RequestRows
  BY <1>1, Facts DEF Rows, ExpiryInv, Placed, Faces, Facing
<1>3. run.status # "failed"
  BY <1>1, <1>2, Words DEF Faced, Withdrawn, RowInv, RequestRows
<1> QED BY <1>1, <1>2, <1>3, WaitsAgain DEF Stays

LEMMA ReturnEndedKeeps == ASSUME IInv, ReturnEnded PROVE IInv' /\ Stays
<1>1. /\ step.phase = "settled" /\ Quiet /\ Side' /\ run' = run
      /\ GoTo(IF wf.at = "terminal-refused" THEN "refused" ELSE "failed")
  BY EngineQuiet DEF ReturnEnded
<1>2. wf.at \notin Ended
  BY <1>1, Facts DEF Snapshot, Steps, Opening, Terminals, Ended
<1> QED BY <1>1, <1>2, Finishes DEF Ended, Concluding, Stays

LEMMA StepFailsKeeps == ASSUME IInv, StepFails PROVE IInv' /\ Stays
<1>1. /\ GoTo("terminal-failed") /\ Quiet /\ Side' /\ run' = run
      /\ wf.at \in Steps \ ({"expire"} \cup Terminals)
  BY EngineQuiet DEF StepFails
<1>2. wf.at \notin Ended
  BY <1>1 DEF Steps, Opening, Ended, Terminals
<1> QED BY <1>1, <1>2, Finishes DEF Terminals, Stays

LEMMA WorkflowErrsKeeps == ASSUME IInv, WorkflowErrs PROVE IInv' /\ Stays
<1>1. /\ GoTo("errored") /\ Quiet /\ Side' /\ run' = run
      /\ wf.at \in {"await", "expire"} \cup Terminals
  BY EngineQuiet DEF WorkflowErrs
<1>2. wf.at \notin Ended
  BY <1>1 DEF Ended, Terminals
<1> QED BY <1>1, <1>2, Finishes DEF Ended, Concluding, Stays

LEMMA StoppedKeeps == ASSUME IInv, Stopped PROVE IInv' /\ Stays
<1>1. /\ GoTo("cancelled") /\ wf.at \notin Ended /\ Quiet /\ Side' /\ run' = run
      /\ run.status = "cancelling"
  BY EngineQuiet, Facts DEF Stopped, StopInv
<1> QED BY <1>1, Finishes DEF Ended, Closed, Stays

(* A step that goes on: its snapshot is used no more.                      *)
LEMMA PhaseGoesOn ==
  ASSUME IInv, Quiet, Side', wf' = wf, step.phase # "idle", NEW phase \in {"written", "settled"},
         step' = [step EXCEPT !.phase = phase], NEW e \in ExpiryRows, expiry' = e, ExpiryInv(wf, e),
         phase = "written" /\ wf.at \in Opening => request[wf.turn].kind # "none",
         phase = "written" /\ wf.at = "revise" => run.status \in {"executing"} \cup Withdrawn
  PROVE  IInv'
<1> DEFINE s == [step EXCEPT !.phase = phase]
<1>1. step \in StepRows
  BY Facts DEF Rows
<1>2. s \in StepRows /\ s.phase = phase
  BY <1>1 DEF StepRows, Phases
<1>3. step' = s
  OBVIOUS
<1> HIDE DEF s
<1>4. Snapshot(wf, s)
  BY <1>2, Facts DEF Snapshot
<1> QED BY <1>2, <1>3, <1>4, StepKeeps

LEMMA SettleBudgetKeeps == ASSUME IInv, SettleBudget PROVE IInv' /\ Stays
<1>1. /\ Quiet /\ run' = run /\ wf' = wf /\ expiry' = expiry /\ step.phase = "written"
      /\ step' = [step EXCEPT !.phase = "settled"]
  BY DEF SettleBudget, Engine, requestVars, callVars, Quiet
<1>2. Side'
  BY Facts DEF SettleBudget, Engine, signalVars, Side
<1>3. expiry \in ExpiryRows /\ ExpiryInv(wf, expiry)
  BY Facts DEF Rows
<1> QED BY <1>1, <1>2, <1>3, PhaseGoesOn DEF Stays

LEMMA CrashKeeps == ASSUME IInv, Crash PROVE IInv' /\ Stays
<1>1. /\ Quiet /\ run' = run /\ wf' = wf /\ expiry' = expiry /\ step' = Unread
  BY DEF Crash, requestVars, callVars, Quiet
<1>2. Side'
  <2>1. crashes \in 0..MaxCrashes /\ crashes < MaxCrashes
    BY Facts DEF Side, Crash
  <2>2. crashes + 1 \in 0..MaxCrashes
    BY <2>1, Numbers
  <2> QED BY <2>2, Facts DEF Crash, signalVars, Side
<1>3. expiry \in ExpiryRows /\ ExpiryInv(wf, expiry) /\ Snapshot(wf, Unread)
  BY Facts, Fresh DEF Rows, Snapshot
<1> QED BY <1>1, <1>2, <1>3, Fresh, StepKeeps DEF Stays

-----------------------------------------------------------------------------
(* The steps that move the run.                                            *)
LEMMA Assembled ==
  ASSUME Rows', Calls', Side', (run.version >= 1)',
         Placed(wf)', Waits(wf)', Cause(wf)', Carried(wf)',
         Snapshot(wf, step)', ExpiryInv(wf, expiry)', StopInv',
         \A t \in Turns : RowInv(t)', \A c \in Callers : CallInv(c)'
  PROVE  IInv'
<1>1. TypeOK'
  BY DEF TypeOK, Rows, Calls, Side, RunRows, RequestRows, WorkRows, StepRows, ExpiryRows, CallRows
<1> QED BY <1>1 DEF IInv

LEMMA RunMoves ==
  ASSUME IInv, UNCHANGED <<request, elapsed, stopped, call, keys, acknowledged>>, Side',
         run.status \notin Taken, NEW status \in Statuses \ {"awaiting_input", "awaiting_approval"},
         run' = [status |-> status, version |-> run.version + 1],
         wf' \in WorkRows, step' \in StepRows, expiry' \in ExpiryRows,
         Placed(wf)', Cause(wf)', Carried(wf)', Snapshot(wf, step)', ExpiryInv(wf, expiry)',
         \A t \in Turns :
           /\ t > wf'.turn \/ (t = wf'.turn /\ wf'.at \in Before) => request[t].kind = "none"
           /\ t < wf'.turn /\ request[t].kind # "none" => request[t].answer # "none"
  PROVE  IInv' /\ Stays
<1>1. run \in RunRows /\ run.version \in Nat /\ Rows /\ Calls
  BY Facts DEF Rows, RunRows
<1>2. run' \in RunRows /\ run'.status = status /\ run'.version = run.version + 1
  BY <1>1 DEF RunRows
<1>3. Rows' /\ Calls'
  BY <1>1, <1>2 DEF Rows, Calls
<1>4. \A t \in Turns : RowInv(t)'
  BY Facts DEF RowInv, Taken
<1>5. \A c \in Callers : CallInv(c)'
  BY Facts DEF CallInv
<1>6. Waits(wf)'
  BY <1>2, Words DEF Waits
<1>7. (run.version >= 1)' /\ StopInv'
  BY <1>1, <1>2, Facts DEF StopInv, Taken
<1>8. IInv'
  BY <1>3, <1>4, <1>5, <1>6, <1>7, Assembled
<1> QED BY <1>8 DEF Stays

LEMMA SideSame ==
  ASSUME IInv, UNCHANGED <<signals, delivered, stopped, crashes, budget>>
  PROVE  Side'
BY Facts DEF Side

LEMMA EngineSame ==
  ASSUME IInv, Engine, UNCHANGED budget
  PROVE  UNCHANGED <<request, elapsed, stopped, call, keys, acknowledged>> /\ Side'
BY Facts DEF Engine, requestVars, signalVars, callVars, Side

LEMMA Positions ==
  ASSUME IInv, NEW t \in Turns
  PROVE  /\ t > wf.turn \/ (t = wf.turn /\ wf.at \in Before) => request[t].kind = "none"
         /\ t < wf.turn /\ request[t].kind # "none" => request[t].answer # "none"
BY Facts DEF RowInv

LEMMA FinalizeKeeps == ASSUME IInv, Finalize PROVE IInv' /\ Stays
<1>1. /\ wf.at = "finalize" /\ step.phase = "loaded" /\ Engine /\ UNCHANGED budget
  BY DEF Finalize, In
<1>2. /\ wf \in WorkRows /\ step \in StepRows /\ run \in RunRows /\ expiry \in ExpiryRows
      /\ step.version \in Nat /\ run.version \in Nat /\ wf.turn \in Turns
      /\ wf.version <= run.version /\ wf.version \in Nat
  BY <1>1, Facts DEF Rows, StepRows, RunRows, WorkRows, Placed, Carried
<1>3. /\ step.version <= run.version /\ 1 <= step.version
      /\ step.version = run.version => step.status = run.status /\ run.status \notin Withdrawn
      /\ step.version # run.version => run.status \in Withdrawn
      /\ run.status \in {"planning", "executing", "validating", "awaiting_review"} \cup Withdrawn
  BY <1>1, Facts DEF Snapshot, Placed
<1>4. CASE /\ step.status \notin DOMAIN After /\ UNCHANGED run
           /\ Record([wf EXCEPT !.at = "review", !.version = step.version])
  <2> DEFINE w == [wf EXCEPT !.at = "review", !.version = step.version]
  <2>1. w \in WorkRows /\ w.at = "review" /\ w.turn = wf.turn /\ w.version = step.version
    BY <1>2, At DEF Steps, Opening
  <2>2. Record(w)
    BY <1>4
  <2> HIDE DEF w
  <2>3. Placed(w) /\ Carried(w)
    <3>1. request[w.turn].kind = "none"
      BY <1>1, <1>2, <2>1, Positions DEF Before
    <3> QED BY <1>2, <1>3, <1>4, <2>1, <3>1 DEF Placed, Faces, Carried, Facing, Opening, After
  <2>4. Quiet /\ Side'
    BY <1>1, <1>4, EngineQuiet
  <2> QED BY <1>1, <1>4, <2>1, <2>2, <2>3, <2>4, Moves DEF Before, Ended, Terminals, Stays
<1>5. CASE /\ step.status \in DOMAIN After /\ Transition(step.version, After[step.status])
           /\ step' = [step EXCEPT !.status = After[step.status], !.version = @ + 1]
           /\ UNCHANGED <<wf, expiry>>
  <2> DEFINE status == After[step.status]
  <2>1. status \in {"executing", "validating", "awaiting_review"}
    BY <1>5 DEF After
  <2>2. /\ step.version = run.version /\ run' = [status |-> status, version |-> run.version + 1]
        /\ run.status \notin Taken
    BY <1>2, <1>3, <1>5 DEF Transition, Taken, Withdrawn
  <2> HIDE DEF status
  <2>3. status \in Statuses \ {"awaiting_input", "awaiting_approval"}
    BY <2>1 DEF Statuses
  <2>4. /\ step' \in StepRows /\ step'.status = status /\ step'.version = run.version + 1
        /\ step'.phase = "loaded"
    <3> DEFINE Row(st, v) == [step EXCEPT !.status = st, !.version = v]
    <3>1. \A st \in Statuses, v \in Nat :
            /\ Row(st, v) \in StepRows /\ Row(st, v).status = st /\ Row(st, v).version = v
            /\ Row(st, v).phase = step.phase
      BY <1>2 DEF StepRows
    <3>2. step' = Row(status, step.version + 1)
      BY <1>5 DEF status
    <3>3. step.version + 1 \in Nat /\ status \in Statuses
      BY <1>2, <2>3
    <3> HIDE DEF Row
    <3> QED BY <1>1, <2>2, <3>1, <3>2, <3>3
  <2>5. /\ Placed(wf)' /\ Cause(wf)' /\ Carried(wf)' /\ ExpiryInv(wf, expiry)'
    BY <1>1, <1>2, <1>5, <2>1, <2>2 DEF Placed, Faces, Cause, Closed, Carried, ExpiryInv, Facing, Opening
  <2>6. Snapshot(wf, step)'
    BY <1>1, <1>2, <1>5, <2>1, <2>2, <2>4 DEF Snapshot, Steps, Withdrawn
  <2> QED BY <1>1, <1>2, <1>5, <2>2, <2>3, <2>4, <2>5, <2>6, EngineSame, Positions, RunMoves
<1>6. CASE (GoTo("superseded") \/ GoTo("terminal-refused")) /\ UNCHANGED run
  <2>1. Quiet /\ Side'
    BY <1>1, <1>6, EngineQuiet
  <2> QED BY <1>1, <1>6, <2>1, Finishes DEF Ended, Terminals, Stays
<1> QED BY <1>4, <1>5, <1>6 DEF Finalize

LEMMA ReviseKeeps == ASSUME IInv, Revise PROVE IInv' /\ Stays
<1>1. wf.at = "revise" /\ step.phase = "loaded" /\ Engine /\ UNCHANGED budget
  BY DEF Revise, In
<1>2. /\ wf \in WorkRows /\ run \in RunRows /\ run.version \in Nat /\ wf.version \in Nat
      /\ wf.turn \in Turns /\ request[wf.turn].answer = "revise" /\ request[wf.turn].kind # "none"
      /\ run.status \in {"awaiting_review", "executing"} \cup Withdrawn
      /\ wf.version <= run.version
      /\ wf.version = run.version => run.status \notin Withdrawn
      /\ step \in StepRows /\ expiry \in ExpiryRows
  BY <1>1, Facts DEF Rows, RunRows, WorkRows, Placed, Faces, Faced, Carried, Facing
<1>3. CASE Transition(wf.version, "executing") /\ step' = [step EXCEPT !.phase = "written"]
           /\ UNCHANGED <<wf, expiry>>
  <2>1. /\ run' = [status |-> "executing", version |-> run.version + 1]
        /\ run.status \notin Taken /\ wf.version = run.version
    BY <1>2, <1>3 DEF Transition, Taken, Withdrawn
  <2>2. step' \in StepRows /\ step'.phase = "written"
    BY <1>2, <1>3 DEF StepRows, Phases
  <2>3. UNCHANGED <<request, elapsed, stopped, call, keys, acknowledged>> /\ Side'
    BY <1>1, EngineSame
  <2>4. Placed(wf)' /\ Cause(wf)' /\ Carried(wf)'
    BY <1>1, <1>2, <1>3, <2>1, <2>3
       DEF Placed, Faces, Faced, Cause, Closed, Carried, Withdrawn, Opening
  <2>5. Snapshot(wf, step)' /\ ExpiryInv(wf, expiry)'
    BY <1>1, <1>3, <2>1, <2>2 DEF Snapshot, ExpiryInv, Opening, Steps
  <2>6. "executing" \in Statuses \ {"awaiting_input", "awaiting_approval"}
    BY DEF Statuses
  <2> QED BY <1>2, <1>3, <2>1, <2>2, <2>3, <2>4, <2>5, <2>6, Positions, RunMoves
<1>4. CASE /\ run = [status |-> "executing", version |-> wf.version + 1]
           /\ step' = [step EXCEPT !.phase = "written"] /\ UNCHANGED <<run, wf, expiry>>
  <2>1. Quiet /\ Side' /\ ExpiryInv(wf, expiry)
    BY <1>1, <1>4, EngineQuiet, Facts
  <2>2. run.status = "executing" /\ wf.at \notin Opening
    BY <1>1, <1>4 DEF Opening
  <2> QED BY <1>1, <1>2, <1>4, <2>1, <2>2, PhaseGoesOn DEF Stays
<1>5. CASE GoTo("superseded") /\ UNCHANGED run
  <2>1. Quiet /\ Side'
    BY <1>1, <1>5, EngineQuiet
  <2> QED BY <1>1, <1>5, <2>1, Finishes DEF Ended, Terminals, Stays
<1> QED BY <1>3, <1>4, <1>5 DEF Revise

LEMMA ReturnRevisedKeeps == ASSUME IInv, ReturnRevised PROVE IInv' /\ Stays
<1>1. /\ wf.at = "revise" /\ step.phase = "written" /\ Record(NextTurn(wf))
      /\ Quiet /\ Side' /\ run' = run
  BY EngineQuiet DEF ReturnRevised, In
<1>2. /\ wf \in WorkRows /\ wf.turn \in Turns /\ wf.version <= run.version
      /\ request[wf.turn].answer = "revise" /\ run.status \in {"executing"} \cup Withdrawn
  BY <1>1, Facts DEF Rows, Placed, Carried, Snapshot, Facing
<1> QED BY <1>1, <1>2, TakesNextTurn DEF Stays

LEMMA CommitKeeps == ASSUME IInv, Commit PROVE IInv' /\ Stays
<1> DEFINE w == [wf EXCEPT !.at = "committing"]
<1>1. wf.at = "commit" /\ step.phase = "loaded" /\ Engine /\ UNCHANGED budget
  BY DEF Commit, In
<1>2. /\ wf \in WorkRows /\ step \in StepRows /\ run \in RunRows
      /\ step.version \in Nat /\ run.version \in Nat /\ wf.version \in Nat
      /\ wf.version <= run.version /\ wf.turn \in Turns
      /\ run.status \in {"awaiting_approval", "cancelling"}
  BY <1>1, Facts DEF Rows, StepRows, RunRows, WorkRows, Placed, Faces, Faced, Carried, Facing
<1>3. step.version = run.version => run.status \notin Withdrawn
  BY <1>1, Facts DEF Snapshot
<1>4. CASE Transition(step.version, "committing") /\ Record(w)
  <2>1. /\ run' = [status |-> "committing", version |-> run.version + 1]
        /\ run.status \notin Taken
    BY <1>2, <1>3, <1>4 DEF Transition, Taken, Withdrawn
  <2>2. w \in WorkRows /\ w.at = "committing" /\ w.turn = wf.turn /\ w.version = wf.version
    BY <1>2 DEF WorkRows, Ended
  <2>3. wf' = w /\ step' = Unread /\ expiry' = NoExpiry
    BY <1>4 DEF Record
  <2> HIDE DEF w
  <2>4. Placed(wf)' /\ Cause(wf)' /\ Carried(wf)' /\ Snapshot(wf, step)' /\ ExpiryInv(wf, expiry)'
    BY <1>2, <2>1, <2>2, <2>3, Fresh
       DEF Placed, Faces, Cause, Closed, Carried, Snapshot, ExpiryInv, Facing, Opening
  <2>5. "committing" \in Statuses \ {"awaiting_input", "awaiting_approval"}
    BY DEF Statuses
  <2>6. \A t \in Turns :
          /\ t > wf'.turn \/ (t = wf'.turn /\ wf'.at \in Before) => request[t].kind = "none"
          /\ t < wf'.turn /\ request[t].kind # "none" => request[t].answer # "none"
    BY <2>2, <2>3, Positions DEF Before
  <2> QED BY <1>1, <2>1, <2>2, <2>3, <2>4, <2>5, <2>6, Fresh, EngineSame, RunMoves
<1>5. CASE GoTo("superseded") /\ UNCHANGED run
  <2>1. Quiet /\ Side'
    BY <1>1, <1>5, EngineQuiet
  <2> QED BY <1>1, <1>5, <2>1, Finishes DEF Ended, Terminals, Stays
<1> QED BY <1>4, <1>5 DEF Commit, GoTo

LEMMA TerminalizeKeeps == ASSUME IInv, Terminalize PROVE IInv' /\ Stays
<1>1. wf.at \in Terminals /\ step.phase = "loaded" /\ Engine /\ UNCHANGED budget
  BY DEF Terminalize
<1>2. /\ wf \in WorkRows /\ step \in StepRows /\ run \in RunRows /\ expiry \in ExpiryRows
      /\ step.version \in Nat /\ run.version \in Nat /\ wf.version \in Nat
      /\ wf.version <= run.version
  BY Facts DEF Rows, StepRows, RunRows, WorkRows, Carried
<1>3. /\ step.version = run.version => step.status = run.status /\ run.status \notin Withdrawn
      /\ run.status # "committing" /\ wf.at \in Concluding
      /\ wf.at \notin Ended \cup Before \cup Facing \cup Opening
  BY <1>1, Facts DEF Snapshot, Cause, Concluding, Terminals, Ended, Before, Facing, Opening
<1>4. CASE /\ step.status \notin {"failed", "refused"} /\ Transition(step.version, Target)
           /\ step' = [step EXCEPT !.phase = "written"] /\ UNCHANGED <<wf, expiry>>
  <2>1. Target \in Closed
    BY DEF Target, Closed
  <2>2. /\ run' = [status |-> Target, version |-> run.version + 1]
        /\ run.status \notin Taken
    BY <1>2, <1>3, <1>4 DEF Transition, Taken, Withdrawn
  <2>3. step' \in StepRows /\ step'.phase = "written"
    BY <1>2, <1>4 DEF StepRows, Phases
  <2>4. UNCHANGED <<request, elapsed, stopped, call, keys, acknowledged>> /\ Side'
    BY <1>1, EngineSame
  <2>5. run'.status = Target /\ run'.version = run.version + 1
    BY <2>2
  <2>6. Placed(wf)' /\ Cause(wf)' /\ Carried(wf)'
    BY <1>2, <1>3, <1>4, <2>1, <2>5
       DEF Placed, Faces, Cause, Closed, Carried, Before, Facing, Opening
  <2>7. Snapshot(wf, step)' /\ ExpiryInv(wf, expiry)'
    BY <1>1, <1>3, <1>4, <2>3 DEF Snapshot, ExpiryInv, Facing, Steps
  <2>8. Target \in Statuses \ {"awaiting_input", "awaiting_approval"}
    BY <2>1 DEF Statuses, Closed
  <2> QED BY <1>2, <1>4, <2>2, <2>3, <2>4, <2>6, <2>7, <2>8, Positions, RunMoves
<1>5. CASE step' = [step EXCEPT !.phase = "written"] /\ UNCHANGED <<run, wf, expiry>>
  <2>1. Quiet /\ Side' /\ ExpiryInv(wf, expiry)
    BY <1>1, <1>5, EngineQuiet, Facts
  <2>2. wf.at \notin Opening /\ wf.at # "revise"
    BY <1>3 DEF Facing
  <2> QED BY <1>1, <1>2, <1>5, <2>1, <2>2, PhaseGoesOn DEF Stays
<1>6. CASE GoTo("superseded") /\ UNCHANGED run
  <2>1. Quiet /\ Side'
    BY <1>1, <1>6, EngineQuiet
  <2> QED BY <1>3, <1>6, <2>1, Finishes DEF Ended, Concluding, Stays
<1> QED BY <1>4, <1>5, <1>6 DEF Terminalize

-----------------------------------------------------------------------------
(* The steps that write a request.                                         *)
LEMMA OpenKeeps ==
  ASSUME IInv, NEW kind \in Kinds, NEW location, Open(location, kind),
         location = (IF kind = "input" THEN "open-input" ELSE "review")
  PROVE  IInv' /\ Stays
<1> DEFINE row == [Unopened EXCEPT !.kind = kind]
           u == wf.turn
<1>1. /\ wf.at \in Opening /\ wf.at = location /\ step.phase = "loaded"
      /\ step' = [step EXCEPT !.phase = "written"]
      /\ UNCHANGED <<wf, expiry, elapsed, keys, call, acknowledged>>
      /\ UNCHANGED <<signals, delivered, stopped, crashes, budget>>
  BY Words DEF Open, In, Opening, signalVars, callVars
<1>2. /\ Rows /\ Calls /\ wf \in WorkRows /\ run \in RunRows /\ u \in Turns
      /\ step \in StepRows /\ expiry \in ExpiryRows
      /\ run.version \in Nat /\ wf.version \in Nat /\ request \in [Turns -> RequestRows]
  BY <1>1, Facts DEF Rows, RunRows, WorkRows, Placed
<1>3. wf.at \notin Before \cup Facing \cup Terminals
  BY <1>1 DEF Opening, Before, Facing, Terminals
<1>4. CASE request[u].kind # "none" /\ UNCHANGED <<run, request>>
  <2>1. Quiet /\ Side' /\ ExpiryInv(wf, expiry) /\ wf.at # "revise"
    BY <1>1, <1>3, <1>4, Facts, SideSame DEF Quiet, Facing
  <2> QED BY <1>1, <1>2, <1>4, <2>1, PhaseGoesOn DEF Stays
<1>5. CASE /\ request[u].kind = "none" /\ Transition(wf.version, Awaiting[kind])
           /\ request' = [request EXCEPT ![u] = row]
  <2>1. /\ run.version = wf.version
        /\ run' = [status |-> Awaiting[kind], version |-> run.version + 1]
    BY <1>5 DEF Transition
  <2>2. run.status \notin Taken
    <3>1. run.status \in {"planning", "awaiting_review"} \cup Withdrawn
      BY <1>1, <1>5, Facts DEF Placed, Opening
    <3>2. run.status \notin Withdrawn
      BY <1>1, <2>1, Facts DEF Carried
    <3> QED BY <3>1, <3>2 DEF Taken, Withdrawn
  <2>3. row \in RequestRows /\ row.kind = kind /\ row.answer = "none" /\ row.expired = FALSE
    BY DEF RequestRows, Unopened
  <2> HIDE DEF row
  <2>4. /\ request'[u] = row
        /\ \A t \in Turns : t # u => request'[t] = request[t]
    BY <1>2, <1>5
  <2>5. Awaiting[kind] \in Statuses \ (Taken \cup {"planning"}) /\ kind # "none"
    BY Words DEF Statuses, Taken
  <2>6. run' \in RunRows /\ run'.status = Awaiting[kind] /\ run'.version = run.version + 1
    BY <1>2, <2>1, <2>5 DEF RunRows
  <2>7. step' \in StepRows /\ step'.phase = "written"
    BY <1>1, <1>2 DEF StepRows, Phases
  <2>8. Rows' /\ Calls' /\ Side'
    <3>1. request' \in [Turns -> RequestRows]
      BY <1>2, <1>5, <2>3
    <3> QED BY <1>1, <1>2, <2>6, <2>7, <3>1, SideSame DEF Rows, Calls
  <2>9. \A t \in Turns : RowInv(t)'
    <3> SUFFICES ASSUME NEW t \in Turns PROVE RowInv(t)'
      OBVIOUS
    <3>1. CASE t = u
      <4>1. ~(u > u) /\ ~(u < u)
        <5>1. u \in Nat
          BY <1>2, Numbers
        <5> HIDE DEF u
        <5> QED BY <5>1
      <4> HIDE DEF u
      <4> QED BY <1>1, <1>3, <2>3, <2>4, <2>5, <3>1, <4>1 DEF RowInv, u
    <3>2. CASE t # u
      <4>1. RowInv(t) /\ request'[t] = request[t]
        BY <2>4, <3>2, Facts
      <4>2. ~request[t].expired
        BY <2>2, <4>1 DEF RowInv, Taken
      <4> QED BY <1>1, <1>3, <3>2, <4>1, <4>2 DEF RowInv
    <3> QED BY <3>1, <3>2
  <2>10. \A c \in Callers : CallInv(c)'
    <3> SUFFICES ASSUME NEW c \in Callers PROVE CallInv(c)'
      OBVIOUS
    <3>1. CallInv(c) /\ RequestOf[c] \in Turns
      BY Facts, Numbers
    <3>2. CASE RequestOf[c] = u
      BY <1>1, <1>5, <3>1, <3>2 DEF CallInv
    <3>3. CASE RequestOf[c] # u
      BY <1>1, <2>4, <3>1, <3>3 DEF CallInv
    <3> QED BY <3>2, <3>3
  <2>11. Placed(wf)' /\ Waits(wf)'
    <3>1. Faced(wf, request[u])'
      BY <1>1, <2>3, <2>4, <2>5, <2>6 DEF Faced
    <3>2. \A k \in Kinds : Awaiting[k] = Awaiting[kind] => k = kind
      BY Words
    <3>3. wf.version < run.version + 1
      BY <1>2, <2>1
    <3> HIDE DEF u
    <3> QED BY <1>1, <1>2, <1>3, <2>3, <2>4, <2>5, <2>6, <3>1, <3>2, <3>3
            DEF Placed, Waits, Before, Facing, u
  <2>12. Cause(wf)' /\ Carried(wf)' /\ StopInv'
    <3>1. wf.version <= run.version + 1
      BY <1>2, <2>1
    <3> QED BY <1>1, <2>2, <2>5, <2>6, <3>1, Facts DEF Cause, Closed, Carried, StopInv, Taken, Withdrawn
  <2>13. Snapshot(wf, step)' /\ ExpiryInv(wf, expiry)'
    BY <1>1, <1>3, <2>3, <2>4, <2>5, <2>7 DEF Snapshot, ExpiryInv, Facing, Steps
  <2>14. (run.version >= 1)'
    BY <1>2, <2>6
  <2> QED BY <2>2, <2>8, <2>9, <2>10, <2>11, <2>12, <2>13, <2>14, Assembled DEF Stays
<1> QED BY <1>4, <1>5 DEF Open

LEMMA OpenInputKeeps == ASSUME IInv, OpenInput PROVE IInv' /\ Stays
BY OpenKeeps, Words DEF OpenInput

LEMMA ResolveReviewKeeps == ASSUME IInv, ResolveReview PROVE IInv' /\ Stays
BY OpenKeeps, Words DEF ResolveReview

LEMMA ExpireRequestKeeps == ASSUME IInv, ExpireRequest PROVE IInv' /\ Stays
<1> DEFINE u == wf.turn
<1>1. /\ wf.at = "expire" /\ step.phase = "loaded" /\ step' = [step EXCEPT !.phase = "written"]
      /\ UNCHANGED <<wf, elapsed, keys, call, acknowledged, signals, delivered, stopped, crashes, budget>>
  BY DEF ExpireRequest, In, signalVars, callVars
<1>2. /\ Rows /\ Calls /\ wf \in WorkRows /\ step \in StepRows /\ run \in RunRows /\ u \in Turns
      /\ expiry \in ExpiryRows /\ request \in [Turns -> RequestRows] /\ u \in elapsed
      /\ step.version \in Nat /\ run.version \in Nat /\ 1 <= step.version /\ Side'
  BY <1>1, Facts, SideSame DEF Rows, StepRows, RunRows, Placed, Facing, Snapshot
<1>3. CASE expiry # NoExpiry /\ UNCHANGED <<run, request, expiry>>
  <2>1. Quiet /\ ExpiryInv(wf, expiry) /\ wf.at \notin Opening
    BY <1>1, <1>3, Facts DEF Quiet, Opening
  <2> QED BY <1>1, <1>2, <1>3, <2>1, PhaseGoesOn DEF Stays
<1>4. CASE /\ request[u].answer # "none" /\ run.version = step.version
           /\ expiry' = [version |-> step.version, raced |-> TRUE] /\ UNCHANGED <<run, request>>
  <2> DEFINE e == [version |-> step.version, raced |-> TRUE]
  <2>1. e \in ExpiryRows /\ ExpiryInv(wf, e)
    BY <1>2, <1>4 DEF ExpiryRows, ExpiryInv, NoExpiry
  <2>2. Quiet /\ wf.at \notin Opening
    BY <1>1, <1>4 DEF Quiet, Opening
  <2> QED BY <1>1, <1>2, <1>4, <2>1, <2>2, PhaseGoesOn DEF Stays
<1>5. CASE /\ expiry = NoExpiry /\ request[u].answer = "none" /\ Transition(step.version, "failed")
           /\ request' = [request EXCEPT ![u].expired = TRUE]
           /\ expiry' = [version |-> step.version, raced |-> FALSE]
  <2> DEFINE row == [request[u] EXCEPT !.expired = TRUE]
             e == [version |-> step.version, raced |-> FALSE]
  <2>1. /\ run.version = step.version /\ run' = [status |-> "failed", version |-> run.version + 1]
    BY <1>5 DEF Transition
  <2>2. run.status \notin Taken
    <3>1. run.status \notin Withdrawn
      BY <1>1, <2>1, Facts DEF Snapshot
    <3>2. Faced(wf, request[u]) /\ request[u].kind \in Kinds
      <4>1. Faced(wf, request[u])
        BY <1>1, Facts DEF Placed, Faces, Facing
      <4> QED BY <1>2, <4>1 DEF Faced, RequestRows
    <3>3. run.status # "failed"
      BY <1>1, <1>5, Facts DEF ExpiryInv
    <3> QED BY <1>5, <3>1, <3>2, <3>3, Words DEF Faced, Taken, Withdrawn
  <2>3. /\ row \in RequestRows /\ row.kind = request[u].kind /\ row.answer = "none" /\ row.expired
    BY <1>2, <1>5 DEF RequestRows
  <2>4. e \in ExpiryRows /\ e # NoExpiry /\ ~e.raced
    BY <1>2 DEF ExpiryRows, NoExpiry
  <2>5. /\ request' \in [Turns -> RequestRows] /\ request'[u] = row
        /\ \A t \in Turns : t # u => request'[t] = request[t]
    BY <1>2, <1>5, <2>3
  <2>6. /\ run' \in RunRows /\ run'.status = "failed" /\ run'.version = run.version + 1
    BY <1>2, <2>1 DEF RunRows, Statuses
  <2>7. step' \in StepRows /\ step'.phase = "written"
    BY <1>1, <1>2 DEF StepRows, Phases
  <2>8. expiry' = e
    BY <1>5
  <2> HIDE DEF row, e
  <2>9. Rows' /\ Calls' /\ Side'
    BY <1>1, <1>2, <2>4, <2>5, <2>6, <2>7, <2>8 DEF Rows, Calls
  <2>10. \A t \in Turns : RowInv(t)'
    <3> SUFFICES ASSUME NEW t \in Turns PROVE RowInv(t)'
      OBVIOUS
    <3>1. RowInv(t) /\ (request[u].kind # "none")
      BY <1>1, Facts DEF Placed, Faces, Faced, Facing
    <3>2. CASE t = u
      BY <1>1, <1>2, <2>3, <2>5, <2>6, <3>1, <3>2, Numbers DEF RowInv, Before
    <3>3. CASE t # u
      BY <1>1, <2>5, <2>6, <3>1, <3>3 DEF RowInv
    <3> QED BY <3>2, <3>3
  <2>11. \A c \in Callers : CallInv(c)'
    <3> SUFFICES ASSUME NEW c \in Callers PROVE CallInv(c)'
      OBVIOUS
    <3>1. CallInv(c) /\ RequestOf[c] \in Turns
      BY Facts, Numbers
    <3>2. /\ request'[RequestOf[c]].kind = request[RequestOf[c]].kind
          /\ request'[RequestOf[c]].answer = request[RequestOf[c]].answer
      BY <1>5, <2>3, <2>5, <3>1
    <3> QED BY <1>1, <3>1, <3>2 DEF CallInv
  <2>12. Placed(wf)' /\ Waits(wf)' /\ Cause(wf)'
    <3>1. Faced(wf, request[u])
      BY <1>1, Facts DEF Placed, Faces, Facing
    <3>2. (request[u].kind # "none")
      BY <3>1 DEF Faced
    <3>3. (\E t \in Turns : request[t].expired)' /\ wf.at \notin Opening
      BY <1>1, <1>2, <2>3, <2>5 DEF Opening
    <3> QED BY <1>1, <1>2, <2>3, <2>5, <2>6, <3>2, <3>3, Words
            DEF Placed, Faces, Faced, Waits, Cause, Facing
  <2>13. Carried(wf)' /\ Snapshot(wf, step)' /\ ExpiryInv(wf, expiry)' /\ StopInv'
    <3>1. wf.version \in Nat /\ wf.version <= run.version
      BY <1>2, Facts DEF WorkRows, Carried
    <3>2. wf.version <= run.version + 1
      BY <1>2, <3>1
    <3>3. wf.at \in Steps /\ wf.at \notin Opening /\ wf.at # "revise"
      BY <1>1 DEF Opening, Steps
    <3>4. StopInv'
      BY <1>1, <2>2, Facts DEF StopInv, Taken
    <3> QED BY <1>1, <2>4, <2>6, <2>7, <2>8, <3>2, <3>3, <3>4 DEF Carried, Snapshot, ExpiryInv
  <2>14. (run.version >= 1)'
    BY <1>2, <2>6
  <2> QED BY <2>2, <2>9, <2>10, <2>11, <2>12, <2>13, <2>14, Assembled DEF Stays
<1> QED BY <1>3, <1>4, <1>5 DEF ExpireRequest

-----------------------------------------------------------------------------
(* The callers.                                                            *)
Still == UNCHANGED <<run, request, elapsed, wf, step, expiry, stopped>>

LEMMA CallMoves ==
  ASSUME IInv, Still, Calls', Side', \A c \in Callers : CallInv(c)'
  PROVE  IInv' /\ Stays
<1>1. Rows' /\ (run.version >= 1)'
  BY Facts DEF Still, Rows
<1>2. \A t \in Turns : RowInv(t)'
  BY Facts DEF Still, RowInv
<1>3. Placed(wf)' /\ Waits(wf)' /\ Cause(wf)'
  BY Facts DEF Still, Placed, Faces, Faced, Waits, Cause
<1>4. Carried(wf)' /\ Snapshot(wf, step)' /\ ExpiryInv(wf, expiry)' /\ StopInv'
  BY Facts DEF Still, Carried, Snapshot, ExpiryInv, StopInv
<1> QED BY <1>1, <1>2, <1>3, <1>4, Assembled DEF Still, Stays

(* One call moves on, with what it carries.                                *)
LEMMA OneCall ==
  ASSUME IInv, Still, Side', UNCHANGED <<keys, acknowledged>>, NEW c \in Callers,
         NEW r \in CallRows, call' = [call EXCEPT ![c] = r], r.at # "idle",
         request[RequestOf[c]].kind # "none",
         r.answer \in Answers[request[RequestOf[c]].kind],
         c \in keys => r.answer = call[c].answer,
         r.at \in {"acknowledge", "signal", "lost"} => c \in keys
  PROVE  IInv' /\ Stays
<1>1. Calls'
  BY Facts DEF Calls
<1>2. \A d \in Callers : CallInv(d)'
  <2> SUFFICES ASSUME NEW d \in Callers PROVE CallInv(d)'
    OBVIOUS
  <2>1. CallInv(d) /\ RequestOf[d] \in Turns /\ call \in [Callers -> CallRows]
    BY Facts, Numbers DEF Calls
  <2>2. CASE d = c
    BY <2>1, <2>2 DEF CallInv, Still
  <2>3. CASE d # c
    BY <2>1, <2>3 DEF CallInv, Still
  <2> QED BY <2>2, <2>3
<1> QED BY <1>1, <1>2, CallMoves

(* The call goes to another place with the answer it carries.              *)
LEMMA CallGoes ==
  ASSUME IInv, Still, Side', UNCHANGED <<keys, acknowledged>>, NEW c \in Callers,
         call[c].at # "idle", NEW at \in {"begin", "acknowledge", "signal", "lost", "refused", "done"},
         call' = [call EXCEPT ![c].at = at],
         at \in {"acknowledge", "signal", "lost"} => c \in keys
  PROVE  IInv' /\ Stays
<1> DEFINE r == [call[c] EXCEPT !.at = at]
<1>1. call[c] \in CallRows /\ CallInv(c)
  BY Facts DEF Calls
<1>2. r \in CallRows /\ r.at = at /\ r.answer = call[c].answer
  BY <1>1 DEF CallRows
<1>3. call' = [call EXCEPT ![c] = r]
  OBVIOUS
<1> HIDE DEF r
<1> QED BY <1>1, <1>2, <1>3, OneCall DEF CallInv

LEMMA OthersSame ==
  ASSUME IInv, OthersCall, UNCHANGED <<run, requestVars>>
  PROVE  Still /\ UNCHANGED keys
BY DEF OthersCall, requestVars, Still

LEMMA AddressKeeps ==
  ASSUME IInv, NEW c \in Callers, NEW answer \in AnyAnswer, Address(c, answer)
  PROVE  IInv' /\ Stays
<1> DEFINE r == [Unsent EXCEPT !.at = "begin", !.answer = answer, !.version = run.version]
<1>1. /\ Still /\ UNCHANGED <<keys, acknowledged>> /\ Side'
      /\ call' = [call EXCEPT ![c] = r] /\ call[c].at = "idle"
      /\ request[RequestOf[c]].kind # "none"
      /\ answer \in Answers[request[RequestOf[c]].kind]
  BY OthersSame, SideSame DEF Address, signalVars, OthersCall
<1>2. r \in CallRows /\ r.at = "begin" /\ r.answer = answer
  <2>1. run.version \in Nat
    BY Facts DEF Rows, RunRows
  <2> QED BY <2>1 DEF CallRows, Unsent
<1>3. c \notin keys
  BY <1>1, Facts DEF CallInv
<1> HIDE DEF r
<1> QED BY <1>1, <1>2, <1>3, OneCall

LEMMA ReadClockKeeps ==
  ASSUME IInv, NEW c \in Callers, ReadClock(c)
  PROVE  IInv' /\ Stays
<1> DEFINE r == [call[c] EXCEPT !.at = "write", !.inTime = RequestOf[c] \notin elapsed]
<1>1. /\ Still /\ UNCHANGED <<keys, acknowledged>> /\ Side' /\ call[c].at = "begin"
      /\ call' = [call EXCEPT ![c].at = "write", ![c].inTime = RequestOf[c] \notin elapsed]
  BY OthersSame, SideSame DEF ReadClock, signalVars, OthersCall
<1>2. call[c] \in CallRows /\ call \in [Callers -> CallRows] /\ CallInv(c)
  BY Facts DEF Calls
<1>3. r \in CallRows /\ r.at = "write" /\ r.answer = call[c].answer
  <2> DEFINE in == RequestOf[c] \notin elapsed
  <2>1. in \in BOOLEAN
    OBVIOUS
  <2> HIDE DEF in
  <2> QED BY <1>2, <2>1 DEF CallRows
<1>4. call' = [call EXCEPT ![c] = r]
  BY <1>1, <1>2
<1> HIDE DEF r
<1> QED BY <1>1, <1>2, <1>3, <1>4, OneCall DEF CallInv

LEMMA ReplayKeeps ==
  ASSUME IInv, NEW c \in Callers, Replay(c)
  PROVE  IInv' /\ Stays
<1>1. /\ Still /\ UNCHANGED <<keys, acknowledged>> /\ Side' /\ call[c].at # "idle" /\ c \in keys
      /\ call' = [call EXCEPT ![c].at = "acknowledge"]
  BY OthersSame, SideSame DEF Replay, signalVars, OthersCall
<1> QED BY <1>1, CallGoes

LEMMA RefuseKeeps ==
  ASSUME IInv, NEW c \in Callers, Refuse(c)
  PROVE  IInv' /\ Stays
<1>1. /\ Still /\ UNCHANGED <<keys, acknowledged>> /\ Side' /\ call[c].at # "idle"
      /\ call' = [call EXCEPT ![c].at = "refused"]
  BY OthersSame, SideSame DEF Refuse, signalVars, OthersCall
<1> QED BY <1>1, CallGoes

LEMMA AcknowledgeKeeps ==
  ASSUME IInv, NEW c \in Callers, Acknowledge(c)
  PROVE  IInv' /\ Stays
<1>1. /\ Still /\ UNCHANGED keys /\ Side' /\ call[c].at = "acknowledge"
      /\ call' = [call EXCEPT ![c].at = "signal"] /\ acknowledged' = acknowledged \cup {c}
  BY OthersSame, SideSame DEF Acknowledge, signalVars, OthersCall
<1>2. call \in [Callers -> CallRows] /\ Calls /\ c \in keys
  BY <1>1, Facts DEF Calls, CallInv
<1>3. Calls'
  <2>1. [call[c] EXCEPT !.at = "signal"] \in CallRows
    BY <1>2 DEF CallRows
  <2> QED BY <1>1, <1>2, <2>1 DEF Calls
<1>4. \A d \in Callers : CallInv(d)'
  <2> SUFFICES ASSUME NEW d \in Callers PROVE CallInv(d)'
    OBVIOUS
  <2>1. CallInv(d) /\ RequestOf[d] \in Turns
    BY Facts, Numbers
  <2>2. CASE d = c
    <3>1. call'[c].at = "signal" /\ call'[c].answer = call[c].answer
      BY <1>1, <1>2 DEF CallRows
    <3> QED BY <1>1, <1>2, <2>1, <2>2, <3>1 DEF CallInv, Still
  <2>3. CASE d # c
    BY <1>1, <1>2, <2>1, <2>3 DEF CallInv, Still
  <2> QED BY <2>2, <2>3
<1> QED BY <1>1, <1>3, <1>4, CallMoves

LEMMA SignalKeeps ==
  ASSUME IInv, NEW c \in Callers, Signal(c)
  PROVE  IInv' /\ Stays
<1>1. /\ Still /\ UNCHANGED <<keys, acknowledged>> /\ call[c].at # "idle"
      /\ call' = [call EXCEPT ![c].at = "done"]
  BY OthersSame DEF Signal
<1>2. Side'
  <2>1. signals' \in [Turns -> SUBSET Callers] /\ delivered' \subseteq Callers
    BY Facts, Numbers DEF Signal, Side
  <2> QED BY <2>1, Facts DEF Signal, OthersCall, Side
<1> QED BY <1>1, <1>2, CallGoes

LEMMA HandlerCrashKeeps ==
  ASSUME IInv, NEW c \in Callers, HandlerCrash(c)
  PROVE  IInv' /\ Stays
<1>1. /\ Still /\ UNCHANGED <<keys, acknowledged>> /\ call[c].at \in {"acknowledge", "signal"}
      /\ call' = [call EXCEPT ![c].at = "lost"]
  BY OthersSame DEF HandlerCrash
<1>2. Side'
  <2>1. crashes \in 0..MaxCrashes /\ crashes < MaxCrashes
    BY Facts DEF Side, HandlerCrash
  <2>2. crashes + 1 \in 0..MaxCrashes
    BY <2>1, Numbers
  <2> QED BY <2>2, Facts DEF HandlerCrash, signalVars, OthersCall, Side
<1>3. c \in keys
  BY <1>1, Facts DEF CallInv
<1> QED BY <1>1, <1>2, <1>3, CallGoes

LEMMA ResendKeeps ==
  ASSUME IInv, NEW c \in Callers, Resend(c)
  PROVE  IInv' /\ Stays
<1>1. /\ Still /\ UNCHANGED <<keys, acknowledged>> /\ Side' /\ call[c].at # "idle"
      /\ call' = [call EXCEPT ![c].at = "begin"]
  BY OthersSame, SideSame DEF Resend, signalVars, OthersCall
<1> QED BY <1>1, CallGoes

-----------------------------------------------------------------------------
(* The other authorities and the clock.                                    *)
LEMMA WithdrawKeeps ==
  ASSUME IInv, run.status \notin Taken, NEW status \in Withdrawn, Transition(run.version, status),
         status = "discarded" => run.status = "awaiting_review",
         OthersCall, UNCHANGED <<requestVars, signalVars, callVars, crashes>>
  PROVE  IInv' /\ Stays
<1>1. /\ Rows /\ run \in RunRows /\ run.version \in Nat /\ wf \in WorkRows /\ step \in StepRows
      /\ expiry \in ExpiryRows /\ step.version \in Nat /\ wf.version \in Nat
      /\ wf.version <= run.version
  BY Facts DEF Rows, RunRows, WorkRows, StepRows, Carried
<1>2. /\ UNCHANGED <<request, elapsed, stopped, call, keys, acknowledged, wf, step, expiry>> /\ Side'
  BY SideSame DEF OthersCall, requestVars, signalVars, callVars
<1>3. /\ run' = [status |-> status, version |-> run.version + 1]
      /\ status \in Statuses \ {"awaiting_input", "awaiting_approval"}
  BY DEF Transition, Withdrawn, Statuses
<1>4. run'.status = status /\ run'.version = run.version + 1
  BY <1>3
<1>5. Placed(wf)'
  <2>1. Placed(wf)
    BY Facts
  <2>2. ASSUME Faces(wf) PROVE Faced(wf, request[wf.turn])'
    <3> DEFINE r == request[wf.turn]
    <3>1. wf.turn \in Turns /\ Faced(wf, r)
      BY <2>1, <2>2 DEF Placed, Faces
    <3>2. r \in RequestRows /\ r' = r
      BY <1>1, <1>2, <3>1 DEF Rows
    <3>3. r.kind \in Kinds
      BY <3>1, <3>2 DEF Faced, RequestRows
    <3>4. CASE status = "cancelling"
      BY <1>2, <1>4, <3>1, <3>2, <3>4 DEF Faced, Withdrawn
    <3>5. CASE status = "discarded"
      <4>1. run.status = "awaiting_review"
        BY <3>5
      <4>2. r.answer \notin {"none", "respond", "approve"}
        BY <3>1, <3>3, <4>1, Words DEF Faced
      <4> HIDE DEF r
      <4>3. Faced(wf, r)'
        BY <1>2, <1>4, <3>1, <3>2, <3>5, <4>2 DEF Faced, Withdrawn
      <4> QED BY <4>3 DEF r
    <3> QED BY <3>4, <3>5 DEF Withdrawn
  <2>3. wf.version < run.version + 1
    BY <1>1
  <2>4. Faces(wf)' <=> Faces(wf)
    BY <1>2 DEF Faces
  <2> QED BY <1>2, <1>3, <1>4, <2>1, <2>2, <2>3, <2>4 DEF Placed
<1>6. Cause(wf)' /\ Carried(wf)' /\ Snapshot(wf, step)' /\ ExpiryInv(wf, expiry)'
  <2>1. wf.version <= run.version + 1 /\ wf.version # run.version + 1
    BY <1>1
  <2>2. step.phase = "loaded" => step.version <= run.version + 1 /\ step.version # run.version + 1
    BY <1>1, Facts DEF Snapshot
  <2> QED BY <1>2, <1>4, <2>1, <2>2, Facts DEF Cause, Closed, Carried, Snapshot, ExpiryInv, Withdrawn
<1>7. \A t \in Turns :
        /\ t > wf'.turn \/ (t = wf'.turn /\ wf'.at \in Before) => request[t].kind = "none"
        /\ t < wf'.turn /\ request[t].kind # "none" => request[t].answer # "none"
  BY <1>2, Positions
<1> QED BY <1>1, <1>2, <1>3, <1>5, <1>6, <1>7, RunMoves

LEMMA RequestCancellationKeeps == ASSUME IInv, RequestCancellation PROVE IInv' /\ Stays
BY WithdrawKeeps DEF RequestCancellation, Withdrawn, Taken

LEMMA DiscardKeeps == ASSUME IInv, Discard PROVE IInv' /\ Stays
BY WithdrawKeeps DEF Discard, Withdrawn, Taken

LEMMA StopRunKeeps == ASSUME IInv, StopRun PROVE IInv' /\ Stays
<1>1. /\ UNCHANGED <<run, request, elapsed, wf, step, expiry, call, keys, acknowledged>>
      /\ run.status = "cancelling"
  BY DEF StopRun, requestVars, callVars
<1>2. Rows' /\ Calls' /\ Side' /\ StopInv' /\ (run.version >= 1)'
  BY <1>1, Facts DEF StopRun, signalVars, Rows, Calls, Side, StopInv
<1>3. /\ \A t \in Turns : RowInv(t)'
      /\ \A c \in Callers : CallInv(c)'
  BY <1>1, Facts DEF RowInv, CallInv
<1>4. Placed(wf)' /\ Waits(wf)' /\ Cause(wf)'
  BY <1>1, Facts DEF Placed, Faces, Faced, Waits, Cause
<1>5. Carried(wf)' /\ Snapshot(wf, step)' /\ ExpiryInv(wf, expiry)'
  BY <1>1, Facts DEF Carried, Snapshot, ExpiryInv
<1> QED BY <1>1, <1>2, <1>3, <1>4, <1>5, Assembled DEF Stays

LEMMA ElapseKeeps == ASSUME IInv, NEW t \in Turns, Elapse(t) PROVE IInv' /\ Stays
<1>1. /\ UNCHANGED <<run, request, wf, step, expiry, stopped, call, keys, acknowledged>>
      /\ elapsed' = elapsed \cup {t} /\ Side'
  BY SideSame DEF Elapse, OthersCall, signalVars, callVars
<1>2. Rows' /\ Calls' /\ StopInv' /\ (run.version >= 1)'
  BY <1>1, Facts DEF Rows, Calls, StopInv
<1>3. /\ \A u \in Turns : RowInv(u)'
      /\ \A c \in Callers : CallInv(c)'
  BY <1>1, Facts DEF RowInv, CallInv
<1>4. Placed(wf)' /\ Waits(wf)' /\ Cause(wf)'
  BY <1>1, Facts DEF Placed, Faces, Faced, Waits, Cause
<1>5. Carried(wf)' /\ Snapshot(wf, step)' /\ ExpiryInv(wf, expiry)'
  BY <1>1, Facts DEF Carried, Snapshot, ExpiryInv
<1> QED BY <1>1, <1>2, <1>3, <1>4, <1>5, Assembled DEF Stays

(* An accepted answer settles the row of the request, and but for an       *)
(* approval moves the run on in the same transaction.                      *)
LEMMA AcceptFacts ==
  ASSUME IInv, NEW c \in Callers, Accept(c)
  PROVE  /\ call[c].at = "write" /\ c \notin keys
         /\ RequestOf[c] = wf.turn /\ wf.turn \in Turns /\ wf.at \notin Before
         /\ request[wf.turn].answer = "none" /\ ~request[wf.turn].expired
         /\ request[wf.turn].kind \in Kinds
         /\ call[c].answer \in Answers[request[wf.turn].kind]
         /\ request' = [request EXCEPT ![wf.turn].answer = call[c].answer]
         /\ keys' = keys \cup {c} /\ call' = [call EXCEPT ![c].at = "acknowledge"]
         /\ UNCHANGED <<elapsed, acknowledged, wf, step, expiry, stopped>> /\ Side'
<1> DEFINE t == RequestOf[c]
<1>1. /\ call[c].at = "write" /\ c \notin keys /\ request[t].answer = "none" /\ ~request[t].expired
      /\ request' = [request EXCEPT ![t].answer = call[c].answer]
      /\ keys' = keys \cup {c} /\ call' = [call EXCEPT ![c].at = "acknowledge"]
      /\ UNCHANGED <<elapsed, acknowledged, wf, step, expiry, stopped>> /\ Side'
  BY SideSame DEF Accept, Acceptable, OthersCall, signalVars
<1>2. /\ t \in Turns /\ RowInv(t) /\ CallInv(c) /\ request[t] \in RequestRows
      /\ wf.turn \in 1..(TurnLimit + 1)
  BY Facts, Numbers DEF Rows, WorkRows
<1>3. request[t].kind # "none" /\ call[c].answer \in Answers[request[t].kind]
  BY <1>1, <1>2 DEF CallInv
<1>4. t = wf.turn /\ wf.at \notin Before
  <2>1. t \in Int /\ wf.turn \in Int
    <3>1. t \in Nat
      BY <1>2, Numbers
    <3>2. wf.turn \in Int
      BY <1>2, Numbers
    <3> QED BY <3>1, <3>2
  <2>2. ~(t > wf.turn) /\ ~(t < wf.turn) /\ ~(t = wf.turn /\ wf.at \in Before)
    BY <1>1, <1>2, <1>3 DEF RowInv
  <2> QED BY <2>1, <2>2
<1> QED BY <1>1, <1>2, <1>3, <1>4 DEF RequestRows

LEMMA AcceptKeeps ==
  ASSUME IInv, NEW c \in Callers, Accept(c)
  PROVE  IInv' /\ Stays
<1> DEFINE u == wf.turn
           a == call[c].answer
           row == [request[u] EXCEPT !.answer = a]
<1>1. /\ call[c].at = "write" /\ c \notin keys /\ RequestOf[c] = u /\ u \in Turns /\ wf.at \notin Before
      /\ request[u].answer = "none" /\ ~request[u].expired /\ request[u].kind \in Kinds
      /\ a \in Answers[request[u].kind]
      /\ request' = [request EXCEPT ![u].answer = a]
      /\ keys' = keys \cup {c} /\ call' = [call EXCEPT ![c].at = "acknowledge"]
      /\ UNCHANGED <<elapsed, acknowledged, wf, step, expiry, stopped>> /\ Side'
  BY AcceptFacts
<1>2. /\ Rows /\ Calls /\ run \in RunRows /\ run.version \in Nat /\ run.version >= 1
      /\ wf \in WorkRows /\ step \in StepRows /\ wf.version \in Nat /\ step.version \in Nat
      /\ request \in [Turns -> RequestRows] /\ wf.version <= run.version
  BY Facts DEF Rows, RunRows, WorkRows, StepRows, Carried
<1>3. \/ /\ a = "respond" /\ run.status = "awaiting_input"
         /\ run' = [status |-> "planning", version |-> run.version + 1]
      \/ /\ a = "revise" /\ run.status = "awaiting_approval"
         /\ run' = [status |-> "awaiting_review", version |-> run.version + 1]
      \/ a = "approve" /\ run' = run
  BY <1>1, Words DEF Accept, Acceptable, Transition
<1>4. /\ a \in AnyAnswer /\ a # "none" /\ request[u].kind # "none"
  BY <1>1, Words
<1>5. /\ row \in RequestRows /\ row.kind = request[u].kind /\ row.answer = a /\ row.expired = FALSE
  BY <1>1, <1>2, <1>4 DEF RequestRows
<1>6. /\ request' \in [Turns -> RequestRows] /\ request'[u] = row
      /\ \A t \in Turns : t # u => request'[t] = request[t]
  BY <1>1, <1>2, <1>5
<1>7. /\ run' \in RunRows /\ run'.version \in {run.version, run.version + 1}
      /\ run'.version = run.version => run' = run
      /\ run' = run => a = "approve"
  BY <1>2, <1>3 DEF RunRows, Statuses
<1>8. Rows' /\ Calls' /\ Side' /\ (run.version >= 1)'
  <2>1. [call[c] EXCEPT !.at = "acknowledge"] \in CallRows
    BY <1>2 DEF Calls, CallRows
  <2> QED BY <1>1, <1>2, <1>6, <1>7, <2>1 DEF Rows, Calls
<1>9. \A t \in Turns : RowInv(t)'
  <2> SUFFICES ASSUME NEW t \in Turns PROVE RowInv(t)'
    OBVIOUS
  <2>1. RowInv(t)
    BY Facts
  <2>2. run.status = "failed" => run' = run
    BY <1>3
  <2>3. CASE t = u
    <3>1. ~(u > u) /\ ~(u < u)
      BY <1>1, Numbers
    <3> HIDE DEF u, a, row
    <3> QED BY <1>1, <1>4, <1>5, <1>6, <2>3, <3>1 DEF RowInv, u
  <2>4. CASE t # u
    <3>1. request'[t] = request[t]
      BY <1>6, <2>4
    <3> QED BY <1>1, <2>1, <2>2, <3>1 DEF RowInv
  <2> QED BY <2>3, <2>4
<1>10. \A d \in Callers : CallInv(d)'
  <2> SUFFICES ASSUME NEW d \in Callers PROVE CallInv(d)'
    OBVIOUS
  <2>1. CallInv(d) /\ RequestOf[d] \in Turns /\ call \in [Callers -> CallRows]
    BY Facts, Numbers DEF Calls
  <2>2. CASE d = c
    <3>1. call'[c].at = "acknowledge" /\ call'[c].answer = a
      BY <1>1, <2>1 DEF CallRows
    <3> HIDE DEF u, a, row
    <3> QED BY <1>1, <1>4, <1>5, <1>6, <2>1, <2>2, <3>1 DEF CallInv
  <2>3. CASE d # c
    <3>1. call'[d] = call[d] /\ (d \in keys' <=> d \in keys)
      BY <1>1, <2>1, <2>3
    <3>2. CASE RequestOf[d] = u
      <4>1. d \notin keys
        <5> SUFFICES ASSUME d \in keys PROVE FALSE
          OBVIOUS
        <5>1. call[d].answer = "none" /\ call[d].answer \in Answers[request[u].kind]
          BY <1>1, <2>1, <3>2 DEF CallInv
        <5> QED BY <1>1, <5>1, Words
      <4> QED BY <1>1, <1>5, <1>6, <2>1, <3>1, <3>2, <4>1 DEF CallInv
    <3>3. CASE RequestOf[d] # u
      BY <1>1, <1>6, <2>1, <3>1, <3>3 DEF CallInv
    <3> QED BY <3>2, <3>3
  <2> QED BY <2>2, <2>3
<1>11. ASSUME Faces(wf) PROVE Faced(wf, request[u])'
  <2>0. Faced(wf, request[u])
    BY <1>11, Facts DEF Placed
  <2>1. run.status \in {Awaiting[request[u].kind], "cancelling"}
    <3>1. request[u].answer = "none" /\ ~request[u].expired
      BY <1>1
    <3> HIDE DEF u
    <3> QED BY <2>0, <3>1 DEF Faced
  <2> HIDE DEF a, row
  <2>2. a = "approve" => request[u].kind = "approval"
    BY <1>1, Words
  <2>3. a = "approve" => run'.status \in {"awaiting_approval", "cancelling"}
    BY <1>3, <2>1, <2>2, Words
  <2>4. /\ a = "respond" => run'.status = "planning"
        /\ a = "revise" => run'.status = "awaiting_review"
    BY <1>3
  <2> QED BY <1>1, <1>4, <1>5, <1>6, <2>3, <2>4 DEF Faced
<1>12. Placed(wf)'
  <2>1. Placed(wf)
    BY Facts
  <2>2. wf.at # "revise" /\ wf.at # "commit"
    BY <1>1, <2>1 DEF Placed
  <2>3. request[u].kind # "none" /\ request'[u].kind = request[u].kind
    BY <1>4, <1>5, <1>6
  <2>4. Faces(wf)' <=> Faces(wf)
    BY <1>1, <2>3 DEF Faces
  <2>5. wf.at \in Opening => wf.version < run'.version
    BY <1>2, <1>7, <2>1, <2>3 DEF Placed
  <2> HIDE DEF a, row
  <2> QED BY <1>1, <1>11, <2>1, <2>2, <2>3, <2>4, <2>5 DEF Placed, Before
<1>13. Waits(wf)' /\ Cause(wf)'
  <2>1. ASSUME NEW k \in Kinds, run'.status = Awaiting[k]
        PROVE  row.kind = k /\ row.answer \in {"none", "approve"}
    <3>1. a = "approve" /\ run' = run
      BY <1>3, <2>1, Words
    <3>2. request[u].kind = k
      BY <2>1, <3>1, Facts DEF Waits
    <3> QED BY <1>5, <3>1, <3>2
  <2>2. Waits(wf)'
    BY <1>1, <1>6, <2>1 DEF Waits
  <2>3. \A t \in Turns : request'[t].expired = request[t].expired
    BY <1>1, <1>5, <1>6
  <2>4. run'.status \in Closed \cup {"committing"} => run' = run
    BY <1>3 DEF Closed
  <2>5. Cause(wf)'
    BY <1>1, <2>3, <2>4, Facts DEF Cause
  <2> QED BY <2>2, <2>5
<1>14. Carried(wf)' /\ Snapshot(wf, step)' /\ ExpiryInv(wf, expiry)' /\ StopInv'
  <2>1. Carried(wf)'
    <3>1. wf.version <= run.version + 1 /\ wf.version # run.version + 1
      BY <1>2
    <3> QED BY <1>1, <1>2, <1>7, <3>1, Facts DEF Carried
  <2>2. Snapshot(wf, step)'
    <3>1. step.phase = "loaded" =>
            step.version <= run.version /\ step.version <= run.version + 1 /\ step.version # run.version + 1
      BY <1>2, Facts DEF Snapshot
    <3>2. wf.at \notin {"turn", "finalize"}
      BY <1>1 DEF Before
    <3>3. wf.at # "revise"
      BY <1>1, Facts DEF Placed
    <3>4. request'[u].kind # "none"
      BY <1>4, <1>5, <1>6
    <3> HIDE DEF a, row
    <3> QED BY <1>1, <1>7, <3>1, <3>2, <3>3, <3>4, Facts DEF Snapshot
  <2>3. ExpiryInv(wf, expiry)'
    <3>1. run'.status = "failed" => run.status = "failed"
      BY <1>3
    <3> QED BY <1>1, <1>4, <1>5, <1>6, <3>1, Facts DEF ExpiryInv
  <2>4. StopInv'
    BY <1>1, <1>3, Facts DEF StopInv
  <2> QED BY <2>1, <2>2, <2>3, <2>4
<1>15. Stays
  BY <1>3 DEF Stays, Taken
<1> QED BY <1>8, <1>9, <1>10, <1>12, <1>13, <1>14, <1>15, Assembled

-----------------------------------------------------------------------------
LEMMA InitIInv == Init => IInv
<1> SUFFICES ASSUME Init PROVE IInv
  OBVIOUS
<1>1. /\ run = [status |-> "planning", version |-> 1]
      /\ wf = [at |-> "turn", turn |-> 1, wake |-> 0, version |-> 1, timedOut |-> FALSE]
      /\ request = [t \in Turns |-> Unopened] /\ elapsed = {} /\ step = Unread /\ expiry = NoExpiry
      /\ call = [c \in Callers |-> Unsent] /\ keys = {} /\ acknowledged = {}
  BY DEF Init
<1>2. TypeOK
  <2>1. wf \in WorkRows
    <3>1. 1 \in 1..(TurnLimit + 1)
      BY Numbers
    <3> QED BY <1>1, <3>1 DEF WorkRows, Steps
  <2>2. /\ run \in RunRows /\ Unopened \in RequestRows /\ Unsent \in CallRows
    BY <1>1 DEF RunRows, Statuses, RequestRows, Unopened, CallRows, Unsent
  <2>3. Rows /\ Calls
    BY <1>1, <2>1, <2>2, Fresh DEF Rows, Calls
  <2>4. Side
    <3>1. signals \in [Turns -> SUBSET Callers] /\ delivered \subseteq Callers
      BY DEF Init
    <3>2. stopped \in BOOLEAN /\ budget \in {"held", "settled", "released"}
      BY DEF Init
    <3>3. 0 \in 0..MaxCrashes
      BY InterruptAssumption
    <3> QED BY <3>1, <3>2, <3>3 DEF Init, Side
  <2> QED BY <2>3, <2>4, TypeParts
<1>3. Placed(wf) /\ Waits(wf) /\ Cause(wf) /\ Carried(wf)
  BY <1>1, Words DEF Placed, Faces, Waits, Cause, Closed, Carried, Facing, Opening, Withdrawn
<1>4. Snapshot(wf, step) /\ ExpiryInv(wf, expiry) /\ StopInv
  BY <1>1, Fresh DEF Init, Snapshot, ExpiryInv, StopInv
<1>5. \A t \in Turns : RowInv(t)
  BY <1>1 DEF RowInv, Unopened
<1>6. \A c \in Callers : CallInv(c)
  BY <1>1 DEF CallInv, Unsent
<1> QED BY <1>1, <1>2, <1>3, <1>4, <1>5, <1>6 DEF IInv

LEMMA StutterKeeps == ASSUME IInv, UNCHANGED vars PROVE IInv' /\ Stays
<1>1. /\ Still /\ UNCHANGED <<call, keys, acknowledged>>
      /\ UNCHANGED <<signals, stopped, budget, delivered, crashes>>
  BY DEF vars, Still
<1>2. Calls' /\ Side' /\ \A c \in Callers : CallInv(c)'
  BY <1>1, Facts, SideSame DEF Calls, CallInv, Still
<1> QED BY <1>1, <1>2, CallMoves

LEMMA StepIInv == ASSUME IInv, [Next]_vars PROVE IInv' /\ Stays
<1>1. CASE WorkflowStep
  BY <1>1, LoadKeeps, DecideKeeps, FinalizeKeeps, OpenInputKeeps, ResolveReviewKeeps,
     OpenConflictKeeps, ReturnOpenedKeeps, AwaitSignalKeeps, AwaitTimeoutKeeps, ReadRequestKeeps,
     ExpireRequestKeeps, ReturnRacedKeeps, ReviseKeeps, ReturnRevisedKeeps, CommitKeeps,
     TerminalizeKeeps, SettleBudgetKeeps, ReturnEndedKeeps, StepFailsKeeps, WorkflowErrsKeeps,
     StoppedKeeps DEF WorkflowStep, Advance
<1>2. ASSUME NEW c \in Callers, CallStep(c) PROVE IInv' /\ Stays
  BY <1>2, AddressKeeps, ReadClockKeeps, AcceptKeeps, ReplayKeeps, RefuseKeeps, AcknowledgeKeeps,
     SignalKeeps, HandlerCrashKeeps, ResendKeeps DEF CallStep
<1>3. CASE Crash \/ RequestCancellation \/ StopRun \/ Discard \/ UNCHANGED vars
  BY <1>3, CrashKeeps, RequestCancellationKeeps, StopRunKeeps, DiscardKeeps, StutterKeeps
<1>4. ASSUME NEW t \in Turns, Elapse(t) PROVE IInv' /\ Stays
  BY <1>4, ElapseKeeps
<1> QED BY <1>1, <1>2, <1>3, <1>4 DEF Next

LEMMA Invariant == Spec => []IInv
<1>1. IInv /\ [Next]_vars => IInv'
  BY StepIInv
<1> QED BY <1>1, InitIInv, PTL DEF Spec

(* Every variable keeps its type: the rows of run, requests, workflow,     *)
(* step and calls, under every interleaving of workflow, callers and       *)
(* operators (InterruptWait as a whole).                                   *)
THEOREM TypeCorrect == Spec => []TypeOK
<1>1. IInv => TypeOK
  BY DEF IInv
<1> QED BY <1>1, Invariant, PTL

(* A waiting run waits on the last request opened, which is there to be    *)
(* answered; an expired request means a failed run; a run that failed or   *)
(* was refused met its deadline or its workflow's terminal step, whichever *)
(* step of the workflow erred, halted or ran again (the transactions of    *)
(* OpenInput, AcceptInput, DecideApproval, expire and Terminalize).        *)
THEOREM RunFollows == Spec => []RunFollowsRequests
<1>1. IInv => RunFollowsRequests
  <2> SUFFICES ASSUME IInv PROVE RunFollowsRequests
    OBVIOUS
  <2>1. WaitsOnOpenRequest
    <3> SUFFICES ASSUME NEW k \in Kinds, run.status = Awaiting[k]
                 PROVE  \E t \in Turns :
                          /\ request[t].kind = k /\ ~request[t].expired
                          /\ request[t].answer \in {"none", "approve"}
                          /\ \A u \in Turns : u > t => request[u].kind = "none"
      BY DEF WaitsOnOpenRequest
    <3>1. /\ wf.turn \in Turns /\ request[wf.turn].kind = k
          /\ request[wf.turn].answer \in {"none", "approve"}
      BY Facts DEF Waits
    <3>2. ~request[wf.turn].expired
      BY <3>1, Facts, Words DEF RowInv
    <3>3. \A u \in Turns : u > wf.turn => request[u].kind = "none"
      BY Positions
    <3> QED BY <3>1, <3>2, <3>3
  <2>2. EndHasCause
    BY Facts DEF EndHasCause, RowInv, Cause, Closed, Concluding
  <2> QED BY <2>1, <2>2 DEF RunFollowsRequests
<1> QED BY <1>1, Invariant, PTL

(* No workflow step that loaded the run earlier and no late answer takes   *)
(* back a run that was cancelled, discarded, failed, refused or committed  *)
(* (the expected versions of the aggregate's writers).                     *)
THEOREM TakenStays == Spec => TakenRunsStay
<1>1. IInv /\ [Next]_vars => [run.status \in Taken => run' = run]_run
  BY StepIInv DEF Stays
<1> QED BY <1>1, Invariant, PTL DEF Spec, TakenRunsStay, Taken

-----------------------------------------------------------------------------
(* Requests and callers as SettledOnce has them.                           *)
Outcome(t) == <<request[t].answer, request[t].expired>>
Outcomes == [t \in Turns |-> Outcome(t)]
Told(c) == <<IF c \in acknowledged THEN call[c].answer ELSE "none", FALSE>>
Tellings == [c \in Callers |-> Told(c)]
Settles == [Settlement!Next]_<<Outcomes, Tellings>>

LEMMA SameOutcome ==
  ASSUME \A t \in Turns : request'[t].answer = request[t].answer /\ request'[t].expired = request[t].expired
  PROVE  Outcomes' = Outcomes
BY DEF Outcomes, Outcome

LEMMA SameTelling ==
  ASSUME UNCHANGED acknowledged, \A c \in acknowledged : call'[c].answer = call[c].answer
  PROVE  Tellings' = Tellings
BY DEF Tellings, Told

(* One request settles.                                                    *)
LEMMA OneSettles ==
  ASSUME NEW t \in Turns, NEW answer, NEW expired, Outcome(t) = <<"none", FALSE>>,
         request' \in [Turns -> RequestRows],
         request'[t].answer = answer, request'[t].expired = expired,
         \A u \in Turns : u # t => request'[u] = request[u],
         <<answer, expired>> \in {<<a, FALSE>> : a \in AnyAnswer} \cup {<<"none", TRUE>>},
         Tellings' = Tellings
  PROVE  Settles
<1>1. Outcomes' = [Outcomes EXCEPT ![t] = <<answer, expired>>]
  BY DEF Outcomes, Outcome
<1>2. Outcomes[t] = <<"none", FALSE>>
  BY DEF Outcomes
<1>3. Settlement!Settle(t, <<answer, expired>>)
  BY <1>1, <1>2 DEF Settlement!Settle, Outcomes, Outcome, Tellings, Told
<1> QED BY <1>3 DEF Settles, Settlement!Next

LEMMA OpenSettles ==
  ASSUME IInv, NEW kind \in Kinds, NEW location, Open(location, kind)
  PROVE  Settles
<1>1. UNCHANGED <<call, acknowledged>> /\ request \in [Turns -> RequestRows]
  BY Facts DEF Open, callVars, Rows
<1>2. ASSUME NEW t \in Turns
      PROVE  request'[t].answer = request[t].answer /\ request'[t].expired = request[t].expired
  <2>1. CASE request' = request
    BY <2>1
  <2>2. CASE /\ request[wf.turn].kind = "none"
             /\ request' = [request EXCEPT ![wf.turn] = [Unopened EXCEPT !.kind = kind]]
    <3>1. CASE t = wf.turn
      <4>1. request[t] = Unopened
        BY <2>2, <3>1, Facts DEF RowInv
      <4> QED BY <1>1, <2>2, <3>1, <4>1 DEF Unopened
    <3>2. CASE t # wf.turn
      BY <1>1, <2>2, <3>2
    <3> QED BY <3>1, <3>2
  <2> QED BY <2>1, <2>2 DEF Open
<1> QED BY <1>1, <1>2, SameOutcome, SameTelling DEF Settles

LEMMA ExpireSettles == ASSUME IInv, ExpireRequest PROVE Settles
<1>1. UNCHANGED <<call, acknowledged>> /\ wf.at = "expire"
  BY DEF ExpireRequest, callVars, In
<1>2. CASE UNCHANGED request
  BY <1>1, <1>2, SameOutcome, SameTelling DEF Settles
<1>3. CASE /\ expiry = NoExpiry /\ request[wf.turn].answer = "none"
           /\ request' = [request EXCEPT ![wf.turn].expired = TRUE]
  <2>1. wf.turn \in Turns /\ request \in [Turns -> RequestRows]
    BY <1>1, Facts DEF Placed, Facing, Rows
  <2>2. request[wf.turn] \in RequestRows /\ ~request[wf.turn].expired
    BY <1>1, <1>3, <2>1, Facts DEF RowInv, ExpiryInv
  <2>3. Outcome(wf.turn) = <<"none", FALSE>>
    BY <1>3, <2>2 DEF Outcome, RequestRows
  <2>4. [request[wf.turn] EXCEPT !.expired = TRUE] \in RequestRows
    BY <2>2 DEF RequestRows
  <2>5. /\ request' \in [Turns -> RequestRows]
        /\ request'[wf.turn] = [request[wf.turn] EXCEPT !.expired = TRUE]
        /\ \A u \in Turns : u # wf.turn => request'[u] = request[u]
    BY <1>3, <2>1, <2>4
  <2>6. request'[wf.turn].answer = "none" /\ request'[wf.turn].expired = TRUE
    BY <1>3, <2>2, <2>5 DEF RequestRows
  <2> QED BY <1>1, <2>1, <2>3, <2>5, <2>6, SameTelling, OneSettles
<1> QED BY <1>2, <1>3 DEF ExpireRequest

LEMMA AcceptSettles == ASSUME IInv, NEW c \in Callers, Accept(c) PROVE Settles
<1> DEFINE u == wf.turn
           a == call[c].answer
<1>1. /\ u \in Turns /\ request[u].answer = "none" /\ ~request[u].expired
      /\ request[u].kind \in Kinds /\ a \in Answers[request[u].kind]
      /\ request' = [request EXCEPT ![u].answer = a]
      /\ call' = [call EXCEPT ![c].at = "acknowledge"] /\ UNCHANGED acknowledged
  BY AcceptFacts
<1>2. request \in [Turns -> RequestRows] /\ call \in [Callers -> CallRows] /\ acknowledged \subseteq Callers
  BY Facts DEF Rows, Calls
<1>3. a \in AnyAnswer
  BY <1>1, Words
<1>4. Outcome(u) = <<"none", FALSE>>
  BY <1>1, <1>2 DEF Outcome, RequestRows
<1>5. [request[u] EXCEPT !.answer = a] \in RequestRows
  BY <1>1, <1>2, <1>3 DEF RequestRows
<1>6. /\ request' \in [Turns -> RequestRows] /\ request'[u] = [request[u] EXCEPT !.answer = a]
      /\ \A t \in Turns : t # u => request'[t] = request[t]
  BY <1>1, <1>2, <1>5
<1>7. request'[u].answer = a /\ request'[u].expired = FALSE
  BY <1>1, <1>2, <1>6 DEF RequestRows
<1>8. Tellings' = Tellings
  <2>1. \A d \in acknowledged : call'[d].answer = call[d].answer
    BY <1>1, <1>2 DEF CallRows
  <2> QED BY <1>1, <2>1, SameTelling
<1>9. <<a, FALSE>> \in {<<b, FALSE>> : b \in AnyAnswer} \cup {<<"none", TRUE>>}
  BY <1>3
<1> HIDE DEF u, a
<1> QED BY <1>1, <1>4, <1>6, <1>7, <1>8, <1>9, OneSettles

LEMMA AcknowledgeSettles == ASSUME IInv, NEW c \in Callers, Acknowledge(c) PROVE Settles
<1> DEFINE t == RequestOf[c]
<1>1. /\ call[c].at = "acknowledge" /\ UNCHANGED request
      /\ call' = [call EXCEPT ![c].at = "signal"] /\ acknowledged' = acknowledged \cup {c}
  BY DEF Acknowledge, requestVars
<1>2. /\ t \in Turns /\ request[t] \in RequestRows /\ call \in [Callers -> CallRows]
      /\ acknowledged \subseteq Callers /\ CallInv(c) /\ RowInv(t)
  BY Facts, Numbers DEF Rows, Calls
<1>3. request[t].answer = call[c].answer /\ call[c].answer # "none" /\ request[t].expired = FALSE
  <2>1. c \in keys /\ request[t].kind \in Kinds /\ call[c].answer \in Answers[request[t].kind]
    BY <1>1, <1>2 DEF CallInv, RequestRows
  <2>2. call[c].answer # "none" /\ request[t].answer = call[c].answer
    BY <1>2, <2>1, Words DEF CallInv
  <2> QED BY <1>2, <2>2 DEF RowInv, RequestRows
<1>4. Outcomes' = Outcomes /\ Outcomes[t] = <<call[c].answer, FALSE>>
  BY <1>1, <1>2, <1>3 DEF Outcomes, Outcome
<1>5. \A d \in Callers : call'[d].answer = call[d].answer
  BY <1>1, <1>2 DEF CallRows
<1>6. \A d \in Callers : Told(d)' = IF d = c THEN <<call[c].answer, FALSE>> ELSE Told(d)
  <2> SUFFICES ASSUME NEW d \in Callers
               PROVE  Told(d)' = IF d = c THEN <<call[c].answer, FALSE>> ELSE Told(d)
    OBVIOUS
  <2>1. CASE d = c
    <3>1. d \in acknowledged' /\ call'[d].answer = call[c].answer
      BY <1>1, <1>5, <2>1
    <3> QED BY <2>1, <3>1 DEF Told
  <2>2. CASE d # c
    <3>1. (d \in acknowledged' <=> d \in acknowledged) /\ call'[d].answer = call[d].answer
      BY <1>1, <1>5, <2>2
    <3>2. Told(d)' = Told(d)
      BY <3>1 DEF Told
    <3> QED BY <2>2, <3>2
  <2> QED BY <2>1, <2>2
<1>7. Tellings' = [Tellings EXCEPT ![c] = Outcomes[t]]
  BY <1>4, <1>6 DEF Tellings
<1>8. <<call[c].answer, FALSE>> # <<"none", FALSE>>
  BY <1>3
<1>9. Settlement!Answer(c)
  BY <1>4, <1>7, <1>8 DEF Settlement!Answer, Outcomes, Outcome, Tellings, Told
<1> QED BY <1>9 DEF Settles, Settlement!Next

(* The other steps settle nothing and tell nobody.                         *)
LEMMA CallStutters ==
  ASSUME IInv, NEW c \in Callers,
         \/ \E answer \in AnyAnswer : Address(c, answer)
         \/ ReadClock(c) \/ Replay(c) \/ Refuse(c) \/ Signal(c) \/ HandlerCrash(c) \/ Resend(c)
  PROVE  Settles
<1>1. UNCHANGED <<request, acknowledged>>
  BY DEF Address, ReadClock, Replay, Refuse, Signal, HandlerCrash, Resend, requestVars
<1>2. call \in [Callers -> CallRows] /\ acknowledged \subseteq Callers
  BY Facts DEF Calls
<1>3. \A d \in acknowledged : call'[d].answer = call[d].answer
  <2> SUFFICES ASSUME NEW d \in acknowledged PROVE call'[d].answer = call[d].answer
    OBVIOUS
  <2>1. call[d].at # "idle" /\ d \in Callers
    BY <1>2, Facts DEF CallInv
  <2>2. ASSUME NEW answer \in AnyAnswer, Address(c, answer) PROVE call'[d] = call[d]
    BY <1>2, <2>1, <2>2 DEF Address
  <2>3. ASSUME NEW at, call' = [call EXCEPT ![c].at = at] PROVE call'[d].answer = call[d].answer
    BY <1>2, <2>1, <2>3 DEF CallRows
  <2>4. ASSUME ReadClock(c) PROVE call'[d].answer = call[d].answer
    BY <1>2, <2>1, <2>4 DEF ReadClock, CallRows
  <2> QED BY <2>2, <2>3, <2>4 DEF Replay, Refuse, Signal, HandlerCrash, Resend
<1> QED BY <1>1, <1>3, SameOutcome, SameTelling DEF Settles

LEMMA StepSettles == ASSUME IInv, [Next]_vars PROVE Settles
<1>1. UNCHANGED <<request, call, acknowledged>> => Settles
  BY SameOutcome, SameTelling DEF Settles
<1>2. CASE WorkflowStep
  <2>1. CASE OpenInput \/ ResolveReview
    BY <2>1, OpenSettles, Words DEF OpenInput, ResolveReview
  <2>2. CASE Engine \/ AwaitSignal
    BY <1>1, <2>2 DEF Engine, AwaitSignal, requestVars, callVars
  <2> QED BY <1>2, <2>1, <2>2, ExpireSettles DEF WorkflowStep, Advance, Load, Decide, Finalize, OpenConflict,
             ReturnOpened, AwaitTimeout, ReadRequest, ReturnRaced, Revise, ReturnRevised, Commit,
             Terminalize, SettleBudget, ReturnEnded, StepFails, WorkflowErrs, Stopped
<1>3. ASSUME NEW c \in Callers, CallStep(c) PROVE Settles
  BY <1>3, AcceptSettles, AcknowledgeSettles, CallStutters DEF CallStep
<1>4. CASE Crash \/ RequestCancellation \/ StopRun \/ Discard \/ (\E t \in Turns : Elapse(t))
  BY <1>1, <1>4 DEF Crash, RequestCancellation, StopRun, Discard, Elapse, OthersCall, requestVars, callVars
<1>5. CASE UNCHANGED vars
  BY <1>1, <1>5 DEF vars
<1> QED BY <1>2, <1>3, <1>4, <1>5 DEF Next

(* Input and approval requests implement SettledOnce: a request settles    *)
(* once, on one answer or on expiry and never both, and a caller is        *)
(* acknowledged only with the answer that settled it (AcceptInput,         *)
(* DecideApproval and expire, under the lock on the request's row).        *)
THEOREM RequestsSettle == Spec => RequestsSettleOnce
<1>1. Init => Settlement!Init
  <2> SUFFICES ASSUME Init PROVE Settlement!Init
    OBVIOUS
  <2>1. /\ Outcomes = [t \in Turns |-> <<"none", FALSE>>]
        /\ Tellings = [c \in Callers |-> <<"none", FALSE>>]
    BY DEF Init, Outcomes, Outcome, Tellings, Told, Unopened
  <2> QED BY <2>1 DEF Settlement!Init, Outcomes, Outcome, Tellings, Told
<1>2. IInv /\ [Next]_vars => Settles
  BY StepSettles
<1> QED BY <1>1, <1>2, Invariant, PTL
        DEF Spec, RequestsSettleOnce, Settlement!Spec, Settles, Outcomes, Outcome, Tellings, Told
=============================================================================
