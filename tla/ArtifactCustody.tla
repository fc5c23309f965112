-------------------------- MODULE ArtifactCustody ---------------------------
(***************************************************************************)
(* The life of one immutable artifact: executions of the workflow record   *)
(* and advance it, custodians place and lift its legal hold and destroy    *)
(* it, the retention sweep expires it and finishes interrupted             *)
(* destructions, readers are granted and use access.                       *)
(*                                                                         *)
(* Custody decisions go through the protected audit: an identity of action *)
(* and version, authorized before the change, closed with its outcome      *)
(* after it.  Every store, object, reader and audit call is a step of its  *)
(* own; a process may die, or have a call fail, between any two.           *)
(*                                                                         *)
(* A failing call of an unclear kind leaves the decision open and ends the *)
(* operation, which is Interrupt.  The terms of a decision are its actor,  *)
(* reason, ticket and trace together; every sweep opens a trace of its own,*)
(* so its terms equal those of no other attempt.  Left out: checks that    *)
(* refuse a caller before anything is written, the journal receipt that    *)
(* follows an outcome, content under a claimed digest it does not have     *)
(* beyond the state it is recorded in, and the clock's monotonicity guard. *)
(***************************************************************************)
EXTENDS Integers

CONSTANTS
  Custodians,  \* custody commands in flight
  Sweepers,    \* instances that run the retention sweep
  Writers,     \* executions that record and advance the artifact
  Readers,     \* actors that hold one grant each
  Purposes,    \* purposes a reader asks for
  Terms,       \* terms a custodian decides on; a repeated command has the same
  Swept,       \* the terms of a sweep
  None,
  MaxVersion,  \* bound: the artifact is moved, held and released below this version
  MaxFaults    \* bound: deaths and failing calls, and losses of the object

Live == {"pending", "scanning", "valid", "finalized", "committed"}
Revocable == {"quarantined", "expired"}

\* eligible: the states in which each purpose may be granted and used
Eligible == [scan     |-> {"pending", "scanning"},
             read     |-> {"valid", "finalized", "committed"},
             finalize |-> {"valid"},
             commit   |-> {"finalized"}]

ASSUME CustodyAssumption ==
  /\ MaxVersion \in Nat /\ MaxFaults \in Nat
  /\ Purposes \subseteq DOMAIN Eligible
  /\ Swept \notin Terms

VARIABLES
  record,  \* the metadata row
  object,  \* the bytes in the object store: restored are those put back after an erasure
  aged,    \* the pending record has outlived its time to live
  grant,   \* the grant of each reader, with its audited row, and the use of it
  audit,   \* the protected audit: terms and outcome of each decision
  task,    \* local state of each process between two calls
  faults

vars == <<record, object, aged, grant, audit, task, faults>>

Processes == Custodians \cup Sweepers \cup Writers

Actions == {"place", "lift", "delete", "expire"}
\* The states of the object in which there are bytes, and those after an erasure.
Present == {"stored", "restored"}
Destroyed == {"erased", "restored"}

Decisions == Actions \X (1..(MaxVersion + 2))

ASSUME NoneAssumption == None \notin Decisions

Undecided == [terms |-> None, outcome |-> "none"]
Ungranted == [at |-> "idle", purpose |-> None, generation |-> 0, revoked |-> FALSE]
Unrecorded == [state |-> "absent", version |-> 0, generation |-> 0, hold |-> FALSE,
               claim |-> None]
Unseen == [state |-> "absent", version |-> 0, hold |-> FALSE]
Idle == [at |-> "idle", decision |-> None, terms |-> None, seen |-> Unseen,
         gone |-> FALSE, next |-> "none", result |-> "none"]

Init ==
  /\ record = Unrecorded
  /\ object = "none"
  /\ aged = FALSE
  /\ grant = [r \in Readers |-> Ungranted]
  /\ audit = [d \in Decisions |-> Undecided]
  /\ task = [p \in Processes |-> Idle]
  /\ faults = 0

-----------------------------------------------------------------------------
(* Steps shared by the processes.                                          *)

At(p, step) == task[p].at = step
Deciding(p) == task[p].decision[1]
Expected(p) == task[p].decision[2]

\* What an operation uses later of the row it read.
Seen(row) == [state |-> row.state, version |-> row.version, hold |-> row.hold]

Go(p, step) == task' = [task EXCEPT ![p].at = step]
GoSeeing(p, step, row) == task' = [task EXCEPT ![p].at = step, ![p].seen = Seen(row)]
Done(p) == task' = [task EXCEPT ![p] = Idle]
Conclude(p, result) == task' = [task EXCEPT ![p].at = "record", ![p].result = result]
Begin(p, step, decision, terms) ==
  task' = [task EXCEPT ![p].at = step, ![p].decision = decision, ![p].terms = terms,
                       ![p].seen = Seen(record)]

\* Mutant of Current: the write does not compare the version.
CurrentAlways(p) == TRUE

\* The compare-and-set of store.Update and ClaimDeletion on the version read.
Current(p) == record.version = task[p].seen.version

Moved(row, state) == [row EXCEPT !.state = state, !.version = @ + 1]
Withdrawn(row, state) == [Moved(row, state) EXCEPT !.generation = @ + 1]

Revoked == [r \in Readers |->
              IF grant[r].at \in {"idle", "signing"} THEN grant[r]
              ELSE [grant[r] EXCEPT !.revoked = TRUE]]

(* A process dies, or a call of its operation fails without a verdict.     *)
Interrupt(p) ==
  /\ ~At(p, "idle") /\ faults < MaxFaults
  /\ Done(p)
  /\ faults' = faults + 1
  /\ UNCHANGED <<record, object, aged, grant, audit>>

(* Bytes vanish from the object store.                                     *)
LoseObject ==
  /\ object = "stored" /\ faults < MaxFaults
  /\ object' = "lost"
  /\ faults' = faults + 1
  /\ UNCHANGED <<record, aged, grant, audit, task>>

(* Time passes beyond the time to live of a pending record.                *)
Age ==
  /\ record.state = "pending" /\ ~aged
  /\ aged' = TRUE
  /\ UNCHANGED <<record, object, grant, audit, task, faults>>

-----------------------------------------------------------------------------
(* Executions of the workflow.                                             *)

(* Create looks the record up; one that is there answers the execution.    *)
Lookup(w) ==
  /\ At(w, "idle") /\ record = Unrecorded
  /\ Go(w, "put")
  /\ UNCHANGED <<record, object, aged, grant, audit, faults>>

(* PutOnce writes what is absent and leaves what is there.  Others may     *)
(* have recorded, and even destroyed, the artifact since the look-up.      *)
Put(w) ==
  /\ At(w, "put")
  /\ object' = IF object \in Destroyed THEN "restored" ELSE "stored"
  /\ Go(w, "create")
  /\ UNCHANGED <<record, aged, grant, audit, faults>>

(* Bytes whose digest is not the claimed one are recorded quarantined; an  *)
(* execution that finds the record adopts it.                              *)
Create(w) ==
  /\ At(w, "create")
  /\ \/ /\ record = Unrecorded
        /\ \E state \in {"pending", "quarantined"} :
             record' = [Unrecorded EXCEPT !.state = state, !.version = 1, !.generation = 1]
     \/ /\ record # Unrecorded
        /\ UNCHANGED record
  /\ Done(w)
  /\ UNCHANGED <<object, aged, grant, audit, faults>>

Forward == [pending |-> "scanning", scanning |-> "valid", valid |-> "finalized",
            finalized |-> "committed"]

(* advance walks the record one state on; Transition may also quarantine   *)
(* or expire it, which no hold allows.                                     *)
Load(w) ==
  /\ At(w, "idle") /\ record.state \in Live /\ record.version < MaxVersion
  /\ \/ /\ record.state \in DOMAIN Forward
        /\ task' = [task EXCEPT ![w].at = "move", ![w].seen = Seen(record),
                                ![w].next = Forward[record.state]]
     \/ \E state \in Revocable :
          /\ ~(state = "expired" /\ record.hold)
          /\ task' = [task EXCEPT ![w].at = "withdraw", ![w].seen = Seen(record), ![w].next = state]
  /\ UNCHANGED <<record, object, aged, grant, audit, faults>>

Withdraw(w) ==
  /\ At(w, "withdraw")
  /\ grant' = Revoked
  /\ Go(w, "move")
  /\ UNCHANGED <<record, object, aged, audit, faults>>

Move(w) ==
  /\ At(w, "move")
  /\ record' = IF ~Current(w) THEN record
               ELSE IF task[w].next \in Revocable THEN Withdrawn(record, task[w].next)
               ELSE Moved(record, task[w].next)
  /\ Done(w)
  /\ UNCHANGED <<object, aged, grant, audit, faults>>

-----------------------------------------------------------------------------
(* The protected audit.                                                    *)

SameTerms(recorded, offered) == recorded = offered /\ offered # Swept

(* authorize records the decision or adopts the recorded one of the same   *)
(* terms; a decision already closed is answered from its outcome.          *)
Authorize(p) ==
  /\ At(p, "authorize")
  /\ LET d == task[p].decision IN
       \/ /\ audit[d] = Undecided
          /\ audit' = [audit EXCEPT ![d] = [terms |-> task[p].terms, outcome |-> "open"]]
          /\ Go(p, "change")
       \/ /\ audit[d] # Undecided
          /\ IF SameTerms(audit[d].terms, task[p].terms) /\ audit[d].outcome = "open"
             THEN Go(p, "change")
             ELSE Done(p)
          /\ UNCHANGED audit
  /\ UNCHANGED <<record, object, aged, grant, faults>>

(* ResumeMutation under the claim's decision authorizes nothing.           *)
Adopt(p) ==
  /\ record.claim # None /\ record.state # "deleted"
  /\ audit[record.claim].outcome = "open"
  /\ Begin(p, "change", record.claim, None)

(* The outcome is recorded once; another verdict over it is a conflict.    *)
RecordOutcome(p) ==
  /\ At(p, "record")
  /\ LET d == task[p].decision
         agreed == audit[d].outcome \in {"open", task[p].result}
     IN /\ audit' = IF agreed THEN [audit EXCEPT ![d].outcome = task[p].result] ELSE audit
        /\ IF agreed /\ task[p].result = "applied" /\ Deciding(p) = "expire"
           THEN Go(p, "expired")
           ELSE Done(p)
  /\ UNCHANGED <<record, object, aged, grant, faults>>

-----------------------------------------------------------------------------
(* Custodians.                                                             *)

(* SetLegalHold at the version the custodian observed, or at the one after *)
(* it when the hold is already as asked.  A claimed artifact takes none.   *)
AskHold(c) ==
  /\ At(c, "idle") /\ record # Unrecorded /\ record.claim = None
  /\ record.version < MaxVersion
  /\ \E action \in {"place", "lift"}, expected \in {record.version, record.version - 1},
        terms \in Terms :
       /\ expected > 0
       /\ expected = record.version \/ record.hold = (action = "place")
       /\ Begin(c, "authorize", <<action, expected>>, terms)
  /\ UNCHANGED <<record, object, aged, grant, audit, faults>>

(* Delete of an unheld artifact; one that is claimed is finished instead.  *)
AskDelete(c) ==
  /\ At(c, "idle") /\ record # Unrecorded
  /\ \/ /\ record.claim = None /\ ~record.hold
        /\ \E terms \in Terms : Begin(c, "authorize", <<"delete", record.version>>, terms)
     \/ Adopt(c)
  /\ UNCHANGED <<record, object, aged, grant, audit, faults>>

SetHold(c) ==
  /\ At(c, "change") /\ Deciding(c) \in {"place", "lift"}
  /\ LET wanted == Deciding(c) = "place"
         applied == /\ record.version = Expected(c) + 1
                    /\ record.hold = wanted /\ record.claim = None
     IN IF task[c].seen.version = Expected(c) /\ Current(c)
        THEN /\ record' = [record EXCEPT !.hold = wanted, !.version = @ + 1]
             /\ Conclude(c, "applied")
        ELSE /\ UNCHANGED record
             /\ Conclude(c, IF task[c].seen.version # Expected(c) \/ applied
                            THEN "applied" ELSE "conflict")
  /\ UNCHANGED <<object, aged, grant, audit, faults>>

-----------------------------------------------------------------------------
(* Destruction: claim, revoke, erase, tombstone.                           *)

(* Mutant of Claimable: the claim trusts the row its caller read.          *)
ClaimableAsRead(p) == ~task[p].seen.hold /\ record.claim = None

Claimable(p) == Current(p) /\ ~record.hold /\ record.claim = None

Claim(p) ==
  /\ At(p, "change") /\ Deciding(p) = "delete"
  /\ LET terminal == IF task[p].seen.state = "quarantined" THEN "quarantined" ELSE "expired"
         claimed == [Withdrawn(record, terminal) EXCEPT !.claim = task[p].decision]
         mine == record.claim = task[p].decision
     IN \/ /\ Claimable(p)
           /\ record' = claimed
           /\ GoSeeing(p, "revoke", claimed)
        \/ /\ ~Claimable(p) /\ mine /\ record.state # "deleted"
           /\ GoSeeing(p, "revoke", record)
           /\ UNCHANGED record
        \/ /\ ~Claimable(p) /\ (mine => record.state = "deleted")
           /\ Conclude(p, CASE mine -> "applied"
                            [] ~mine /\ record.claim = None /\ record.hold -> "denied"
                            [] OTHER -> "conflict")
           /\ UNCHANGED record
  /\ UNCHANGED <<object, aged, grant, audit, faults>>

Revoke(p) ==
  /\ At(p, "revoke") \/ (At(p, "change") /\ Deciding(p) = "expire")
  /\ grant' = Revoked
  /\ Go(p, IF Deciding(p) = "expire" THEN "expire" ELSE "erase")
  /\ UNCHANGED <<record, object, aged, audit, faults>>

Erase(p) ==
  /\ At(p, "erase")
  /\ object' = "erased"
  /\ Go(p, "tombstone")
  /\ UNCHANGED <<record, aged, grant, audit, faults>>

(* Mutant of Tombstone: a tombstone that landed already is not recognised. *)
TombstoneOwn(p) ==
  /\ At(p, "tombstone")
  /\ record' = IF Current(p) THEN Withdrawn(record, "deleted") ELSE record
  /\ Conclude(p, IF Current(p) THEN "applied" ELSE "conflict")
  /\ UNCHANGED <<object, aged, grant, audit, faults>>

Tombstone(p) ==
  /\ At(p, "tombstone")
  /\ LET landed == record.state = "deleted" /\ record.claim = task[p].decision IN
       /\ record' = IF Current(p) THEN Withdrawn(record, "deleted") ELSE record
       /\ Conclude(p, IF Current(p) \/ landed THEN "applied" ELSE "conflict")
  /\ UNCHANGED <<object, aged, grant, audit, faults>>

-----------------------------------------------------------------------------
(* The retention sweep.                                                    *)

(* Mutant of SweepRead: only a record whose object is missing is finished. *)
SweepReadMissing(s) ==
  /\ At(s, "idle") /\ record.state \notin {"absent", "deleted"}
  /\ \/ object \notin Present /\ Adopt(s)
     \/ /\ record.claim = None
        /\ GoSeeing(s, "exists", record)
  /\ UNCHANGED <<record, object, aged, grant, audit, faults>>

(* An owned destruction is finished first; any other record is looked at   *)
(* with its object.                                                        *)
SweepRead(s) ==
  /\ At(s, "idle") /\ record.state \notin {"absent", "deleted"}
  /\ \/ Adopt(s)
     \/ /\ record.claim = None
        /\ GoSeeing(s, "exists", record)
  /\ UNCHANGED <<record, object, aged, grant, audit, faults>>

Retired(row) == row.state = "pending" /\ aged /\ ~row.hold

SweepDecide(s, row, gone, decision) ==
  task' = [task EXCEPT ![s] = [Idle EXCEPT !.at = "authorize", !.decision = decision,
                                 !.terms = Swept, !.seen = Seen(row), !.gone = gone]]

SweepExists(s) ==
  /\ At(s, "exists")
  /\ LET row == task[s].seen
         gone == object \notin Present
     IN \/ /\ Retired(row) \/ (gone /\ row.state \in Live)
           /\ SweepDecide(s, row, gone, <<"expire", row.version>>)
        \/ /\ gone /\ row.state \in Revocable
           /\ SweepDecide(s, row, gone, <<"delete", row.version>>)
        \/ /\ ~Retired(row) /\ ~gone
           /\ Done(s)
  /\ UNCHANGED <<record, object, aged, grant, audit, faults>>

SweepExpire(s) ==
  /\ At(s, "expire")
  /\ LET landed == record.version = Expected(s) + 1 /\ record.state = "expired" IN
       /\ record' = IF Current(s) THEN Withdrawn(record, "expired") ELSE record
       /\ Conclude(s, IF Current(s) \/ landed THEN "applied" ELSE "conflict")
  /\ UNCHANGED <<object, aged, grant, audit, faults>>

(* An expired record whose object is gone goes on to its tombstone.        *)
SweepExpired(s) ==
  /\ At(s, "expired")
  /\ IF task[s].gone /\ record.state # "deleted"
     THEN SweepDecide(s, record, TRUE, IF record.claim # None THEN record.claim
                                     ELSE <<"delete", record.version>>)
     ELSE Done(s)
  /\ UNCHANGED <<record, object, aged, grant, audit, faults>>

-----------------------------------------------------------------------------
(* Readers.                                                                *)

Grant(r) ==
  /\ grant[r].at = "idle"
  /\ \E purpose \in Purposes :
       /\ record.state \in Eligible[purpose]
       /\ grant' = [grant EXCEPT ![r] = [at |-> "signing", purpose |-> purpose,
                      generation |-> record.generation, revoked |-> FALSE]]
  /\ UNCHANGED <<record, object, aged, audit, task, faults>>

(* SignRead inserts the audited row before the capability leaves.          *)
Sign(r) ==
  /\ grant[r].at = "signing"
  /\ grant' = [grant EXCEPT ![r].at = "held"]
  /\ UNCHANGED <<record, object, aged, audit, task, faults>>

(* UseGrant reads the record, then verifies the capability's own row.      *)
Use(r) ==
  /\ grant[r].at \in {"held", "admitted"}
  /\ grant[r].generation = record.generation
  /\ record.state \in Eligible[grant[r].purpose]
  /\ grant' = [grant EXCEPT ![r].at = "verifying"]
  /\ UNCHANGED <<record, object, aged, audit, task, faults>>

(* Mutant of Verify: the signature is checked and the revocation is not.   *)
VerifySigned(r) ==
  /\ grant[r].at = "verifying"
  /\ grant' = [grant EXCEPT ![r].at = "admitted"]
  /\ UNCHANGED <<record, object, aged, audit, task, faults>>

Verify(r) ==
  /\ grant[r].at = "verifying"
  /\ grant' = [grant EXCEPT ![r].at = IF grant[r].revoked THEN "held" ELSE "admitted"]
  /\ UNCHANGED <<record, object, aged, audit, task, faults>>

-----------------------------------------------------------------------------
WriterStep(w) == Lookup(w) \/ Put(w) \/ Create(w) \/ Load(w) \/ Withdraw(w) \/ Move(w)
CustodianStep(c) == AskHold(c) \/ AskDelete(c) \/ SetHold(c)
SweepStep(s) == SweepRead(s) \/ SweepExists(s) \/ SweepExpire(s) \/ SweepExpired(s)
DecisionStep(p) == Authorize(p) \/ Claim(p) \/ Revoke(p) \/ Erase(p) \/ Tombstone(p)
                   \/ RecordOutcome(p)
ReaderStep(r) == Grant(r) \/ Sign(r) \/ Use(r) \/ Verify(r)

Step(p) ==
  \/ p \in Writers /\ WriterStep(p)
  \/ p \in Custodians /\ CustodianStep(p)
  \/ p \in Sweepers /\ SweepStep(p)
  \/ DecisionStep(p)

Next ==
  \/ \E p \in Processes : Step(p) \/ Interrupt(p)
  \/ \E r \in Readers : ReaderStep(r)
  \/ LoseObject \/ Age

Spec == Init /\ [][Next]_vars

(* Calls return, and the sweep comes back for as long as the service runs, *)
(* beside whatever else its process does.                                  *)
LiveSpec ==
  /\ Spec
  /\ \A p \in Processes : WF_vars(Step(p) /\ ~At(p, "idle"))
  /\ \A s \in Sweepers : SF_vars(SweepRead(s))

-----------------------------------------------------------------------------
Rows == [state : Live \cup Revocable \cup {"absent", "deleted"}, version : Nat,
         generation : Nat, hold : BOOLEAN, claim : Decisions \cup {None}]

SeenRows == [state : Live \cup Revocable \cup {"absent"}, version : Nat, hold : BOOLEAN]

(* Every variable has its type.                                            *)
TypeOK ==
  /\ record \in Rows
  /\ object \in {"none", "stored", "lost"} \cup Destroyed
  /\ aged \in BOOLEAN
  /\ grant \in [Readers -> [at : {"idle", "signing", "held", "verifying", "admitted"},
                            purpose : Purposes \cup {None}, generation : Nat,
                            revoked : BOOLEAN]]
  /\ audit \in [Decisions -> [terms : Terms \cup {Swept, None},
                              outcome : {"none", "open", "applied", "denied", "conflict"}]]
  /\ task \in [Processes -> [at : {"idle", "put", "create", "withdraw", "move", "authorize", "change",
                                   "revoke", "erase", "tombstone", "expire", "exists",
                                   "expired", "record"},
                             decision : Decisions \cup {None},
                             terms : Terms \cup {Swept, None}, seen : SeenRows, gone : BOOLEAN,
                             next : Live \cup Revocable \cup {"none"},
                             result : {"none", "applied", "denied", "conflict"}]]
  /\ faults \in 0..MaxFaults

(* Content under a legal hold is never destroyed, whatever the hold raced  *)
(* with (destroy's claim before its irreversible half).                    *)
HeldContentSurvives == record.hold => object \notin Destroyed

(* Content is destroyed only after a decision to delete it was recorded    *)
(* and took the claim, and a tombstone stands only over an artifact whose  *)
(* content its owner has erased (destroy's order of claim, revoke, erase,  *)
(* tombstone).  The tombstone may stand over bytes again: an execution     *)
(* that had looked the artifact up before it was recorded puts them back,  *)
(* against artifacts.go:246, and nothing looks at that object any more.    *)
DestructionIsOwned ==
  /\ object \in Destroyed => /\ record.claim # None /\ record.state \notin Live
                             /\ audit[record.claim].outcome \in {"open", "applied"}
  /\ record.state = "deleted" => object \in Destroyed /\ record.claim # None

(* The audit's verdict on a destruction or an expiry is what happened, by  *)
(* whichever process closed it: applied means the record has left its live *)
(* states, or is a tombstone, and refused means the decision never took    *)
(* the artifact (finish, destroy and expire converge).                     *)
AuditIsTrue == \A d \in Decisions :
  /\ d[1] = "delete" /\ audit[d].outcome = "applied" =>
       record.state = "deleted" /\ record.claim = d
  /\ d[1] = "expire" /\ audit[d].outcome = "applied" => record.state \notin Live
  /\ audit[d].outcome \in {"denied", "conflict"} => record.claim # d

(* No access is admitted once the content is destroyed, not even to bytes  *)
(* put back, although grants are signed and used beside the destruction    *)
(* (generation and revocation together).                                   *)
NoAccessAfterErasure ==
  [][\A r \in Readers : grant[r].at # "admitted" /\ grant'[r].at = "admitted"
                        => object' \notin Destroyed]_vars

(* A claimed destruction is finished, by a sweep of any instance, whoever  *)
(* died holding it (reconcileOne before anything else).                    *)
ClaimedIsDestroyed == record.claim # None ~> record.state = "deleted"

=============================================================================
