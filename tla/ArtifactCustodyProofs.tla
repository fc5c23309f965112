------------------------ MODULE ArtifactCustodyProofs ------------------------
(***************************************************************************)
(* For any custodians, sweepers, executions, readers, versions and faults: *)
(* content under a hold survives, a destruction has an owner, the audit's  *)
(* verdicts are what happened and no access follows an erasure.            *)
(***************************************************************************)
EXTENDS ArtifactCustody, TLAPS

(* A version belongs to one row; a claim is a recorded decision to delete, *)
(* taken on an unheld row, and is what the destruction belongs to.         *)
RecordInv ==
  /\ record.version = 0 <=> record.state = "absent"
  /\ record.state = "absent" => record = Unrecorded
  /\ record.state \in Live => record.version <= MaxVersion + 1
  /\ record.claim = None => record.version <= MaxVersion + 2
  /\ record.claim # None =>
       /\ record.claim[1] = "delete" /\ record.claim[2] < record.version
       /\ ~record.hold /\ record.state \in Revocable \cup {"deleted"}
       /\ audit[record.claim].outcome \in {"open", "applied"}
  /\ record.state = "deleted" => record.claim # None /\ object \in Destroyed
  /\ object \in Destroyed => record.claim # None

(* The decision d to delete can no longer take the artifact.               *)
Refused(d) ==
  /\ record.claim # d
  /\ record.version > d[2] \/ (record.version = d[2] /\ record.hold)

Verdict(d, outcome) ==
  /\ d[1] = "delete" /\ outcome = "applied" => record.state = "deleted" /\ record.claim = d
  /\ d[1] = "delete" /\ outcome \in {"denied", "conflict"} => Refused(d)
  /\ d[1] = "expire" /\ outcome = "applied" => record.state \notin Live \cup {"absent"}

AuditInv == \A d \in Decisions : Verdict(d, audit[d].outcome)

(* A grant in use is for a purpose.                                        *)
GrantInv == \A r \in Readers : grant[r].at # "idle" => grant[r].purpose \in Purposes

(* What is being verified was revoked.                                     *)
Barred == \A r \in Readers : grant[r].at = "verifying" => grant[r].revoked

Destroying == {"revoke", "erase", "tombstone"}
Asked == {"authorize", "change"}

(* What a process between two calls may rely on.                           *)
StepInv(p) ==
  LET t == task[p]
      d == t.decision
  IN
  /\ t.seen.version <= record.version
  /\ t.seen.version = record.version => t.seen = Seen(record)
  /\ t.at \in {"move", "withdraw"} =>
       t.seen.state \in Live /\ t.seen.version < MaxVersion /\ t.next # "none"
  /\ t.at = "exists" => t.seen.version \in 1..(MaxVersion + 2)
                        /\ (t.seen.version = record.version => record.claim = None)
  /\ t.at \in Asked \cup Destroying \cup {"expire", "record"} => d \in Decisions
  /\ t.at \in Asked /\ d[1] \in {"place", "lift"} =>
       t.seen.version < MaxVersion /\ (t.seen.version = record.version => record.claim = None)
  /\ t.at \in Asked /\ d[1] = "delete" =>
       \/ record.claim = d
       \/ /\ t.seen.version = d[2]
          /\ t.seen.version = record.version => record.claim = None
  /\ t.at \in Asked \cup {"expire"} /\ d[1] = "expire" =>
       t.seen.state \in Live /\ t.seen.version = d[2]
  /\ t.at \in Destroying \cup {"change", "expire", "record"} => audit[d].outcome # "none"
  /\ t.at = "expire" => d[1] = "expire"
  /\ t.at \in Destroying =>
       /\ d[1] = "delete" /\ record.claim = d
       /\ record.state = "deleted" \/ t.seen.version = record.version
  /\ t.at = "tombstone" => object \in Destroyed
  /\ t.at \in {"erase", "tombstone"} => Barred
  /\ t.at = "record" => t.result # "none" /\ Verdict(d, t.result)
  /\ t.at = "expired" => record.state # "absent"

IInv ==
  /\ TypeOK /\ RecordInv /\ AuditInv /\ GrantInv
  /\ object \in Destroyed => Barred
  /\ \A p \in Processes : StepInv(p)

-----------------------------------------------------------------------------
Local == [at : {"idle", "put", "create", "withdraw", "move", "authorize", "change", "revoke", "erase",
                "tombstone", "expire", "exists", "expired", "record"},
          decision : Decisions \cup {None}, terms : Terms \cup {Swept, None}, seen : SeenRows,
          gone : BOOLEAN, next : Live \cup Revocable \cup {"none"},
          result : {"none", "applied", "denied", "conflict"}]

AuditRows == [terms : Terms \cup {Swept, None},
              outcome : {"none", "open", "applied", "denied", "conflict"}]

GrantRows == [at : {"idle", "signing", "held", "verifying", "admitted"},
              purpose : Purposes \cup {None}, generation : Nat, revoked : BOOLEAN]

(* One process's local state becomes l, and nobody else's changes.         *)
Became(p, l) == l \in Local /\ task' = [task EXCEPT ![p] = l]

LEMMA TypeFacts ==
  ASSUME TypeOK
  PROVE  /\ task \in [Processes -> Local] /\ audit \in [Decisions -> AuditRows]
         /\ grant \in [Readers -> GrantRows] /\ record \in Rows
BY DEF TypeOK, Local, AuditRows, GrantRows

LEMMA BecameFacts ==
  ASSUME TypeOK, NEW p \in Processes, NEW l, Became(p, l)
  PROVE  /\ task' \in [Processes -> Local] /\ task'[p] = l /\ l \in Local
         /\ \A q \in Processes \ {p} : task'[q] = task[q]
BY TypeFacts DEF Became

LEMMA SeenTypes ==
  ASSUME NEW row \in Rows, row.state # "deleted"
  PROVE  /\ Seen(row) \in SeenRows
         /\ Seen(row).state = row.state /\ Seen(row).version = row.version
         /\ Seen(row).hold = row.hold
BY DEF Seen, Rows, SeenRows

LEMMA IdleTypes == Idle \in Local /\ Idle.at = "idle" /\ Idle.seen = Unseen
BY DEF Idle, Local, Unseen, SeenRows

LEMMA DecisionTypes ==
  ASSUME NEW d \in Decisions
  PROVE  d[1] \in Actions /\ d[2] \in 1..(MaxVersion + 2) /\ d # None
BY NoneAssumption DEF Decisions

-----------------------------------------------------------------------------
(* Record, object, grants and audit.                                       *)

RowTypes ==
  /\ record \in Rows /\ object \in {"none", "stored", "lost"} \cup Destroyed
  /\ grant \in [Readers -> GrantRows] /\ audit \in [Decisions -> AuditRows]

RowInv == RecordInv /\ AuditInv /\ GrantInv /\ (object \in Destroyed => Barred)

(* What no step takes back.                                                *)
Onward ==
  /\ record' = record \/ record'.version = record.version + 1
  /\ record.claim # None => /\ record'.claim = record.claim
                            /\ record' = record \/ record'.state = "deleted"
                            /\ Barred => Barred'
  /\ record.state = "deleted" => record' = record
  /\ record.state # "absent" => record'.state # "absent"
  /\ object \in Destroyed => object' \in Destroyed
  /\ record.state \notin Live \cup {"absent"} => record'.state \notin Live \cup {"absent"}
  /\ \A d \in Decisions : /\ audit[d].outcome # "none" => audit'[d].outcome # "none"
                          /\ Refused(d) => Refused(d)'

Kept == RowTypes' /\ RowInv' /\ Onward

LEMMA RowFacts == IInv => RowTypes /\ RowInv
BY TypeFacts DEF IInv, RowTypes, RowInv, TypeOK

LEMMA QuietKeeps == ASSUME IInv, UNCHANGED <<record, object, grant, audit>> PROVE Kept
BY RowFacts DEF Kept, RowTypes, RowInv, RecordInv, AuditInv, GrantInv, Barred, Verdict, Refused, Onward

LEMMA VerdictStays ==
  ASSUME Onward, NEW d \in Decisions, NEW outcome, Verdict(d, outcome)
  PROVE  Verdict(d, outcome)'
<1>1. Refused(d) => Refused(d)'
  BY DEF Onward, Refused
<1>2. record.state = "deleted" => record' = record
  BY DEF Onward
<1>3. record.state \notin Live \cup {"absent"} => record'.state \notin Live \cup {"absent"}
  BY DEF Onward
<1> QED BY <1>1, <1>2, <1>3 DEF Verdict

(* The ways a row changes: created, moved on or withdrawn while it is      *)
(* live, held or released while it is nobody's, claimed, buried.           *)
Changed(state, hold, claim) ==
  /\ record' \in Rows /\ record'.version = record.version + 1
  /\ record'.state = state /\ record'.hold = hold /\ record'.claim = claim

Created == record = Unrecorded /\ \E state \in {"pending", "quarantined"} : Changed(state, FALSE, None)

MovedOn ==
  /\ record.state \in Live
  /\ \E state \in Live \cup Revocable :
       /\ state \in Live => record.version < MaxVersion
       /\ Changed(state, record.hold, record.claim)

HoldChanged ==
  /\ record.claim = None /\ record.version \in 1..MaxVersion - 1
  /\ \E h \in BOOLEAN : Changed(record.state, h, None)

Claimed ==
  \E d \in Decisions, state \in Revocable :
    /\ d[1] = "delete" /\ d[2] = record.version /\ audit[d].outcome = "open"
    /\ record.claim = None /\ ~record.hold
    /\ Changed(state, FALSE, d)

Buried ==
  /\ record.claim # None /\ record.state # "deleted" /\ object \in Destroyed
  /\ Changed("deleted", record.hold, record.claim)

RowChanged == Created \/ MovedOn \/ HoldChanged \/ Claimed \/ Buried

LEMMA RefusalStays ==
  ASSUME RecordInv, record \in Rows, record' \in Rows, record'.version = record.version + 1,
         record'.claim \in {record.claim} \/ (/\ record'.claim[2] = record.version
                                              /\ ~record.hold),
         NEW d \in Decisions, Refused(d)
  PROVE  Refused(d)'
<1>1. d[2] \in Nat /\ record.version \in Nat
  BY DecisionTypes, CustodyAssumption DEF Rows
<1>2. record'.version > d[2]
  BY <1>1 DEF Refused
<1>3. record'.claim # d
  BY <1>1 DEF Refused
<1> QED BY <1>2, <1>3 DEF Refused

LEMMA RowChangeShape ==
  ASSUME IInv, RowChanged
  PROVE  /\ record' \in Rows /\ record'.version = record.version + 1 /\ record'.state # "absent"
         /\ record.state # "deleted" /\ record.version \in Nat
         /\ \/ record'.claim = record.claim
            \/ /\ record.claim = None /\ record'.claim \in Decisions
               /\ record'.claim[1] = "delete" /\ record'.claim[2] = record.version
               /\ audit[record'.claim].outcome = "open" /\ ~record.hold /\ ~record'.hold
               /\ record'.state \in Revocable
         /\ record.claim # None => record'.state = "deleted" /\ record'.hold = record.hold
         /\ record'.state = "deleted" => record.claim # None /\ object \in Destroyed
         /\ record'.state \in Live => record'.version <= MaxVersion + 1
         /\ record'.claim = None => record'.version <= MaxVersion + 2
         /\ record.state \notin Live \cup {"absent"} => record'.state \notin Live \cup {"absent"}
<1>0. record \in Rows /\ RecordInv
  BY RowFacts DEF RowTypes, RowInv
<1>1. record.version \in Nat
  BY <1>0 DEF Rows
<1>2. CASE Created
  <2>1. record.version = 0 /\ record.claim = None /\ record.state = "absent"
    BY <1>2 DEF Created, Unrecorded
  <2> QED BY <1>2, <2>1, CustodyAssumption DEF Created, Changed, Live, Revocable
<1>3. CASE MovedOn
  <2>1. record.claim = None /\ record.version <= MaxVersion + 1
    BY <1>0, <1>3 DEF MovedOn, RecordInv, Live, Revocable
  <2>2. PICK state \in Live \cup Revocable :
          /\ state \in Live => record.version < MaxVersion
          /\ Changed(state, record.hold, record.claim)
    BY <1>3 DEF MovedOn
  <2>3. state \notin {"absent", "deleted"} /\ record.state \notin {"absent", "deleted"}
    BY <1>3 DEF MovedOn, Live, Revocable
  <2> QED BY <1>1, <1>3, <2>1, <2>2, <2>3, CustodyAssumption DEF MovedOn, Changed
<1>4. CASE HoldChanged
  <2>1. record.state # "deleted" /\ record.state # "absent"
    BY <1>0, <1>4 DEF HoldChanged, RecordInv
  <2> QED BY <1>1, <1>4, <2>1, CustodyAssumption DEF HoldChanged, Changed
<1>5. CASE Claimed
  <2>1. record.state # "deleted" /\ record.claim = None
    BY <1>0, <1>5 DEF Claimed, RecordInv
  <2>2. PICK d \in Decisions, state \in Revocable :
          /\ d[1] = "delete" /\ d[2] = record.version /\ audit[d].outcome = "open" /\ ~record.hold
          /\ Changed(state, FALSE, d)
    BY <1>5 DEF Claimed
  <2>3. state \notin Live \cup {"absent", "deleted"} /\ d # None
    BY DecisionTypes DEF Live, Revocable
  <2> QED BY <1>1, <2>1, <2>2, <2>3 DEF Changed
<1>6. CASE Buried
  <2>1. "deleted" \notin Live \cup {"absent"}
    BY DEF Live
  <2> QED BY <1>1, <1>6, <2>1 DEF Buried, Changed
<1> QED BY <1>2, <1>3, <1>4, <1>5, <1>6 DEF RowChanged

LEMMA RowChangeKeeps ==
  ASSUME IInv, RowChanged, UNCHANGED <<object, grant, audit>>
  PROVE  Kept
<1>0. RowTypes /\ RowInv
  BY RowFacts
<1>1. RowTypes'
  BY <1>0, RowChangeShape DEF RowTypes
<1>2. ASSUME NEW d \in Decisions, Refused(d) PROVE Refused(d)'
  BY <1>0, <1>2, RowChangeShape, RefusalStays DEF RowTypes, RowInv
<1>3. Onward
  <2>1. record.claim # None => record'.claim = record.claim
    BY RowChangeShape
  <2>2. Barred => Barred'
    BY DEF Barred
  <2> QED BY <1>2, <2>1, <2>2, RowChangeShape DEF Onward
<1>4. RecordInv'
  <2>1. record.claim # None => /\ record.claim[2] \in Nat /\ record.claim \in Decisions
                               /\ record'.claim = record.claim
    BY <1>0, DecisionTypes, CustodyAssumption, RowChangeShape DEF RowTypes, Rows
  <2>2. record'.claim # None =>
          /\ record'.claim[1] = "delete" /\ record'.claim[2] < record'.version
          /\ ~record'.hold /\ record'.state \in Revocable \cup {"deleted"}
          /\ audit[record'.claim].outcome \in {"open", "applied"}
    <3>1. CASE record.claim # None
      BY <1>0, <2>1, <3>1, RowChangeShape DEF RowInv, RecordInv
    <3>2. CASE record.claim = None
      BY <1>0, <3>2, RowChangeShape DEF RowInv, RecordInv
    <3> QED BY <3>1, <3>2
  <2>3. record'.version # 0
    BY RowChangeShape
  <2>4. (record'.state = "deleted" => record'.claim # None) /\ (object \in Destroyed => record'.claim # None)
    BY <1>0, <2>1, RowChangeShape DEF RowInv, RecordInv
  <2> QED BY <1>0, <2>2, <2>3, <2>4, RowChangeShape DEF RecordInv
<1>5. AuditInv'
  BY <1>0, <1>3, VerdictStays DEF RowInv, AuditInv
<1>6. GrantInv' /\ (object' \in Destroyed => Barred')
  BY <1>0 DEF RowInv, GrantInv, Barred
<1> QED BY <1>1, <1>3, <1>4, <1>5, <1>6 DEF Kept, RowInv

(* Bytes are stored, lost and stored again until the owner of the claim    *)
(* erases them after the grants are revoked; put back, they stay destroyed.*)
LEMMA ObjectKeeps ==
  ASSUME IInv, UNCHANGED <<record, grant, audit>>,
         \/ object' = object
         \/ object' \in {"stored", "lost"} /\ object \notin Destroyed
         \/ object' = "restored" /\ object \in Destroyed
         \/ object' = "erased" /\ record.claim # None /\ Barred
  PROVE  Kept
<1>0. RowTypes /\ RowInv
  BY RowFacts
<1>1. record = Unrecorded => record.state = "absent" /\ record.claim = None
  BY DEF Unrecorded
<1>2. RowTypes'
  BY <1>0 DEF RowTypes, Destroyed
<1>3. RecordInv'
  BY <1>0, <1>1 DEF RowInv, RecordInv, Destroyed
<1>4. Onward
  BY <1>1 DEF Onward, Barred, Refused, Destroyed
<1>5. AuditInv' /\ GrantInv' /\ (object' \in Destroyed => Barred')
  BY <1>0 DEF RowInv, AuditInv, Verdict, Refused, GrantInv, Barred, Destroyed
<1> QED BY <1>2, <1>3, <1>4, <1>5 DEF Kept, RowInv

(* The audit closes a decision with a verdict that holds.                  *)
LEMMA AuditKeeps ==
  ASSUME IInv, UNCHANGED <<record, object, grant>>,
         NEW d \in Decisions, NEW row \in AuditRows, audit' = [audit EXCEPT ![d] = row],
         row.outcome # "none", Verdict(d, row.outcome),
         audit[d].outcome = "none" => row.outcome = "open"
  PROVE  Kept
<1>0. RowTypes /\ RowInv
  BY RowFacts
<1>1. /\ audit'[d] = row
      /\ \A e \in Decisions \ {d} : audit'[e] = audit[e]
      /\ audit' \in [Decisions -> AuditRows]
  BY <1>0 DEF RowTypes
<1>2. RowTypes'
  BY <1>0, <1>1 DEF RowTypes
<1>3. RecordInv'
  <2>1. ASSUME record.claim = d, d # None PROVE row.outcome \in {"open", "applied"}
    <3>1. d[1] = "delete" /\ ~Refused(d)
      BY <1>0, <2>1 DEF RowInv, RecordInv, Refused
    <3> QED BY <3>1 DEF Verdict, AuditRows
  <2>2. record.claim # None => /\ record.claim \in Decisions
                               /\ audit'[record.claim].outcome \in {"open", "applied"}
    BY <1>0, <1>1, <2>1 DEF RowInv, RecordInv, RowTypes, Rows
  <2> QED BY <1>0, <2>2 DEF RowInv, RecordInv
<1>4. Onward
  <2>1. \A e \in Decisions : audit[e].outcome # "none" => audit'[e].outcome # "none"
    BY <1>1
  <2> QED BY <2>1 DEF Onward, Refused, Barred
<1>5. AuditInv'
  <2> SUFFICES ASSUME NEW e \in Decisions PROVE Verdict(e, audit'[e].outcome)
    BY DEF AuditInv, Verdict, Refused
  <2> QED BY <1>0, <1>1 DEF RowInv, AuditInv
<1>6. GrantInv' /\ (object' \in Destroyed => Barred')
  BY <1>0 DEF RowInv, GrantInv, Barred
<1> QED BY <1>2, <1>3, <1>4, <1>5, <1>6 DEF Kept, RowInv

LEMMA GrantKeeps ==
  ASSUME IInv, UNCHANGED <<record, object, audit>>, grant' \in [Readers -> GrantRows], GrantInv',
         record.claim # None /\ Barred => Barred'
  PROVE  Kept
<1>0. RowTypes /\ RowInv
  BY RowFacts
<1>1. RowTypes'
  BY <1>0 DEF RowTypes
<1>2. RecordInv' /\ AuditInv'
  BY <1>0 DEF RowInv, RecordInv, AuditInv, Verdict, Refused
<1>3. object' \in Destroyed => Barred'
  BY <1>0 DEF RowInv, RecordInv
<1>4. Onward
  BY DEF Onward, Refused
<1> QED BY <1>1, <1>2, <1>3, <1>4 DEF Kept, RowInv

LEMMA RevocationKeeps ==
  ASSUME IInv, UNCHANGED <<record, object, audit>>, grant' = Revoked
  PROVE  Kept /\ Barred'
<1>0. grant \in [Readers -> GrantRows] /\ GrantInv
  BY RowFacts DEF RowTypes, RowInv
<1>1. ASSUME NEW r \in Readers
      PROVE  /\ grant'[r] \in GrantRows /\ grant'[r].at = grant[r].at
             /\ grant'[r].purpose = grant[r].purpose
             /\ grant[r].at = "verifying" => grant'[r].revoked
  <2>1. CASE grant[r].at \in {"idle", "signing"}
    BY <1>0, <2>1 DEF Revoked
  <2>2. CASE grant[r].at \notin {"idle", "signing"}
    <3>1. grant'[r] = [grant[r] EXCEPT !.revoked = TRUE]
      BY <2>2 DEF Revoked
    <3> QED BY <1>0, <3>1 DEF GrantRows
  <2> QED BY <2>1, <2>2
<1>2. grant' \in [Readers -> GrantRows]
  BY <1>1 DEF Revoked
<1>3. GrantInv' /\ Barred'
  BY <1>0, <1>1 DEF GrantInv, Barred
<1> QED BY <1>2, <1>3, GrantKeeps

(* Only a live artifact is granted or used.                                *)
LEMMA EligibleIsLive ==
  ASSUME NEW purpose \in Purposes PROVE Eligible[purpose] \subseteq Live
BY CustodyAssumption DEF Eligible, Live

LEMMA ReaderKeeps == ASSUME IInv, NEW r \in Readers, ReaderStep(r) PROVE Kept
<1>0. RowTypes /\ RowInv /\ grant[r] \in GrantRows
  BY RowFacts DEF RowTypes
<1>1. UNCHANGED <<record, object, audit>>
  BY DEF ReaderStep, Grant, Sign, Use, Verify
<1>2. PICK row \in GrantRows :
        /\ grant' = [grant EXCEPT ![r] = row]
        /\ row.at # "idle" => row.purpose \in Purposes
        /\ record.claim # None /\ row.at = "verifying" => row.revoked
  <2>1. CASE Grant(r)
    <3>1. PICK purpose \in Purposes :
            grant' = [grant EXCEPT ![r] = [at |-> "signing", purpose |-> purpose,
                                           generation |-> record.generation, revoked |-> FALSE]]
      BY <2>1 DEF Grant
    <3> DEFINE row == [at |-> "signing", purpose |-> purpose, generation |-> record.generation,
                       revoked |-> FALSE]
    <3>2. row \in GrantRows
      BY <1>0 DEF GrantRows, RowTypes, Rows
    <3>3. row.at = "signing" /\ row.purpose \in Purposes
      OBVIOUS
    <3> HIDE DEF row
    <3>4. grant' = [grant EXCEPT ![r] = row]
      BY <3>1 DEF row
    <3> QED BY <3>2, <3>3, <3>4
  <2>2. ASSUME NEW at \in {"held", "verifying", "admitted"}, grant' = [grant EXCEPT ![r].at = at],
               grant[r].at # "idle", at = "verifying" => record.claim = None
        PROVE  \E row \in GrantRows :
                 /\ grant' = [grant EXCEPT ![r] = row]
                 /\ row.at # "idle" => row.purpose \in Purposes
                 /\ record.claim # None /\ row.at = "verifying" => row.revoked
    <3> DEFINE row == [grant[r] EXCEPT !.at = at]
    <3>1. row \in GrantRows /\ row.at = at /\ row.purpose = grant[r].purpose
      BY <1>0 DEF GrantRows
    <3>2. grant' = [grant EXCEPT ![r] = row]
      BY <1>0, <2>2 DEF RowTypes
    <3>3. row.purpose \in Purposes
      BY <1>0, <2>2, <3>1 DEF RowInv, GrantInv
    <3> HIDE DEF row
    <3> QED BY <2>2, <3>1, <3>2, <3>3
  <2>3. CASE Sign(r) \/ Verify(r)
    <3>1. PICK at \in {"held", "admitted"} : grant' = [grant EXCEPT ![r].at = at]
      BY <2>3 DEF Sign, Verify
    <3> QED BY <2>2, <2>3, <3>1 DEF Sign, Verify
  <2>4. CASE Use(r)
    <3>1. grant[r].purpose \in Purposes
      BY <1>0, <2>4 DEF Use, RowInv, GrantInv
    <3>2. record.state \in Live
      BY <2>4, <3>1, EligibleIsLive DEF Use
    <3>3. record.claim = None
      BY <1>0, <3>2 DEF RowInv, RecordInv, Live, Revocable
    <3> QED BY <2>2, <2>4, <3>3 DEF Use
  <2> QED BY <2>1, <2>3, <2>4 DEF ReaderStep
<1>3. /\ grant' \in [Readers -> GrantRows] /\ grant'[r] = row
      /\ \A q \in Readers \ {r} : grant'[q] = grant[q]
  BY <1>0, <1>2 DEF RowTypes
<1>4. GrantInv'
  BY <1>0, <1>2, <1>3 DEF RowInv, GrantInv
<1>5. record.claim # None /\ Barred => Barred'
  BY <1>2, <1>3 DEF Barred
<1> QED BY <1>1, <1>3, <1>4, <1>5, GrantKeeps

LEMMA PassiveKeeps == ASSUME IInv, LoseObject \/ Age PROVE Kept
<1>1. CASE LoseObject
  BY <1>1, ObjectKeeps DEF LoseObject, Destroyed
<1>2. CASE Age
  BY <1>2, QuietKeeps DEF Age
<1> QED BY <1>1, <1>2

-----------------------------------------------------------------------------
(* Nobody's steps disturb what another process relies on.                  *)

SeenInv(seen) ==
  /\ seen.version <= record.version
  /\ seen.version = record.version => seen = Seen(record)

LEMMA SeenStays ==
  ASSUME IInv, Kept, NEW seen \in SeenRows, SeenInv(seen)
  PROVE  /\ SeenInv(seen)'
         /\ seen.version = record'.version => record' = record
<1>1. seen.version \in Nat /\ record.version \in Nat
  BY RowFacts DEF SeenRows, RowTypes, Rows
<1>2. record' = record \/ record'.version = record.version + 1
  BY DEF Kept, Onward
<1>3. CASE record' = record
  BY <1>3 DEF SeenInv, Seen
<1>4. CASE record'.version = record.version + 1
  BY <1>1, <1>4 DEF SeenInv
<1> QED BY <1>2, <1>3, <1>4

LEMMA TaskFacts ==
  ASSUME IInv, NEW p \in Processes
  PROVE  /\ TypeOK /\ task \in [Processes -> Local] /\ task[p] \in Local
         /\ task[p].seen \in SeenRows /\ task[p].decision \in Decisions \cup {None}
         /\ RowTypes /\ RowInv /\ RecordInv /\ record \in Rows /\ record.version \in Nat
         /\ StepInv(p) /\ SeenInv(task[p].seen)
BY TypeFacts, RowFacts DEF IInv, Local, StepInv, SeenInv, RowTypes, RowInv, Rows

LEMMA OthersSteps ==
  ASSUME IInv, Kept, NEW p \in Processes, task'[p] = task[p]
  PROVE  StepInv(p)'
<1> DEFINE t == task[p]
           d == t.decision
<1>0. StepInv(p) /\ Onward /\ RowInv' /\ SeenInv(t.seen) /\ t.seen \in SeenRows
  BY TaskFacts DEF Kept
<1>1. SeenInv(t.seen)' /\ (t.seen.version = record'.version => record' = record)
  BY <1>0, SeenStays
<1>2. t.at \in {"record"} => Verdict(d, t.result)'
  BY <1>0, VerdictStays DEF StepInv
<1>3. t.at \in {"erase", "tombstone"} => Barred'
  <2>1. t.at \in {"erase", "tombstone"} => record.claim # None
    BY <1>0, DecisionTypes DEF StepInv, Destroying
  <2> QED BY <1>0, <2>1 DEF StepInv, Onward
<1>4. t.at = "tombstone" => object' \in Destroyed
  <2>1. t.at = "tombstone" => record.state # "absent"
    BY <1>0, TaskFacts, DecisionTypes DEF StepInv, Destroying, RecordInv, Unrecorded
  <2> QED BY <1>0, <2>1 DEF StepInv, Onward
<1>5. t.at \in Destroying => /\ record'.claim = d
                             /\ record'.state = "deleted" \/ t.seen.version = record'.version
  <2>1. t.at \in Destroying => record.claim # None
    BY <1>0, DecisionTypes DEF StepInv, Destroying
  <2> QED BY <1>0, <2>1 DEF StepInv, Onward
<1>6. \/ t.at = "exists"
      \/ t.at \in Asked /\ d[1] \in {"place", "lift"}
      => (t.seen.version = record'.version => record'.claim = None)
  BY <1>0, <1>1 DEF StepInv
<1>7. t.at \in Asked /\ d[1] = "delete" =>
        \/ record'.claim = d
        \/ t.seen.version = d[2] /\ (t.seen.version = record'.version => record'.claim = None)
  <2>1. CASE record.claim = d /\ d \in Decisions
    BY <1>0, <2>1, DecisionTypes DEF Onward
  <2>2. CASE t.seen.version = d[2] /\ (t.seen.version = record.version => record.claim = None)
    BY <1>1, <2>2
  <2> QED BY <1>0, <2>1, <2>2 DEF StepInv
<1>8. t.at \in Destroying \cup {"change", "expire", "record"} => audit'[d].outcome # "none"
  BY <1>0 DEF StepInv, Onward, Asked
<1>9. t.at = "expired" => record'.state # "absent"
  BY <1>0 DEF StepInv, Onward
<1> QED BY <1>0, <1>1, <1>2, <1>3, <1>4, <1>5, <1>6, <1>7, <1>8, <1>9 DEF StepInv, SeenInv

-----------------------------------------------------------------------------
(* The acting process's own facts.                                         *)

LEMMA Went ==
  ASSUME IInv, NEW p \in Processes, NEW step, Go(p, step),
         step \in {"put", "create", "move", "change", "revoke", "erase", "tombstone", "expire", "expired"}
  PROVE  /\ \E l : Became(p, l)
         /\ task'[p].at = step /\ task'[p].decision = task[p].decision
         /\ task'[p].seen = task[p].seen /\ task'[p].next = task[p].next
<1> DEFINE l == [task[p] EXCEPT !.at = step]
<1>1. l \in Local
  BY TaskFacts DEF Local
<1>2. task' = [task EXCEPT ![p] = l]
  BY TaskFacts DEF Go
<1>3. task'[p] = l
  BY <1>2, TaskFacts
<1> QED BY <1>1, <1>2, <1>3, TaskFacts DEF Became, Local

LEMMA WentSeeing ==
  ASSUME IInv, NEW p \in Processes, NEW step \in {"exists", "revoke"}, NEW row \in Rows,
         row.state # "deleted", GoSeeing(p, step, row)
  PROVE  /\ \E l : Became(p, l)
         /\ task'[p].at = step /\ task'[p].decision = task[p].decision
         /\ task'[p].seen = Seen(row)
<1> DEFINE l == [task[p] EXCEPT !.at = step, !.seen = Seen(row)]
<1>1. l \in Local
  <2>1. task[p] \in Local
    BY TaskFacts
  <2>2. Seen(row) \in SeenRows
    BY SeenTypes
  <2> QED BY <2>1, <2>2 DEF Local
<1>2. task' = [task EXCEPT ![p] = l]
  BY TaskFacts DEF GoSeeing
<1>3. task'[p] = l
  BY <1>2, TaskFacts
<1> QED BY <1>1, <1>2, <1>3, TaskFacts DEF Became, Local

LEMMA Concluded ==
  ASSUME IInv, Kept, NEW p \in Processes, NEW result \in {"applied", "denied", "conflict"},
         Conclude(p, result), NEW d \in Decisions, task[p].decision = d,
         audit[d].outcome # "none", Verdict(d, result)'
  PROVE  (\E l : Became(p, l)) /\ StepInv(p)'
<1> DEFINE l == [task[p] EXCEPT !.at = "record", !.result = result]
<1>1. l \in Local
  BY TaskFacts DEF Local
<1>2. task' = [task EXCEPT ![p] = l]
  BY TaskFacts DEF Conclude
<1>3. task'[p] = l
  BY <1>2, TaskFacts
<1>4. /\ task'[p].at = "record" /\ task'[p].result = result
      /\ task'[p].decision = d /\ task'[p].seen = task[p].seen
  BY <1>3, TaskFacts DEF Local
<1>5. SeenInv(task[p].seen)'
  BY <1>4, TaskFacts, SeenStays
<1>6. audit'[d].outcome # "none"
  BY DEF Kept, Onward
<1>7. StepInv(p)'
  BY <1>4, <1>5, <1>6 DEF StepInv, SeenInv, Asked, Destroying
<1> QED BY <1>1, <1>2, <1>7 DEF Became

LEMMA IsDone ==
  ASSUME IInv, Kept, NEW p \in Processes, Done(p)
  PROVE  (\E l : Became(p, l)) /\ StepInv(p)'
<1>1. Became(p, Idle)
  BY IdleTypes DEF Became, Done
<1>2. task'[p] = Idle
  BY <1>1, TaskFacts, BecameFacts
<1>3. record'.version \in Nat /\ (record'.version = 0 => record' = Unrecorded)
  BY DEF Kept, RowTypes, Rows, RowInv, RecordInv
<1>4. Unseen.version = 0 /\ Seen(Unrecorded) = Unseen
  BY DEF Unseen, Seen, Unrecorded
<1>5. SeenInv(Unseen)'
  BY <1>3, <1>4 DEF SeenInv, Seen
<1>6. task'[p].at = "idle" /\ task'[p].seen = Unseen
  BY <1>2, IdleTypes
<1> QED BY <1>1, <1>5, <1>6 DEF StepInv, SeenInv, Asked, Destroying

(* A row just read is the row seen.                                        *)
LEMMA JustSeen ==
  ASSUME IInv, record' = record, record.state # "deleted"
  PROVE  SeenInv(Seen(record))' /\ Seen(record) \in SeenRows /\ Seen(record).version = record.version
<1>1. record \in Rows /\ record.version \in Nat
  BY RowFacts DEF RowTypes, Rows
<1> QED BY <1>1, SeenTypes DEF SeenInv, Seen

LEMMA HasBegun ==
  ASSUME IInv, NEW p \in Processes, NEW step \in Asked, NEW d \in Decisions,
         NEW terms \in Terms \cup {None}, record.state # "deleted", Begin(p, step, d, terms)
  PROVE  /\ \E l : Became(p, l)
         /\ task'[p].at = step /\ task'[p].decision = d /\ task'[p].seen = Seen(record)
<1> DEFINE l == [task[p] EXCEPT !.at = step, !.decision = d, !.terms = terms, !.seen = Seen(record)]
<1>1. Seen(record) \in SeenRows
  BY TaskFacts, SeenTypes
<1>2. l \in Local
  <2>1. task[p] \in Local
    BY TaskFacts
  <2> QED BY <1>1, <2>1 DEF Local, Asked
<1>3. task' = [task EXCEPT ![p] = l]
  BY TaskFacts DEF Begin
<1>4. task'[p] = l
  BY <1>3, TaskFacts
<1> QED BY <1>2, <1>3, <1>4, TaskFacts DEF Became, Local

LEMMA HasDecided ==
  ASSUME IInv, NEW p \in Processes, NEW row, Seen(row) \in SeenRows, NEW gone \in BOOLEAN,
         NEW d \in Decisions, SweepDecide(p, row, gone, d)
  PROVE  /\ \E l : Became(p, l)
         /\ task'[p].at = "authorize" /\ task'[p].decision = d /\ task'[p].seen = Seen(row)
<1> DEFINE l == [Idle EXCEPT !.at = "authorize", !.decision = d, !.terms = Swept,
                             !.seen = Seen(row), !.gone = gone]
<1>1. l \in Local
  BY IdleTypes DEF Local
<1>2. task' = [task EXCEPT ![p] = l]
  BY DEF SweepDecide
<1>3. task'[p] = l
  BY <1>2, TaskFacts
<1>4. l.at = "authorize" /\ l.decision = d /\ l.seen = Seen(row)
  BY DEF Idle
<1>5. Became(p, l)
  BY <1>1, <1>2 DEF Became
<1> HIDE DEF l
<1> QED BY <1>3, <1>4, <1>5

(* The step keeps the rows, changes p's state only and keeps p's facts.    *)
Acted(p) == Kept /\ (\E l : Became(p, l)) /\ StepInv(p)'

LEMMA MovedRow ==
  ASSUME NEW row \in Rows, NEW state \in Live \cup Revocable \cup {"deleted"}
  PROVE  /\ Moved(row, state) \in Rows /\ Withdrawn(row, state) \in Rows
         /\ Moved(row, state).state = state /\ Withdrawn(row, state).state = state
         /\ Moved(row, state).version = row.version + 1
         /\ Withdrawn(row, state).version = row.version + 1
         /\ Moved(row, state).hold = row.hold /\ Withdrawn(row, state).hold = row.hold
         /\ Moved(row, state).claim = row.claim /\ Withdrawn(row, state).claim = row.claim
<1>1. \A v \in Nat : [row EXCEPT !.state = state, !.version = v] \in Rows
  BY DEF Rows
<1>2. row.version + 1 \in Nat
  BY DEF Rows
<1>3. Moved(row, state) \in Rows
  BY <1>1, <1>2 DEF Moved
<1>4. /\ Moved(row, state).state = state /\ Moved(row, state).hold = row.hold
      /\ Moved(row, state).version = row.version + 1 /\ Moved(row, state).claim = row.claim
  BY DEF Moved, Rows
<1>5. \A g \in Nat, r \in Rows : [r EXCEPT !.generation = g] \in Rows
  BY DEF Rows
<1>6. Moved(row, state).generation + 1 \in Nat
  BY <1>3 DEF Rows
<1>7. Withdrawn(row, state) \in Rows
  BY <1>3, <1>5, <1>6 DEF Withdrawn
<1>8. /\ Withdrawn(row, state).state = state /\ Withdrawn(row, state).hold = row.hold
      /\ Withdrawn(row, state).version = row.version + 1
      /\ Withdrawn(row, state).claim = row.claim
  BY <1>3, <1>4 DEF Withdrawn, Rows
<1> QED BY <1>3, <1>4, <1>7, <1>8

LEMMA CreateKeeps == ASSUME IInv, NEW w \in Processes, Create(w) PROVE Kept
<1>1. UNCHANGED <<object, grant, audit>>
  BY DEF Create
<1>2. CASE record' = record
  BY <1>1, <1>2, QuietKeeps
<1>3. CASE /\ record = Unrecorded
           /\ \E state \in {"pending", "quarantined"} :
                record' = [Unrecorded EXCEPT !.state = state, !.version = 1, !.generation = 1]
  <2>1. PICK state \in {"pending", "quarantined"} :
          record' = [Unrecorded EXCEPT !.state = state, !.version = 1, !.generation = 1]
    BY <1>3
  <2> DEFINE row == [Unrecorded EXCEPT !.state = state, !.version = 1, !.generation = 1]
  <2>2. /\ row.state = state /\ row.version = 1 /\ row.hold = FALSE /\ row.claim = None
        /\ row \in Rows
    BY DEF Unrecorded, Rows, Live, Revocable
  <2>3. record.version = 0
    BY <1>3 DEF Unrecorded
  <2> HIDE DEF row
  <2>4. Changed(state, FALSE, None)
    <3>1. record' = row
      BY <2>1 DEF row
    <3> QED BY <2>2, <2>3, <3>1 DEF Changed
  <2> QED BY <1>1, <1>3, <2>4, RowChangeKeeps DEF RowChanged, Created
<1> QED BY <1>2, <1>3 DEF Create

LEMMA MoveKeeps == ASSUME IInv, NEW w \in Processes, Move(w) PROVE Kept
<1> DEFINE t == task[w]
<1>1. UNCHANGED <<object, grant, audit>>
  BY DEF Move
<1>2. CASE record' = record
  BY <1>1, <1>2, QuietKeeps
<1>3. CASE record' # record
  <2>1. /\ Current(w)
        /\ record' = IF t.next \in Revocable THEN Withdrawn(record, t.next) ELSE Moved(record, t.next)
    BY <1>3 DEF Move
  <2>2. /\ t.seen = Seen(record) /\ t.seen.state \in Live /\ t.seen.version < MaxVersion
        /\ t.next \in Live \cup Revocable
    BY <2>1, TaskFacts DEF Move, At, StepInv, Current, Local
  <2>3. record.state \in Live /\ record.version < MaxVersion
    BY <2>2 DEF Seen
  <2>4. Changed(t.next, record.hold, record.claim)
    BY <2>1, <2>2, MovedRow, TaskFacts DEF Changed
  <2> QED BY <1>1, <2>2, <2>3, <2>4, RowChangeKeeps DEF RowChanged, MovedOn
<1> QED BY <1>2, <1>3

LEMMA LoadActs == ASSUME IInv, NEW w \in Processes, Load(w) PROVE Acted(w)
<1>1. Kept /\ record' = record
  BY QuietKeeps DEF Load
<1>2. record.state \in Live /\ record.version < MaxVersion
  BY DEF Load
<1>3. record.state # "deleted"
  BY <1>2 DEF Live
<1>4. PICK at \in {"move", "withdraw"}, next \in Live \cup Revocable :
        task' = [task EXCEPT ![w].at = at, ![w].seen = Seen(record), ![w].next = next]
  <2>1. record.state \in DOMAIN Forward => Forward[record.state] \in Live
    BY DEF Forward, Live
  <2> QED BY <2>1 DEF Load
<1> DEFINE l == [task[w] EXCEPT !.at = at, !.seen = Seen(record), !.next = next]
<1>5. l \in Local
  <2>1. task[w] \in Local
    BY TaskFacts
  <2>2. Seen(record) \in SeenRows
    BY <1>1, <1>3, JustSeen
  <2> QED BY <2>1, <2>2 DEF Local
<1>6. Became(w, l)
  BY <1>4, <1>5, TaskFacts DEF Became
<1>7. task'[w] = l
  BY <1>6, TaskFacts, BecameFacts
<1>8. task'[w].at = at /\ task'[w].seen = Seen(record) /\ task'[w].next = next
  BY <1>7, TaskFacts DEF Local
<1>9. next # "none" /\ Seen(record).state = record.state
  BY DEF Live, Revocable, Seen
<1>10. SeenInv(Seen(record))'
  BY <1>1, <1>3, JustSeen
<1>11. Seen(record)' = Seen(record)
  BY <1>1 DEF Seen
<1>12. StepInv(w)'
  BY <1>1, <1>2, <1>3, <1>8, <1>9, <1>10, <1>11, JustSeen DEF StepInv, SeenInv, Asked, Destroying
<1> QED BY <1>1, <1>6, <1>12 DEF Acted

LEMMA WriterActs == ASSUME IInv, NEW w \in Processes, WriterStep(w) PROVE Acted(w)
<1>0. CASE Lookup(w)
  <2>1. Kept
    BY <1>0, QuietKeeps DEF Lookup
  <2>2. Go(w, "put")
    BY <1>0 DEF Lookup
  <2>3. SeenInv(task[w].seen)'
    BY <2>1, <2>2, Went, TaskFacts, SeenStays
  <2> QED BY <2>1, <2>2, <2>3, Went DEF Acted, StepInv, SeenInv, Asked, Destroying
<1>1. CASE Put(w)
  <2>1. Kept
    BY <1>1, ObjectKeeps DEF Put
  <2>2. Go(w, "create")
    BY <1>1 DEF Put
  <2>3. SeenInv(task[w].seen)'
    BY <2>1, <2>2, Went, TaskFacts, SeenStays
  <2> QED BY <2>1, <2>2, <2>3, Went DEF Acted, StepInv, SeenInv, Asked, Destroying
<1>2. CASE Create(w)
  BY <1>2, CreateKeeps, IsDone DEF Create, Acted
<1>3. CASE Load(w)
  BY <1>3, LoadActs
<1>4. CASE Withdraw(w)
  <2>1. Kept
    BY <1>4, RevocationKeeps DEF Withdraw
  <2>2. Go(w, "move") /\ task[w].at = "withdraw"
    BY <1>4 DEF Withdraw, At
  <2>3. SeenInv(task[w].seen)'
    BY <2>1, <2>2, Went, TaskFacts, SeenStays
  <2> QED BY <2>1, <2>2, <2>3, Went, TaskFacts DEF Acted, StepInv, SeenInv, Asked, Destroying
<1>5. CASE Move(w)
  BY <1>5, MoveKeeps, IsDone DEF Move, Acted
<1> QED BY <1>0, <1>1, <1>2, <1>3, <1>4, <1>5 DEF WriterStep

(* Custodians, and the decisions they share with the sweep.                *)
LEMMA ToDelete ==
  ASSUME IInv, Kept, record' = record, NEW p \in Processes, NEW l, Became(p, l),
         NEW d \in Decisions, d[1] = "delete", NEW seen, SeenInv(seen)',
         task'[p].at = "authorize", task'[p].decision = d, task'[p].seen = seen,
         \/ record.claim = d
         \/ seen.version = d[2] /\ (seen.version = record.version => record.claim = None)
  PROVE  Acted(p)
BY DEF Acted, StepInv, SeenInv, Asked, Destroying

LEMMA AdoptActs ==
  ASSUME IInv, UNCHANGED <<record, object, grant, audit>>, NEW p \in Processes, Adopt(p)
  PROVE  Acted(p)
<1> DEFINE d == record.claim
<1>1. Kept
  BY QuietKeeps
<1>2. /\ d \in Decisions /\ d[1] = "delete" /\ record.state # "deleted"
      /\ audit[d].outcome = "open" /\ Begin(p, "change", d, None)
  BY TaskFacts DEF Adopt, RecordInv, Rows
<1>3. /\ \E l : Became(p, l)
      /\ task'[p].at = "change" /\ task'[p].decision = d /\ task'[p].seen = Seen(record)
  BY <1>2, HasBegun DEF Asked
<1>4. SeenInv(Seen(record))' /\ Seen(record)' = Seen(record)
  BY <1>2, JustSeen
<1> QED BY <1>1, <1>2, <1>3, <1>4 DEF Acted, StepInv, SeenInv, Asked, Destroying

LEMMA AskHoldActs == ASSUME IInv, NEW c \in Processes, AskHold(c) PROVE Acted(c)
<1>1. Kept /\ record' = record
  BY QuietKeeps DEF AskHold
<1>2. PICK action \in {"place", "lift"}, expected \in {record.version, record.version - 1},
           terms \in Terms :
        expected > 0 /\ Begin(c, "authorize", <<action, expected>>, terms)
  BY DEF AskHold
<1> DEFINE d == <<action, expected>>
<1>3. record.claim = None /\ record.state # "deleted" /\ record.version < MaxVersion
  BY TaskFacts DEF AskHold, RecordInv
<1>4. d \in Decisions /\ d[1] \in {"place", "lift"}
  <2>1. expected \in 1..(MaxVersion + 2)
    BY <1>2, <1>3, TaskFacts, CustodyAssumption
  <2> QED BY <2>1 DEF Decisions, Actions
<1>5. Begin(c, "authorize", d, terms)
  BY <1>2
<1> HIDE DEF d
<1>6. /\ \E l : Became(c, l)
      /\ task'[c].at = "authorize" /\ task'[c].decision = d /\ task'[c].seen = Seen(record)
  BY <1>3, <1>4, <1>5, HasBegun DEF Asked
<1>7. /\ SeenInv(Seen(record))' /\ Seen(record)' = Seen(record)
      /\ Seen(record).version = record.version
  BY <1>1, <1>3, JustSeen
<1> QED BY <1>1, <1>3, <1>4, <1>6, <1>7 DEF Acted, StepInv, SeenInv, Asked, Destroying

LEMMA AskDeleteActs == ASSUME IInv, NEW c \in Processes, AskDelete(c) PROVE Acted(c)
<1>1. Kept /\ record' = record
  BY QuietKeeps DEF AskDelete
<1>2. CASE Adopt(c)
  BY <1>2, AdoptActs DEF AskDelete
<1>3. ASSUME record.claim = None, NEW terms \in Terms,
             Begin(c, "authorize", <<"delete", record.version>>, terms)
      PROVE  Acted(c)
  <2> DEFINE d == <<"delete", record.version>>
  <2>1. record.state \notin {"deleted", "absent"} /\ record.version \in 1..(MaxVersion + 2)
    BY <1>3, TaskFacts, CustodyAssumption DEF AskDelete, RecordInv
  <2>2. d \in Decisions /\ d[1] = "delete" /\ d[2] = record.version
    BY <2>1 DEF Decisions, Actions
  <2>3. Begin(c, "authorize", d, terms)
    BY <1>3
  <2> HIDE DEF d
  <2>4. /\ \E l : Became(c, l)
        /\ task'[c].at = "authorize" /\ task'[c].decision = d /\ task'[c].seen = Seen(record)
    BY <2>1, <2>2, <2>3, HasBegun DEF Asked
  <2>5. /\ SeenInv(Seen(record))' /\ Seen(record)' = Seen(record)
        /\ Seen(record).version = record.version
    BY <1>1, <2>1, JustSeen
  <2> QED BY <1>1, <1>3, <2>2, <2>4, <2>5, ToDelete
<1> QED BY <1>2, <1>3 DEF AskDelete

LEMMA SetHoldActs == ASSUME IInv, NEW c \in Processes, SetHold(c) PROVE Acted(c)
<1> DEFINE wanted == Deciding(c) = "place"
<1>0. PICK d \in Decisions : d = task[c].decision
  BY TaskFacts DEF SetHold, At, StepInv, Asked
<1>1. /\ d[1] \in {"place", "lift"} /\ audit[d].outcome # "none"
      /\ task[c].seen.version < MaxVersion
      /\ task[c].seen.version = record.version => record.claim = None
  BY <1>0, TaskFacts DEF SetHold, At, Deciding, StepInv, Asked
<1>2. UNCHANGED <<object, grant, audit>>
  BY DEF SetHold
<1>3. \A result : Verdict(d, result)'
  BY <1>1 DEF Verdict
<1>4. PICK result \in {"applied", "denied", "conflict"} : Conclude(c, result)
  BY DEF SetHold
<1>5. Kept
  <2>1. CASE record' = record
    BY <1>2, <2>1, QuietKeeps
  <2>2. CASE record' # record
    <3>1. task[c].seen.version = d[2] /\ d[2] = record.version
      BY <1>0, <2>2 DEF SetHold, Current, Expected
    <3>2. record.version \in 1..MaxVersion - 1 /\ record.claim = None
      BY <1>1, <3>1, DecisionTypes, CustodyAssumption
    <3>3. record' = [record EXCEPT !.hold = wanted, !.version = @ + 1]
      BY <2>2 DEF SetHold
    <3>4. \A v \in Nat, h \in BOOLEAN : [record EXCEPT !.hold = h, !.version = v] \in Rows
      BY TaskFacts DEF Rows
    <3>5. record.version + 1 \in Nat /\ wanted \in BOOLEAN
      BY TaskFacts
    <3>6. Changed(record.state, wanted, None)
      <4>1. record' \in Rows
        BY <3>3, <3>4, <3>5
      <4> QED BY <3>2, <3>3, <4>1, TaskFacts DEF Changed, Rows
    <3> QED BY <1>2, <3>2, <3>5, <3>6, RowChangeKeeps DEF RowChanged, HoldChanged
  <2> QED BY <2>1, <2>2
<1> QED BY <1>0, <1>1, <1>3, <1>4, <1>5, Concluded DEF Acted

LEMMA AuthorizeActs == ASSUME IInv, NEW p \in Processes, Authorize(p) PROVE Acted(p)
<1> DEFINE d == task[p].decision
<1>1. d \in Decisions /\ task[p].at = "authorize"
  BY TaskFacts DEF Authorize, At, StepInv, Asked
<1>2. UNCHANGED <<record, object, grant>>
  BY DEF Authorize
<1>3. ASSUME Kept, Go(p, "change"), audit'[d].outcome # "none" PROVE Acted(p)
  <2>1. SeenInv(task[p].seen)'
    BY <1>3, Went, TaskFacts, SeenStays
  <2> QED BY <1>1, <1>2, <1>3, <2>1, Went, TaskFacts DEF Acted, StepInv, SeenInv, Asked, Destroying
<1>4. CASE audit' = [audit EXCEPT ![d] = [terms |-> task[p].terms, outcome |-> "open"]] /\ Go(p, "change")
  <2> DEFINE row == [terms |-> task[p].terms, outcome |-> "open"]
  <2>1. row \in AuditRows /\ row.outcome = "open"
    BY TaskFacts DEF Local, AuditRows
  <2>2. audit' = [audit EXCEPT ![d] = row]
    BY <1>4
  <2> HIDE DEF row
  <2>3. Verdict(d, row.outcome)
    BY <2>1 DEF Verdict
  <2>4. Kept
    BY <1>1, <1>2, <2>1, <2>2, <2>3, AuditKeeps
  <2>5. audit'[d].outcome # "none"
    BY <1>1, <2>1, <2>2, TaskFacts DEF RowTypes
  <2> QED BY <1>3, <1>4, <2>4, <2>5
<1>5. CASE audit' = audit
  <2>1. Kept
    BY <1>2, <1>5, QuietKeeps
  <2>2. CASE Done(p)
    BY <2>1, <2>2, IsDone DEF Acted
  <2>3. CASE Go(p, "change") /\ audit[d].outcome = "open"
    BY <1>3, <1>5, <2>1, <2>3
  <2>4. CASE audit[d] = Undecided
    BY <1>4, <2>4 DEF Authorize
  <2> QED BY <2>2, <2>3, <2>4 DEF Authorize
<1> QED BY <1>4, <1>5 DEF Authorize

LEMMA RecordOutcomeActs == ASSUME IInv, NEW p \in Processes, RecordOutcome(p) PROVE Acted(p)
<1> DEFINE t == task[p]
           d == t.decision
           agreed == audit[d].outcome \in {"open", t.result}
<1>1. d \in Decisions /\ audit[d].outcome # "none" /\ t.result # "none" /\ Verdict(d, t.result)
  BY TaskFacts DEF RecordOutcome, At, StepInv
<1>2. UNCHANGED <<record, object, grant>>
  BY DEF RecordOutcome
<1>3. Kept
  <2>1. CASE agreed
    <3> DEFINE row == [audit[d] EXCEPT !.outcome = t.result]
    <3>1. row \in AuditRows /\ row.outcome = t.result
      BY <1>1, TaskFacts DEF RowTypes, AuditRows, Local
    <3>2. audit' = [audit EXCEPT ![d] = row]
      BY <1>1, <2>1, TaskFacts DEF RecordOutcome, RowTypes
    <3> HIDE DEF row
    <3> QED BY <1>1, <1>2, <3>1, <3>2, AuditKeeps
  <2>2. CASE ~agreed
    BY <1>2, <2>2, QuietKeeps DEF RecordOutcome
  <2> QED BY <2>1, <2>2
<1>4. CASE Done(p)
  BY <1>3, <1>4, IsDone DEF Acted
<1>5. CASE Go(p, "expired") /\ t.result = "applied" /\ d[1] = "expire"
  <2>1. SeenInv(t.seen)'
    BY <1>3, <1>5, Went, TaskFacts, SeenStays
  <2>2. record'.state # "absent"
    BY <1>1, <1>2, <1>5 DEF Verdict
  <2> QED BY <1>3, <1>5, <2>1, <2>2, Went DEF Acted, StepInv, SeenInv, Asked, Destroying
<1> QED BY <1>4, <1>5 DEF RecordOutcome, Deciding

(* The destruction and the expiry.                                         *)
LEMMA ClaimTakes ==
  ASSUME IInv, NEW p \in Processes, Claim(p), Claimable(p)
  PROVE  LET d == task[p].decision IN
         /\ Kept /\ d \in Decisions /\ d[1] = "delete" /\ record'.claim = d
         /\ audit'[d].outcome # "none" /\ record'.state \in Revocable
         /\ GoSeeing(p, "revoke", record') /\ record' \in Rows
<1> DEFINE terminal == IF task[p].seen.state = "quarantined" THEN "quarantined" ELSE "expired"
           base == Withdrawn(record, terminal)
<1>0. PICK d \in Decisions : d = task[p].decision
  BY TaskFacts DEF Claim, At, StepInv, Asked
<1>1. /\ d[1] = "delete" /\ record.claim = None /\ ~record.hold /\ d # None
      /\ record.version = d[2] /\ audit[d].outcome # "none"
  BY <1>0, TaskFacts, DecisionTypes DEF Claim, At, Deciding, StepInv, Asked, Claimable, Current
<1>2. audit[d].outcome = "open"
  <2>1. Verdict(d, audit[d].outcome) /\ audit[d] \in AuditRows
    BY TaskFacts DEF RowInv, AuditInv, RowTypes
  <2>2. ~Refused(d) /\ record.claim # d
    BY <1>1, TaskFacts DEF Refused
  <2> QED BY <1>1, <2>1, <2>2 DEF Verdict, AuditRows
<1>3. /\ record' = [base EXCEPT !.claim = task[p].decision]
      /\ GoSeeing(p, "revoke", [base EXCEPT !.claim = task[p].decision])
      /\ UNCHANGED <<object, grant, audit>>
  BY <1>1 DEF Claim, Claimable
<1>4. terminal \in Revocable
  BY DEF Revocable
<1>5. /\ base \in Rows /\ base.state = terminal /\ base.version = record.version + 1
      /\ base.hold = record.hold
  BY <1>4, MovedRow, TaskFacts
<1> HIDE DEF base, terminal
<1>6. /\ record' \in Rows /\ record'.state = terminal /\ record'.version = record.version + 1
      /\ record'.hold = record.hold /\ record'.claim = d
  BY <1>0, <1>3, <1>5 DEF Rows
<1>7. Changed(terminal, FALSE, d)
  BY <1>1, <1>6 DEF Changed
<1>8. Kept
  BY <1>1, <1>2, <1>3, <1>4, <1>7, RowChangeKeeps DEF RowChanged, Claimed
<1>9. audit'[d].outcome # "none" /\ GoSeeing(p, "revoke", record')
  BY <1>1, <1>3
<1> QED BY <1>0, <1>1, <1>4, <1>6, <1>8, <1>9

LEMMA ClaimActs == ASSUME IInv, NEW p \in Processes, Claim(p) PROVE Acted(p)
<1>0. PICK d \in Decisions : d = task[p].decision
  BY TaskFacts DEF Claim, At, StepInv, Asked
<1>1. /\ d[1] = "delete" /\ d # None /\ audit[d].outcome # "none"
      /\ \/ record.claim = d
         \/ /\ task[p].seen.version = d[2]
            /\ task[p].seen.version = record.version => record.claim = None
      /\ task[p].seen.version <= record.version
  BY <1>0, TaskFacts, DecisionTypes DEF Claim, At, Deciding, StepInv, Asked
<1>2. ASSUME Kept, record' \in Rows, GoSeeing(p, "revoke", record'), record'.claim = d,
             audit'[d].outcome # "none", record'.state # "deleted"
      PROVE  Acted(p)
  <2>1. /\ Seen(record') \in SeenRows /\ Seen(record').version = record'.version
        /\ record'.version \in Nat
    BY <1>2, SeenTypes DEF Rows
  <2>2. /\ \E l : Became(p, l)
        /\ task'[p].at = "revoke" /\ task'[p].decision = d /\ task'[p].seen = Seen(record')
    BY <1>0, <1>2, WentSeeing
  <2> QED BY <1>1, <1>2, <2>1, <2>2 DEF Acted, StepInv, Asked, Destroying
<1>3. CASE Claimable(p)
  <2>1. record'.state # "deleted"
    BY <1>3, ClaimTakes DEF Revocable
  <2> QED BY <1>0, <1>2, <1>3, <2>1, ClaimTakes
<1>4. CASE ~Claimable(p)
  <2>1. UNCHANGED <<record, object, grant, audit>>
    BY <1>4 DEF Claim
  <2>2. Kept
    BY <2>1, QuietKeeps
  <2>3. CASE record.claim = d /\ record.state # "deleted"
    <3>1. GoSeeing(p, "revoke", record')
      BY <1>0, <1>4, <2>1, <2>3 DEF Claim
    <3> QED BY <1>1, <1>2, <2>1, <2>2, <2>3, <3>1, TaskFacts
  <2>4. CASE record.claim = d /\ record.state = "deleted"
    <3>1. Conclude(p, "applied")
      BY <1>0, <1>4, <2>4 DEF Claim
    <3>2. Verdict(d, "applied")'
      BY <1>1, <2>1, <2>4 DEF Verdict
    <3> QED BY <1>0, <1>1, <2>2, <3>1, <3>2, Concluded DEF Acted
  <2>5. CASE record.claim # d
    <3>1. Refused(d)
      <4>1. d[2] \in Nat
        BY DecisionTypes, CustodyAssumption
      <4>2. task[p].seen.version = d[2] /\ (d[2] = record.version => record.claim = None)
        BY <1>1, <2>5
      <4>3. d[2] = record.version => record.hold
        BY <1>4, <4>2 DEF Claimable, Current
      <4> QED BY <1>1, <2>5, <4>1, <4>2, <4>3, TaskFacts DEF Refused
    <3>2. PICK result \in {"denied", "conflict"} : Conclude(p, result)
      BY <1>0, <1>4, <2>5 DEF Claim
    <3>3. Verdict(d, result)'
      BY <1>1, <2>1, <3>1 DEF Verdict, Refused
    <3> QED BY <1>0, <1>1, <2>2, <3>2, <3>3, Concluded DEF Acted
  <2> QED BY <2>3, <2>4, <2>5
<1> QED BY <1>3, <1>4

LEMMA RevokeActs == ASSUME IInv, NEW p \in Processes, Revoke(p) PROVE Acted(p)
<1> DEFINE t == task[p]
           step == IF Deciding(p) = "expire" THEN "expire" ELSE "erase"
<1>1. Kept /\ Barred'
  BY RevocationKeeps DEF Revoke
<1>2. Go(p, step) /\ UNCHANGED <<record, object, audit>> /\ step \in {"expire", "erase"}
  BY DEF Revoke
<1>3. SeenInv(t.seen)'
  BY <1>1, <1>2, Went, TaskFacts, SeenStays
<1>4. CASE t.at = "revoke"
  <2>1. /\ step = "erase" /\ t.decision \in Decisions /\ t.decision[1] = "delete"
        /\ record.claim = t.decision /\ audit[t.decision].outcome # "none"
        /\ record.state = "deleted" \/ t.seen.version = record.version
    BY <1>4, TaskFacts DEF Deciding, StepInv, Destroying
  <2> QED BY <1>1, <1>2, <1>3, <2>1, Went DEF Acted, StepInv, SeenInv, Asked, Destroying
<1>5. CASE t.at = "change" /\ t.decision[1] = "expire"
  <2>1. /\ step = "expire" /\ t.decision \in Decisions /\ audit[t.decision].outcome # "none"
        /\ t.seen.state \in Live /\ t.seen.version = t.decision[2]
    BY <1>5, TaskFacts DEF Deciding, StepInv, Asked
  <2> QED BY <1>1, <1>2, <1>3, <1>5, <2>1, Went DEF Acted, StepInv, SeenInv, Asked, Destroying
<1> QED BY <1>4, <1>5 DEF Revoke, At, Deciding

LEMMA EraseActs == ASSUME IInv, NEW p \in Processes, Erase(p) PROVE Acted(p)
<1> DEFINE t == task[p]
           d == t.decision
<1>1. /\ d \in Decisions /\ d[1] = "delete" /\ d # None /\ record.claim = d
      /\ audit[d].outcome # "none" /\ Barred
      /\ record.state = "deleted" \/ t.seen.version = record.version
  BY TaskFacts, DecisionTypes DEF Erase, At, StepInv, Destroying
<1>2. Kept
  BY <1>1, ObjectKeeps DEF Erase
<1>3. Go(p, "tombstone") /\ object' \in Destroyed /\ UNCHANGED <<record, grant, audit>>
  BY DEF Erase, Destroyed
<1>4. SeenInv(t.seen)'
  BY <1>2, <1>3, Went, TaskFacts, SeenStays
<1>5. Barred'
  BY <1>1, <1>3 DEF Barred
<1> QED BY <1>1, <1>2, <1>3, <1>4, <1>5, Went DEF Acted, StepInv, SeenInv, Asked, Destroying

LEMMA TombstoneActs == ASSUME IInv, NEW p \in Processes, Tombstone(p) PROVE Acted(p)
<1> DEFINE t == task[p]
<1>0. PICK d \in Decisions : d = t.decision
  BY TaskFacts DEF Tombstone, At, StepInv, Destroying
<1>1. /\ d[1] = "delete" /\ d # None /\ record.claim = d /\ audit[d].outcome # "none"
      /\ record.state = "deleted" \/ t.seen.version = record.version
      /\ object \in Destroyed
  BY <1>0, TaskFacts, DecisionTypes DEF Tombstone, At, StepInv, Destroying
<1>2. UNCHANGED <<object, grant, audit>> /\ Conclude(p, "applied")
  BY <1>0, <1>1 DEF Tombstone, Current
<1>3. CASE Current(p)
  <2>1. record.state # "deleted"
    BY <1>3, TaskFacts DEF Current, SeenInv, Seen, SeenRows, Live, Revocable
  <2>2. record' = Withdrawn(record, "deleted")
    BY <1>3 DEF Tombstone
  <2>3. Changed("deleted", record.hold, record.claim)
    BY <2>2, MovedRow, TaskFacts DEF Changed
  <2>4. Kept
    BY <1>1, <1>2, <2>1, <2>3, RowChangeKeeps DEF RowChanged, Buried
  <2>5. Verdict(d, "applied")'
    BY <1>1, <2>3 DEF Verdict, Changed
  <2> QED BY <1>0, <1>1, <1>2, <2>4, <2>5, Concluded DEF Acted
<1>4. CASE ~Current(p)
  <2>1. record' = record /\ record.state = "deleted"
    BY <1>1, <1>4 DEF Tombstone, Current
  <2>2. Kept
    BY <1>2, <2>1, QuietKeeps
  <2>3. Verdict(d, "applied")'
    BY <1>1, <2>1 DEF Verdict
  <2> QED BY <1>0, <1>1, <1>2, <2>2, <2>3, Concluded DEF Acted
<1> QED BY <1>3, <1>4

(* The retention sweep.                                                    *)
LEMMA SweepReadActs == ASSUME IInv, NEW s \in Processes, SweepRead(s) PROVE Acted(s)
<1>1. Kept /\ record' = record
  BY QuietKeeps DEF SweepRead
<1>2. CASE Adopt(s)
  BY <1>2, AdoptActs DEF SweepRead
<1>3. CASE record.claim = None /\ GoSeeing(s, "exists", record)
  <2>1. record.state \notin {"absent", "deleted"}
    BY DEF SweepRead
  <2>2. record.version \in 1..(MaxVersion + 2)
    BY <1>3, <2>1, TaskFacts, CustodyAssumption DEF RecordInv
  <2>3. /\ \E l : Became(s, l)
        /\ task'[s].at = "exists" /\ task'[s].seen = Seen(record)
    BY <1>3, <2>1, WentSeeing, TaskFacts
  <2>4. /\ SeenInv(Seen(record))' /\ Seen(record)' = Seen(record)
        /\ Seen(record).version = record.version
    BY <1>1, <2>1, JustSeen
  <2> QED BY <1>1, <1>3, <2>2, <2>3, <2>4 DEF Acted, StepInv, SeenInv, Asked, Destroying
<1> QED BY <1>2, <1>3 DEF SweepRead

LEMMA SweepExistsActs == ASSUME IInv, NEW s \in Processes, SweepExists(s) PROVE Acted(s)
<1>1. Kept /\ record' = record
  BY QuietKeeps DEF SweepExists
<1>2. CASE Done(s)
  BY <1>1, <1>2, IsDone DEF Acted
<1>0. PICK row \in SeenRows : row = task[s].seen
  BY TaskFacts
<1>3. row \in SeenRows /\ Seen(row) = row /\ SeenInv(row) /\ row.version \in 1..(MaxVersion + 2)
  <2>1. Seen(row) = row
    BY DEF Seen, SeenRows
  <2> QED BY <1>0, <2>1, TaskFacts DEF SweepExists, At, StepInv
<1>4. row.version = record.version => record.claim = None
  BY <1>0, TaskFacts DEF SweepExists, At, StepInv
<1>5. SeenInv(row)'
  BY <1>1, <1>3 DEF SeenInv, Seen
<1>6. PICK gone \in BOOLEAN : gone = (object \notin Present)
  OBVIOUS
<1>7. CASE row.state \in Live /\ SweepDecide(s, row, gone, <<"expire", row.version>>)
  <2> DEFINE d == <<"expire", row.version>>
  <2>1. d \in Decisions /\ d[1] = "expire" /\ d[2] = row.version
    BY <1>3 DEF Decisions, Actions
  <2>2. SweepDecide(s, row, gone, d)
    BY <1>7
  <2> HIDE DEF d
  <2>3. /\ \E l : Became(s, l)
        /\ task'[s].at = "authorize" /\ task'[s].decision = d /\ task'[s].seen = row
    BY <1>3, <2>1, <2>2, HasDecided
  <2> QED BY <1>1, <1>5, <1>7, <2>1, <2>3 DEF Acted, StepInv, SeenInv, Asked, Destroying
<1>8. CASE SweepDecide(s, row, gone, <<"delete", row.version>>)
  <2> DEFINE d == <<"delete", row.version>>
  <2>1. d \in Decisions /\ d[1] = "delete" /\ d[2] = row.version
    BY <1>3 DEF Decisions, Actions
  <2>2. SweepDecide(s, row, gone, d)
    BY <1>8
  <2> HIDE DEF d
  <2>3. /\ \E l : Became(s, l)
        /\ task'[s].at = "authorize" /\ task'[s].decision = d /\ task'[s].seen = row
    BY <1>3, <2>1, <2>2, HasDecided
  <2> QED BY <1>1, <1>4, <1>5, <2>1, <2>3, ToDelete
<1>9. Retired(row) => row.state \in Live
  BY DEF Retired, Live
<1> QED BY <1>0, <1>2, <1>6, <1>7, <1>8, <1>9 DEF SweepExists

LEMMA SweepExpireActs == ASSUME IInv, NEW s \in Processes, SweepExpire(s) PROVE Acted(s)
<1> DEFINE t == task[s]
<1>0. PICK d \in Decisions : d = t.decision
  BY TaskFacts DEF SweepExpire, At, StepInv
<1>1. /\ d[1] = "expire" /\ t.seen.state \in Live /\ audit[d].outcome # "none"
  BY <1>0, TaskFacts DEF SweepExpire, At, StepInv
<1>2. UNCHANGED <<object, grant, audit>>
  BY DEF SweepExpire
<1>3. CASE Current(s)
  <2>1. record.state \in Live
    BY <1>1, <1>3, TaskFacts DEF Current, SeenInv, Seen
  <2>2. record' = Withdrawn(record, "expired") /\ Conclude(s, "applied")
    BY <1>3 DEF SweepExpire
  <2>3. "expired" \in Revocable /\ "expired" \notin Live \cup {"absent"}
    BY DEF Live, Revocable
  <2>4. Changed("expired", record.hold, record.claim)
    BY <2>2, <2>3, MovedRow, TaskFacts DEF Changed
  <2>5. Kept
    BY <1>2, <2>1, <2>3, <2>4, RowChangeKeeps DEF RowChanged, MovedOn
  <2>6. Verdict(d, "applied")'
    BY <1>1, <2>3, <2>4 DEF Verdict, Changed
  <2> QED BY <1>0, <1>1, <2>2, <2>5, <2>6, Concluded DEF Acted
<1>4. CASE ~Current(s)
  <2>1. record' = record
    BY <1>4 DEF SweepExpire
  <2>2. Kept
    BY <1>2, <2>1, QuietKeeps
  <2>3. CASE record.state = "expired"
    <3>1. PICK result \in {"applied", "conflict"} : Conclude(s, result)
      BY DEF SweepExpire
    <3>2. Verdict(d, result)'
      BY <1>1, <2>1, <2>3 DEF Verdict, Live
    <3> QED BY <1>0, <1>1, <2>2, <3>1, <3>2, Concluded DEF Acted
  <2>4. CASE record.state # "expired"
    <3>1. Conclude(s, "conflict")
      BY <1>4, <2>4 DEF SweepExpire
    <3>2. Verdict(d, "conflict")'
      BY <1>1 DEF Verdict
    <3> QED BY <1>0, <1>1, <2>2, <3>1, <3>2, Concluded DEF Acted
  <2> QED BY <2>3, <2>4
<1> QED BY <1>3, <1>4

LEMMA SweepExpiredActs == ASSUME IInv, NEW s \in Processes, SweepExpired(s) PROVE Acted(s)
<1>1. Kept /\ record' = record
  BY QuietKeeps DEF SweepExpired
<1>2. CASE Done(s)
  BY <1>1, <1>2, IsDone DEF Acted
<1> DEFINE d == IF record.claim # None THEN record.claim ELSE <<"delete", record.version>>
<1>3. CASE record.state # "deleted" /\ SweepDecide(s, record, TRUE, d)
  <2>1. record.state # "absent"
    BY TaskFacts DEF SweepExpired, At, StepInv
  <2>2. /\ d \in Decisions /\ d[1] = "delete"
        /\ record.claim = d \/ (record.claim = None /\ d[2] = record.version)
    <3>1. CASE record.claim # None
      BY <3>1, TaskFacts DEF RecordInv, Rows
    <3>2. CASE record.claim = None
      <4>1. record.version \in 1..(MaxVersion + 2)
        BY <2>1, <3>2, TaskFacts, CustodyAssumption DEF RecordInv
      <4> QED BY <3>2, <4>1 DEF Decisions, Actions
    <3> QED BY <3>1, <3>2
  <2> HIDE DEF d
  <2>3. /\ SeenInv(Seen(record))' /\ Seen(record)' = Seen(record)
        /\ Seen(record).version = record.version /\ Seen(record) \in SeenRows
    BY <1>1, <1>3, JustSeen
  <2>4. /\ \E l : Became(s, l)
        /\ task'[s].at = "authorize" /\ task'[s].decision = d /\ task'[s].seen = Seen(record)
    BY <1>3, <2>2, <2>3, HasDecided
  <2> QED BY <1>1, <2>2, <2>3, <2>4, ToDelete
<1> QED BY <1>2, <1>3 DEF SweepExpired

LEMMA InterruptActs == ASSUME IInv, NEW p \in Processes, Interrupt(p) PROVE Acted(p)
BY QuietKeeps, IsDone DEF Interrupt, Acted

LEMMA ProcessActs == ASSUME IInv, NEW p \in Processes, Step(p) \/ Interrupt(p) PROVE Acted(p)
<1>1. CASE WriterStep(p)
  BY <1>1, WriterActs
<1>2. CASE CustodianStep(p)
  BY <1>2, AskHoldActs, AskDeleteActs, SetHoldActs DEF CustodianStep
<1>3. CASE SweepStep(p)
  BY <1>3, SweepReadActs, SweepExistsActs, SweepExpireActs, SweepExpiredActs DEF SweepStep
<1>4. CASE DecisionStep(p)
  BY <1>4, AuthorizeActs, ClaimActs, RevokeActs, EraseActs, TombstoneActs, RecordOutcomeActs
     DEF DecisionStep
<1>5. CASE Interrupt(p)
  BY <1>5, InterruptActs
<1> QED BY <1>1, <1>2, <1>3, <1>4, <1>5 DEF Step

-----------------------------------------------------------------------------
(* The invariant.                                                          *)

LEMMA Counters ==
  ASSUME TypeOK, [Next]_vars
  PROVE  aged' \in BOOLEAN /\ faults' \in 0..MaxFaults
<1>1. aged \in BOOLEAN /\ faults \in 0..MaxFaults
  BY DEF TypeOK
<1>2. CASE UNCHANGED vars
  BY <1>1, <1>2 DEF vars
<1>3. ASSUME NEW p \in Processes, Step(p) PROVE UNCHANGED <<aged, faults>>
  BY <1>3 DEF Step, WriterStep, CustodianStep, SweepStep, DecisionStep, Lookup, Put, Create, Load, Withdraw,
     Move, AskHold, AskDelete, SetHold, SweepRead, SweepExists, SweepExpire, SweepExpired, Authorize,
     Claim, Revoke, Erase, Tombstone, RecordOutcome
<1>4. ASSUME NEW p \in Processes, Interrupt(p) PROVE aged' = aged /\ faults' \in 0..MaxFaults
  BY <1>1, <1>4, CustodyAssumption DEF Interrupt
<1>5. ASSUME NEW r \in Readers, ReaderStep(r) PROVE UNCHANGED <<aged, faults>>
  BY <1>5 DEF ReaderStep, Grant, Sign, Use, Verify
<1>6. CASE LoseObject
  BY <1>1, <1>6, CustodyAssumption DEF LoseObject
<1>7. CASE Age
  BY <1>1, <1>7 DEF Age
<1> QED BY <1>1, <1>2, <1>3, <1>4, <1>5, <1>6, <1>7 DEF Next

LEMMA InitIInv == Init => IInv
<1> SUFFICES ASSUME Init PROVE IInv
  OBVIOUS
<1>1. RowTypes
  BY CustodyAssumption
     DEF Init, RowTypes, Unrecorded, Rows, Undecided, AuditRows, Ungranted, GrantRows
<1>2. task \in [Processes -> Local] /\ \A p \in Processes : task[p] = Idle
  BY IdleTypes DEF Init
<1>3. TypeOK
  <2>1. aged \in BOOLEAN
    BY DEF Init
  <2>2. faults \in 0..MaxFaults
    BY CustodyAssumption DEF Init
  <2> QED BY <1>1, <1>2, <2>1, <2>2 DEF TypeOK, RowTypes, Local, AuditRows, GrantRows
<1>4. record = Unrecorded /\ record.state = "absent" /\ record.version = 0 /\ record.claim = None
  BY DEF Init, Unrecorded
<1>5. \A d \in Decisions : audit[d].outcome = "none"
  BY DEF Init, Undecided
<1>6. \A r \in Readers : grant[r].at = "idle"
  BY DEF Init, Ungranted
<1>7. RecordInv
  BY <1>4, CustodyAssumption DEF Init, RecordInv, Live, Destroyed
<1>8. AuditInv /\ GrantInv
  BY <1>5, <1>6 DEF AuditInv, Verdict, GrantInv
<1>9. ASSUME NEW p \in Processes PROVE StepInv(p)
  <2>1. task[p].at = "idle" /\ task[p].seen = Unseen
    BY <1>2, IdleTypes
  <2>2. Unseen.version = 0 /\ Seen(record) = Unseen
    BY <1>4 DEF Unseen, Seen, Unrecorded
  <2> QED BY <1>4, <2>1, <2>2 DEF StepInv, Asked, Destroying
<1> QED BY <1>3, <1>7, <1>8, <1>9 DEF IInv, Init, Destroyed

LEMMA StepIInv == IInv /\ [Next]_vars => IInv'
<1> SUFFICES ASSUME IInv, [Next]_vars PROVE IInv'
  OBVIOUS
<1>1. TypeOK /\ task \in [Processes -> Local]
  BY TypeFacts DEF IInv
<1>2. ASSUME Kept, task' \in [Processes -> Local], \A p \in Processes : StepInv(p)' PROVE IInv'
  <2>1. TypeOK'
    BY <1>1, <1>2, Counters DEF Kept, TypeOK, RowTypes, Local, AuditRows, GrantRows
  <2> QED BY <1>2, <2>1 DEF IInv, Kept, RowInv
<1>3. ASSUME NEW p \in Processes, Acted(p) PROVE IInv'
  <2>1. PICK l : Became(p, l)
    BY <1>3 DEF Acted
  <2>2. task' \in [Processes -> Local] /\ \A q \in Processes \ {p} : task'[q] = task[q]
    BY <1>1, <2>1, BecameFacts
  <2>3. \A q \in Processes : StepInv(q)'
    BY <1>3, <2>2, OthersSteps DEF Acted
  <2> QED BY <1>2, <1>3, <2>2, <2>3 DEF Acted
<1>4. ASSUME Kept, task' = task PROVE IInv'
  <2>1. \A q \in Processes : StepInv(q)'
    BY <1>4, OthersSteps
  <2> QED BY <1>1, <1>2, <1>4, <2>1
<1>5. CASE UNCHANGED vars
  BY <1>4, <1>5, QuietKeeps DEF vars
<1>6. ASSUME NEW r \in Readers, ReaderStep(r) PROVE IInv'
  BY <1>4, <1>6, ReaderKeeps DEF ReaderStep, Grant, Sign, Use, Verify
<1>7. CASE LoseObject \/ Age
  BY <1>4, <1>7, PassiveKeeps DEF LoseObject, Age
<1> QED BY <1>3, <1>5, <1>6, <1>7, ProcessActs DEF Next

LEMMA Invariant == Spec => []IInv
BY InitIInv, StepIInv, PTL DEF Spec

-----------------------------------------------------------------------------
(* Every variable has its type, for any number of processes and readers.   *)
THEOREM TypeCorrect == Spec => []TypeOK
<1>1. IInv => TypeOK
  BY DEF IInv
<1> QED BY <1>1, Invariant, PTL

(* Content under a legal hold is never destroyed: only the owner of a      *)
(* claim erases, a claim is taken only on an unheld row by one             *)
(* compare-and-set, and a claimed row takes no hold (destroy, SetLegalHold *)
(* and ClaimDeletion of the artifact store).                               *)
THEOREM HoldsProtect == Spec => []HeldContentSurvives
<1>1. IInv => HeldContentSurvives
  BY DEF IInv, RecordInv, HeldContentSurvives
<1> QED BY <1>1, Invariant, PTL

(* What is destroyed was claimed by a recorded decision to delete that is  *)
(* open or applied, and a tombstone stands only over an artifact whose     *)
(* content that decision's destruction has erased, whoever had looked the  *)
(* artifact up before it was recorded and puts the bytes back (destroy     *)
(* beside two executions of Create).                                       *)
THEOREM DestructionHasOwner == Spec => []DestructionIsOwned
<1>1. IInv => DestructionIsOwned
  BY DEF IInv, RecordInv, DestructionIsOwned, Live, Revocable
<1> QED BY <1>1, Invariant, PTL

(* Whichever process closes a decision, and however often it is adopted    *)
(* after a death, its recorded outcome is what happened to the artifact.   *)
THEOREM AuditToldTruly == Spec => []AuditIsTrue
<1>1. ASSUME IInv PROVE AuditIsTrue
  <2>1. ASSUME NEW d \in Decisions, audit[d].outcome \in {"denied", "conflict"}
        PROVE  record.claim # d
    <3>1. Verdict(d, audit[d].outcome) /\ d # None
      BY <1>1, DecisionTypes DEF IInv, AuditInv
    <3> QED BY <1>1, <2>1, <3>1 DEF IInv, RecordInv, Verdict, Refused
  <2> QED BY <1>1, <2>1 DEF AuditIsTrue, IInv, AuditInv, Verdict
<1> QED BY <1>1, Invariant, PTL

(* A grant that was being verified while the content was destroyed had     *)
(* been revoked before it, so its verification admits nobody (UseGrant     *)
(* beside destroy's order of claim, revoke, erase).                        *)
THEOREM NoLateAccess == Spec => NoAccessAfterErasure
<1>1. ASSUME IInv, [Next]_vars, NEW r \in Readers, grant[r].at # "admitted", grant'[r].at = "admitted"
      PROVE  object' \notin Destroyed
  <2>0. grant \in [Readers -> GrantRows] /\ (object \in Destroyed => Barred)
    BY <1>1, RowFacts DEF RowTypes, RowInv
  <2>1. CASE grant' = grant
    BY <1>1, <2>1
  <2>2. CASE grant' = Revoked
    <3>1. grant'[r].at = grant[r].at
      BY <2>0, <2>2 DEF Revoked, GrantRows
    <3> QED BY <1>1, <3>1
  <2>3. ASSUME NEW q \in Readers, Grant(q) \/ Sign(q) \/ Use(q) PROVE FALSE
    <3>1. grant'[q].at \in {"signing", "held", "verifying"} /\ (r # q => grant'[r] = grant[r])
      <4>1. CASE Grant(q)
        BY <2>0, <4>1 DEF Grant
      <4>2. CASE Sign(q)
        BY <2>0, <4>2 DEF Sign, GrantRows
      <4>3. CASE Use(q)
        BY <2>0, <4>3 DEF Use, GrantRows
      <4> QED BY <2>3, <4>1, <4>2, <4>3
    <3> QED BY <1>1, <3>1
  <2>4. ASSUME NEW q \in Readers, Verify(q) PROVE object' \notin Destroyed
    <3>1. q = r
      BY <1>1, <2>0, <2>4 DEF Verify
    <3>2. ~grant[r].revoked /\ grant[r].at = "verifying"
      BY <1>1, <2>0, <2>4, <3>1 DEF Verify, GrantRows
    <3> QED BY <2>0, <2>4, <3>2 DEF Verify, Barred
  <2>5. ASSUME NEW p \in Processes, Step(p) \/ Interrupt(p) PROVE grant' \in {grant, Revoked}
    BY <2>5 DEF Interrupt, Step, WriterStep, CustodianStep, SweepStep, DecisionStep, Lookup, Put, Create, Load,
       Withdraw, Move, AskHold, AskDelete, SetHold, SweepRead, SweepExists, SweepExpire, SweepExpired,
       Authorize, Claim, Revoke, Erase, Tombstone, RecordOutcome
  <2>6. CASE LoseObject \/ Age \/ UNCHANGED vars
    BY <2>1, <2>6 DEF LoseObject, Age, vars
  <2> QED BY <1>1, <2>1, <2>2, <2>3, <2>4, <2>5, <2>6 DEF Next, ReaderStep
<1>2. IInv /\ [Next]_vars => [\A r \in Readers : grant[r].at # "admitted" /\ grant'[r].at = "admitted"
                                                 => object' \notin Destroyed]_vars
  BY <1>1
<1> QED BY <1>2, Invariant, PTL DEF Spec, NoAccessAfterErasure
=============================================================================
