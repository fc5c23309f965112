------------------------ MODULE ApplyIssuanceProofs ------------------------
(***************************************************************************)
(* For any callers, keys, commands, outcomes and bounds.  First what every *)
(* command receipt promises: no step of that argument uses the clock, the  *)
(* epoch alone carries the protocol, and the lease only decides when a key *)
(* becomes available again.  Then the apply operation: issuing keeps the   *)
(* receipt protocol, so that the theorems about receipts hold of it; no    *)
(* capability is answered without its audit and its account; an operation  *)
(* has one.                                                                *)
(***************************************************************************)
EXTENDS ApplyIssuance, TLAPS

-----------------------------------------------------------------------------
(* Command receipts.                                                       *)

(* Answers come from rows: an answered caller has its key's outcome.       *)
Answered ==
  \A c \in Callers : answer[c] # None => answer[c] = Row(c).outcome

(* A claim on a key whose outcome is recorded is a late one.               *)
LateClaims ==
  \A c \in Callers : claim[c] # 0 /\ Row(c).outcome # None => claim[c] < Row(c).epoch

(* Before its first claim a key has no outcome.                            *)
Vacant == \A k \in Keys : receipt[k].epoch = 0 => receipt[k].outcome = None

ReceiptInv == ReceiptTypeOK /\ OneHolder /\ Answered /\ LateClaims /\ Vacant

-----------------------------------------------------------------------------
LEMMA ReceiptStart == ReceiptInit => ReceiptInv
BY ReceiptAssumption
   DEF ReceiptInit, ReceiptInv, ReceiptTypeOK, OneHolder, Answered, LateClaims, Vacant, Unclaimed, Row

(* Each action keeps the types.                                            *)
LEMMA StepType == ASSUME ReceiptTypeOK, [ReceiptNext]_receiptVars PROVE ReceiptTypeOK'
<1> USE ReceiptAssumption DEF ReceiptTypeOK, Row, SetRow
<1> DEFINE RowType == [command : Commands \cup {None}, outcome : Outcomes \cup {None},
                       reserved : Nat, epoch : Nat]
<1>1. ASSUME NEW c \in Callers, Claim(c) PROVE ReceiptTypeOK'
  BY <1>1 DEF Claim
<1>2. ASSUME NEW c \in Callers, Replay(c) PROVE ReceiptTypeOK'
  BY <1>2 DEF Replay
<1>3. ASSUME NEW c \in Callers, TakeOver(c) PROVE ReceiptTypeOK'
  <2>1. Row(c) \in RowType /\ Row(c).epoch + 1 \in Nat OBVIOUS
  <2>2. Reclaimed(Row(c)) \in RowType BY <2>1 DEF Reclaimed
  <2>3. Reclaimed(Row(c)).epoch \in Nat BY <2>2
  <2>4. QED BY <1>3, <2>2, <2>3 DEF TakeOver
<1>4. ASSUME NEW c \in Callers, NEW o \in Outcomes, Record(c, o) PROVE ReceiptTypeOK'
  BY <1>4 DEF Record, Fenced
<1>5. ASSUME NEW c \in Callers, Abandon(c) PROVE ReceiptTypeOK'
  <2>1. Row(c) \in RowType /\ Row(c).epoch + 1 \in Nat OBVIOUS
  <2>2. [Row(c) EXCEPT !.reserved = 0, !.epoch = @ + 1] \in RowType BY <2>1
  <2>3. QED BY <1>5, <2>2 DEF Abandon
<1>6. ASSUME NEW c \in Callers, Die(c) \/ AskAgain(c) PROVE ReceiptTypeOK'
  BY <1>6 DEF Die, AskAgain
<1>7. CASE Tick BY <1>7 DEF Tick
<1>8. CASE UNCHANGED receiptVars BY <1>8 DEF receiptVars
<1>9. QED BY <1>1, <1>2, <1>3, <1>4, <1>5, <1>6, <1>7, <1>8 DEF ReceiptNext, Begin

(* Under the invariant each action changes the row of one key at most, and *)
(* a claim of another key's caller never.                                  *)
LEMMA ReceiptStep == ASSUME ReceiptInv, [ReceiptNext]_receiptVars PROVE ReceiptInv'
<1> USE ReceiptAssumption DEF ReceiptInv, Row, SetRow
<1>0. ReceiptTypeOK /\ ReceiptTypeOK' BY StepType
<1> USE <1>0 DEF ReceiptTypeOK
<1>1. ASSUME NEW c \in Callers, Claim(c) PROVE ReceiptInv'
  <2>1. \A d \in Callers : KeyOf[d] = KeyOf[c] => claim[d] = 0 /\ answer[d] = None
    BY <1>1 DEF Claim, OneHolder, Answered, Vacant
  <2>2. OneHolder' BY <1>1, <2>1 DEF Claim, OneHolder
  <2>3. Answered' BY <1>1, <2>1 DEF Claim, Answered
  <2>4. LateClaims' BY <1>1, <2>1 DEF Claim, LateClaims
  <2>5. Vacant' BY <1>1 DEF Claim, Vacant
  <2>6. QED BY <2>2, <2>3, <2>4, <2>5
<1>2. ASSUME NEW c \in Callers, Replay(c) PROVE ReceiptInv'
  BY <1>2 DEF Replay, Asking, OneHolder, Answered, LateClaims, Vacant
<1>3. ASSUME NEW c \in Callers, TakeOver(c) PROVE ReceiptInv'
  <2>1. OneHolder' BY <1>3 DEF TakeOver, Reclaimed, Asking, OneHolder
  <2>2. Answered' BY <1>3 DEF TakeOver, Reclaimed, Asking, Answered
  <2>3. LateClaims' BY <1>3 DEF TakeOver, Reclaimed, Asking, LateClaims
  <2>4. Vacant' BY <1>3 DEF TakeOver, Reclaimed, Vacant
  <2>5. QED BY <2>1, <2>2, <2>3, <2>4
<1>4. ASSUME NEW c \in Callers, NEW o \in Outcomes, Record(c, o) PROVE ReceiptInv'
  <2>1. OneHolder' BY <1>4 DEF Record, Fenced, OneHolder
  <2>2. Answered' BY <1>4 DEF Record, Fenced, Answered, LateClaims
  <2>3. LateClaims'
    <3>1. CASE ~Fenced(c)
      <4>1. receipt' = receipt BY <1>4, <3>1 DEF Record
      <4>2. \A d \in Callers : claim'[d] = claim[d] \/ claim'[d] = 0 BY <1>4 DEF Record
      <4> QED BY <4>1, <4>2 DEF LateClaims
    <3>2. CASE Fenced(c)
      <4>1. \A d \in Callers : Row(d)'.epoch = Row(d).epoch BY <1>4, <3>2 DEF Record
      <4>2. \A d \in Callers : KeyOf[d] # KeyOf[c] => Row(d)' = Row(d) BY <1>4, <3>2 DEF Record
      <4>3. \A d \in Callers \ {c} : claim'[d] = claim[d] BY <1>4 DEF Record
      <4>4. claim'[c] = 0 /\ claim[c] # 0 /\ claim[c] = Row(c).epoch BY <1>4, <3>2 DEF Record, Fenced
      <4>5. ASSUME NEW d \in Callers \ {c}, KeyOf[d] = KeyOf[c], claim[d] # 0 PROVE claim[d] < Row(d).epoch
        <5>1. claim[d] <= Row(c).epoch /\ claim[d] # claim[c] BY <4>4, <4>5 DEF OneHolder
        <5>2. claim[d] \in Nat /\ Row(c).epoch \in Nat BY ReceiptAssumption
        <5>3. claim[c] = Row(c).epoch /\ Row(d) = Row(c) BY <4>4, <4>5
        <5> HIDE DEF Row, SetRow, ReceiptTypeOK, ReceiptInv
        <5>4. claim[d] < Row(c).epoch BY <5>1, <5>2, <5>3
        <5> QED BY <5>3, <5>4
      <4> QED BY <4>1, <4>2, <4>3, <4>4, <4>5 DEF LateClaims
    <3> QED BY <3>1, <3>2
  <2>4. Vacant' BY <1>4 DEF Record, Fenced, OneHolder, Vacant
  <2>5. QED BY <2>1, <2>2, <2>3, <2>4
<1>5. ASSUME NEW c \in Callers, Abandon(c) PROVE ReceiptInv'
  <2>1. OneHolder' BY <1>5 DEF Abandon, Fenced, OneHolder
  <2>2. Answered' BY <1>5 DEF Abandon, Fenced, Answered
  <2>3. LateClaims' BY <1>5 DEF Abandon, Fenced, LateClaims
  <2>4. Vacant' BY <1>5 DEF Abandon, Fenced, Vacant
  <2>5. QED BY <2>1, <2>2, <2>3, <2>4
<1>6. ASSUME NEW c \in Callers, Die(c) \/ AskAgain(c) PROVE ReceiptInv'
  <2>1. CASE Die(c) BY <2>1 DEF Die, OneHolder, Answered, LateClaims, Vacant
  <2>2. CASE AskAgain(c) BY <2>2 DEF AskAgain, OneHolder, Answered, LateClaims, Vacant
  <2> QED BY <1>6, <2>1, <2>2
<1>7. CASE Tick BY <1>7 DEF Tick, OneHolder, Answered, LateClaims, Vacant
<1>8. CASE UNCHANGED receiptVars BY <1>8 DEF receiptVars, OneHolder, Answered, LateClaims, Vacant
<1>9. QED BY <1>1, <1>2, <1>3, <1>4, <1>5, <1>6, <1>7, <1>8 DEF ReceiptNext, Begin

LEMMA ReceiptInvariant == ReceiptSpec => []ReceiptInv
BY ReceiptStart, ReceiptStep, PTL DEF ReceiptSpec

(* Types hold in every state of Begin, Record and Abandon's protocol.      *)
THEOREM ReceiptTypes == ReceiptSpec => []ReceiptTypeOK
BY ReceiptInvariant, PTL DEF ReceiptInv

(* No two requests in flight ever hold one claim of a key.                 *)
THEOREM ExclusiveClaim == ReceiptSpec => []OneHolder
BY ReceiptInvariant, PTL DEF ReceiptInv

(* A late holder touches nothing: a row changes by its holder's own step   *)
(* or after its lease.                                                     *)
THEOREM HoldersDecide == ReceiptSpec => HolderDecides
<1>1. ASSUME ReceiptInv, [ReceiptNext]_receiptVars, NEW k \in Keys,
             receipt'[k] # receipt[k], receipt[k].epoch # 0
      PROVE  \/ \E c \in Callers : KeyOf[c] = k /\ claim[c] = receipt[k].epoch /\ claim'[c] = 0
             \/ receipt[k].outcome = None /\ now >= receipt[k].reserved + Lease
  <2> USE <1>1, ReceiptAssumption DEF ReceiptInv, ReceiptTypeOK, Row, SetRow
  <2>1. ASSUME NEW c \in Callers, Claim(c) PROVE FALSE BY <2>1 DEF Claim
  <2>2. ASSUME NEW c \in Callers, TakeOver(c)
        PROVE receipt[k].outcome = None /\ now >= receipt[k].reserved + Lease
    BY <2>2 DEF TakeOver
  <2>3. ASSUME NEW c \in Callers, NEW o \in Outcomes, Record(c, o)
        PROVE KeyOf[c] = k /\ claim[c] = receipt[k].epoch /\ claim'[c] = 0
    BY <2>3 DEF Record, Fenced
  <2>4. ASSUME NEW c \in Callers, Abandon(c)
        PROVE KeyOf[c] = k /\ claim[c] = receipt[k].epoch /\ claim'[c] = 0
    BY <2>4 DEF Abandon, Fenced
  <2>5. QED BY <1>1, <2>1, <2>2, <2>3, <2>4
            DEF ReceiptNext, Begin, Replay, Die, AskAgain, Tick, receiptVars
<1>2. ReceiptInv /\ [ReceiptNext]_receiptVars =>
        [\A k \in Keys :
           \/ receipt'[k] = receipt[k] \/ receipt[k].epoch = 0
           \/ \E c \in Callers : KeyOf[c] = k /\ claim[c] = receipt[k].epoch /\ claim'[c] = 0
           \/ receipt[k].outcome = None /\ now >= receipt[k].reserved + Lease]_receiptVars
  BY <1>1
<1>3. QED BY <1>2, ReceiptInvariant, PTL DEF ReceiptSpec, HolderDecides

(* What is recorded stays recorded.                                        *)
THEOREM OutcomesStand == ReceiptSpec => OutcomeStands
<1>1. ASSUME ReceiptInv, [ReceiptNext]_receiptVars, NEW k \in Keys, receipt[k].outcome # None
      PROVE  receipt'[k] = receipt[k]
  BY <1>1, ReceiptAssumption
     DEF ReceiptInv, ReceiptTypeOK, Vacant, Row, SetRow, ReceiptNext, Begin, Claim, Replay, TakeOver,
         Record, Abandon, Fenced, Die, AskAgain, Tick, receiptVars
<1>2. ReceiptInv /\ [ReceiptNext]_receiptVars =>
        [\A k \in Keys : receipt[k].outcome # None => receipt'[k] = receipt[k]]_receiptVars
  BY <1>1
<1>3. QED BY <1>2, ReceiptInvariant, PTL DEF ReceiptSpec, OutcomeStands

-----------------------------------------------------------------------------
(* The row's outcome is what SettledOnce calls settled, and every step of  *)
(* the protocol is one of its steps or leaves both alone.                  *)
LEMMA StepRefines ==
  ASSUME ReceiptInv, [ReceiptNext]_receiptVars
  PROVE  [Settled!Next]_<<[k \in Keys |-> receipt[k].outcome], answer>>
<1> USE ReceiptAssumption DEF ReceiptInv, ReceiptTypeOK, Row, SetRow
<1> DEFINE settled == [k \in Keys |-> receipt[k].outcome]
<1>1. ASSUME NEW c \in Callers, Claim(c) PROVE UNCHANGED <<settled, answer>>
  BY <1>1 DEF Claim, Vacant
<1>2. ASSUME NEW c \in Callers, Replay(c) PROVE Settled!Answer(c)
  BY <1>2 DEF Replay, Settled!Answer
<1>3. ASSUME NEW c \in Callers, TakeOver(c) PROVE UNCHANGED <<settled, answer>>
  BY <1>3 DEF TakeOver, Reclaimed
<1>4. ASSUME NEW c \in Callers, NEW o \in Outcomes, Record(c, o)
      PROVE Settled!SettleAndAnswer(c, o) \/ UNCHANGED <<settled, answer>>
  <2>1. CASE Fenced(c) BY <1>4, <2>1 DEF Record, Fenced, Settled!SettleAndAnswer
  <2>2. CASE ~Fenced(c) BY <1>4, <2>2 DEF Record, Fenced, OneHolder, LateClaims
  <2>3. QED BY <2>1, <2>2
<1>5. ASSUME NEW c \in Callers, Abandon(c) PROVE UNCHANGED <<settled, answer>>
  BY <1>5 DEF Abandon, Fenced
<1>6. ASSUME NEW c \in Callers, AskAgain(c) PROVE Settled!Forget(c)
  BY <1>6 DEF AskAgain, Settled!Forget
<1>7. ASSUME NEW c \in Callers, Die(c) PROVE UNCHANGED <<settled, answer>> BY <1>7 DEF Die
<1>8. CASE Tick BY <1>8 DEF Tick
<1>9. CASE UNCHANGED receiptVars BY <1>9 DEF receiptVars
<1>10. QED BY <1>1, <1>2, <1>3, <1>4, <1>5, <1>6, <1>7, <1>8, <1>9
           DEF ReceiptNext, Begin, Settled!Next

(* A key settles once and every answer under it is what it settled on:     *)
(* the protocol implements SettledOnce.                                    *)
THEOREM ReceiptsImplementSettledOnce == ReceiptSpec => KeySettlesOnce
<1>1. ReceiptInit => Settled!Init BY ReceiptAssumption DEF ReceiptInit, Unclaimed, Settled!Init
<1>2. QED BY <1>1, StepRefines, ReceiptInvariant, PTL DEF ReceiptSpec, KeySettlesOnce, Settled!Spec

-----------------------------------------------------------------------------
(* Issuance.                                                               *)

(* What a caller carries past the audit is the recorded issuance, and past *)
(* the account the evidence is there.                                      *)
Carried ==
  \A c \in Callers :
    /\ step[c] \in {"journal", "account", "record"} => token[c] = Issued(c)
    /\ step[c] = "record" => Accounted(c) # 0

(* A claim is on a row of the caller's own command.                        *)
OwnCommand == \A c \in Callers : claim[c] # 0 => SameCommand(c)

(* A recorded outcome is the capability of the row's command, accounted.   *)
Receipted ==
  \A k \in Keys : receipt[k].outcome # None =>
    /\ receipt[k].command \in Commands
    /\ receipt[k].outcome = issued[receipt[k].command]
    /\ account[receipt[k].command] # 0

ClockRuns == now # 0

IssuanceInv ==
  /\ ReceiptInv /\ TypeOK /\ AccountsAgree
  /\ Carried /\ OwnCommand /\ Receipted /\ ClockRuns

-----------------------------------------------------------------------------
LEMMA IssuanceInit == Init => IssuanceInv
BY ReceiptAssumption, IssuanceAssumption, ReceiptStart
   DEF Init, ReceiptInit, IssuanceInv, TypeOK, ReceiptTypeOK, AccountsAgree, Carried, OwnCommand,
       Receipted, ClockRuns, Unclaimed, Running, Carrying, Row, Issued, Accounted, SameCommand

(* Every step of the issuance is a step of the receipt protocol or leaves  *)
(* the receipts alone.                                                     *)
LEMMA StepKeeps == ASSUME TypeOK, [Next]_vars PROVE [ReceiptNext]_receiptVars
<1> USE IssuanceAssumption
<1>1. ASSUME NEW c \in Callers, Ask(c) PROVE ReceiptNext BY <1>1 DEF Ask, ReceiptNext
<1>2. ASSUME NEW c \in Callers, Check(c) \/ Lookup(c) \/ Resolve(c) \/ Audit(c) \/ Journal(c)
                                \/ Account(c) \/ Fail(c)
      PROVE UNCHANGED receiptVars
  BY <1>2 DEF Check, Lookup, Resolve, Audit, Journal, Account, Fail
<1>3. ASSUME NEW c \in Callers, Finish(c) PROVE ReceiptNext
  <2>1. token[c] \in Outcomes BY <1>3 DEF Finish, At, TypeOK, Carrying
  <2>2. QED BY <1>3, <2>1 DEF Finish, Outcome, ReceiptNext
<1>4. ASSUME NEW c \in Callers, GiveUp(c) PROVE ReceiptNext BY <1>4 DEF GiveUp, ReceiptNext
<1>5. ASSUME NEW c \in Callers, Crash(c) PROVE ReceiptNext BY <1>5 DEF Crash, ReceiptNext
<1>6. ASSUME NEW m \in Commands, Withdraw(m) PROVE UNCHANGED receiptVars BY <1>6 DEF Withdraw
<1>7. CASE Environment BY <1>7 DEF Environment, ReceiptNext
<1>8. CASE UNCHANGED vars BY <1>8 DEF vars
<1>9. QED BY <1>1, <1>2, <1>3, <1>4, <1>5, <1>6, <1>7, <1>8 DEF Next, Attempt

LEMMA IssuanceTypes == ASSUME TypeOK, [Next]_vars PROVE TypeOK'
<1> USE DEF Running, Carrying, At, Go, Carry, Return
<1>a. None \notin Tokens /\ \A c \in Callers : CommandOf[c] \in Commands
  BY ReceiptAssumption, IssuanceAssumption
<1>0. ReceiptTypeOK' BY StepKeeps, StepType DEF TypeOK
<1> USE <1>0 DEF TypeOK
<1>1. ASSUME NEW c \in Callers, Ask(c) PROVE TypeOK'
  <2> USE <1>1 DEF Ask, ReceiptTypeOK
  <2>1. CASE Claim(c) BY <2>1 DEF Claim
  <2>2. CASE Replay(c) BY <2>2 DEF Replay, Asking
  <2>3. CASE TakeOver(c)
    <3>1. /\ claim'[c] # 0 /\ \A d \in Callers \ {c} : claim'[d] = claim[d]
      <4>1. Row(c).epoch \in Nat BY ReceiptAssumption DEF Row
      <4>2. claim' = [claim EXCEPT ![c] = Reclaimed(Row(c)).epoch] BY <2>3 DEF TakeOver
      <4>3. Reclaimed(Row(c)).epoch = Row(c).epoch + 1 BY ReceiptAssumption DEF Reclaimed, Row
      <4>4. QED BY <4>1, <4>2, <4>3
    <3>2. step' = [step EXCEPT ![c] = "check"] /\ step[c] = "idle" /\ claim' \in [Callers -> Nat]
      BY <3>1
    <3>3. QED BY <3>1, <3>2
  <2>4. QED BY <2>1, <2>2, <2>3 DEF Begin
<1>2. ASSUME NEW c \in Callers, Check(c) PROVE TypeOK' BY <1>2 DEF Check, receiptVars, ReceiptTypeOK
<1>3. ASSUME NEW c \in Callers, Lookup(c) PROVE TypeOK' BY <1>3, <1>a DEF Lookup, Recorded, Issued, receiptVars, ReceiptTypeOK
<1>4. ASSUME NEW c \in Callers, Resolve(c) PROVE TypeOK'
  <2>1. minted + 1 \in Tokens BY <1>4, IssuanceAssumption DEF Resolve, Tokens
  <2>2. QED BY <1>4, <1>a, <2>1 DEF Resolve, receiptVars, ReceiptTypeOK
<1>5. ASSUME NEW c \in Callers, Audit(c) PROVE TypeOK' BY <1>5, <1>a DEF Audit, FirstFor, receiptVars, ReceiptTypeOK, Issued, Accounted
<1>6. ASSUME NEW c \in Callers, Journal(c) PROVE TypeOK' BY <1>6 DEF Journal, receiptVars, ReceiptTypeOK
<1>7. ASSUME NEW c \in Callers, Account(c) PROVE TypeOK' BY <1>7, <1>a DEF Account, receiptVars, ReceiptTypeOK, Issued, Accounted
<1>8. ASSUME NEW c \in Callers, Finish(c) PROVE TypeOK' BY <1>8 DEF Finish, Outcome, Record, receiptVars, ReceiptTypeOK
<1>9. ASSUME NEW c \in Callers, GiveUp(c) PROVE TypeOK' BY <1>9 DEF GiveUp, Abandon, receiptVars, ReceiptTypeOK
<1>10. ASSUME NEW c \in Callers, Fail(c) PROVE TypeOK' BY <1>10 DEF Fail, receiptVars, ReceiptTypeOK
<1>11. ASSUME NEW c \in Callers, Crash(c) PROVE TypeOK' BY <1>11 DEF Crash, Die, receiptVars, ReceiptTypeOK
<1>12. ASSUME NEW m \in Commands, Withdraw(m) PROVE TypeOK' BY <1>12 DEF Withdraw, receiptVars, ReceiptTypeOK
<1>13. CASE Environment BY <1>13 DEF Environment, Tick, AskAgain
<1>14. CASE UNCHANGED vars BY <1>14 DEF vars, receiptVars, ReceiptTypeOK
<1>15. QED BY <1>1, <1>2, <1>3, <1>4, <1>5, <1>6, <1>7, <1>8, <1>9, <1>10, <1>11, <1>12, <1>13, <1>14 DEF Next, Attempt

(* One conjunct at a time.  What the steps of one caller rest on: its      *)
(* command is a command, its key a key, and no token is None.              *)
LEMMA IssuanceStep == ASSUME IssuanceInv, [Next]_vars PROVE IssuanceInv'
<1> USE DEF At, Go, Carry, Return, Row, Issued, Accounted, SameCommand
<1>a. /\ None \notin Tokens
      /\ \A c \in Callers : CommandOf[c] \in Commands /\ KeyOf[c] \in Keys
  BY ReceiptAssumption, IssuanceAssumption
<1>b. TypeOK /\ TypeOK' /\ ReceiptInv' BY IssuanceTypes, StepKeeps, ReceiptStep DEF IssuanceInv
<1> USE <1>a, <1>b DEF IssuanceInv, TypeOK, ReceiptTypeOK, Carrying
<1>1. ASSUME NEW c \in Callers, Ask(c) /\ Claim(c) PROVE IssuanceInv'
  <2>1. AccountsAgree' BY <1>1 DEF Ask, Claim, SetRow, AccountsAgree
  <2>2. Carried' BY <1>1 DEF Ask, Claim, SetRow, Carried
  <2>3. OwnCommand' BY <1>1 DEF Ask, Claim, SetRow, OwnCommand, ReceiptInv, OneHolder
  <2>4. Receipted' BY <1>1 DEF Ask, Claim, SetRow, Receipted
  <2>5. ClockRuns' BY <1>1 DEF Ask, Claim, SetRow, ClockRuns
  <2>6. QED BY <2>1, <2>2, <2>3, <2>4, <2>5
<1>2. ASSUME NEW c \in Callers, Ask(c) /\ Replay(c) PROVE IssuanceInv'
  BY <1>2 DEF Ask, Replay, AccountsAgree, Carried, OwnCommand, Receipted, ClockRuns
<1>3. ASSUME NEW c \in Callers, Ask(c) /\ TakeOver(c) PROVE IssuanceInv'
  <2>1. AccountsAgree' BY <1>3 DEF Ask, TakeOver, Reclaimed, SetRow, AccountsAgree
  <2>2. Carried' BY <1>3 DEF Ask, TakeOver, Reclaimed, SetRow, Carried
  <2>3. OwnCommand' BY <1>3 DEF Ask, TakeOver, Reclaimed, SetRow, OwnCommand
  <2>4. Receipted' BY <1>3 DEF Ask, TakeOver, Reclaimed, SetRow, Receipted
  <2>5. ClockRuns' BY <1>3 DEF Ask, TakeOver, Reclaimed, SetRow, ClockRuns
  <2>6. QED BY <2>1, <2>2, <2>3, <2>4, <2>5
<1>4. ASSUME NEW c \in Callers, Check(c) PROVE IssuanceInv'
  BY <1>4 DEF Check, receiptVars, AccountsAgree, Carried, OwnCommand, Receipted, ClockRuns
<1>5. ASSUME NEW c \in Callers, Lookup(c) PROVE IssuanceInv'
  <2>1. AccountsAgree' BY <1>5 DEF Lookup, Recorded, receiptVars, AccountsAgree
  <2>2. Carried' BY <1>5 DEF Lookup, Recorded, receiptVars, Carried
  <2>3. OwnCommand' BY <1>5 DEF Lookup, Recorded, receiptVars, OwnCommand
  <2>4. Receipted' BY <1>5 DEF Lookup, Recorded, receiptVars, Receipted
  <2>5. ClockRuns' BY <1>5 DEF Lookup, Recorded, receiptVars, ClockRuns
  <2>6. QED BY <2>1, <2>2, <2>3, <2>4, <2>5
<1>6. ASSUME NEW c \in Callers, Resolve(c) PROVE IssuanceInv'
  BY <1>6 DEF Resolve, receiptVars, AccountsAgree, Carried, OwnCommand, Receipted, ClockRuns
<1>7. ASSUME NEW c \in Callers, Audit(c) PROVE IssuanceInv'
  <2>1. AccountsAgree' BY <1>7 DEF Audit, FirstFor, receiptVars, AccountsAgree
  <2>2. Carried' BY <1>7 DEF Audit, FirstFor, receiptVars, Carried
  <2>3. OwnCommand' BY <1>7 DEF Audit, FirstFor, receiptVars, OwnCommand
  <2>4. Receipted' BY <1>7 DEF Audit, FirstFor, receiptVars, Receipted
  <2>5. ClockRuns' BY <1>7 DEF Audit, FirstFor, receiptVars, ClockRuns
  <2>6. QED BY <2>1, <2>2, <2>3, <2>4, <2>5
<1>8. ASSUME NEW c \in Callers, Journal(c) PROVE IssuanceInv'
  <2>1. AccountsAgree' BY <1>8 DEF Journal, receiptVars, AccountsAgree, Carried
  <2>2. Carried' BY <1>8 DEF Journal, receiptVars, Carried
  <2>3. OwnCommand' BY <1>8 DEF Journal, receiptVars, OwnCommand
  <2>4. Receipted' BY <1>8 DEF Journal, receiptVars, Receipted
  <2>5. ClockRuns' BY <1>8 DEF Journal, receiptVars, ClockRuns
  <2>6. QED BY <2>1, <2>2, <2>3, <2>4, <2>5
<1>9. ASSUME NEW c \in Callers, Account(c) PROVE IssuanceInv'
  <2>1. AccountsAgree' BY <1>9 DEF Account, receiptVars, AccountsAgree, Carried
  <2>2. Carried' BY <1>9 DEF Account, receiptVars, Carried, ClockRuns
  <2>3. OwnCommand' BY <1>9 DEF Account, receiptVars, OwnCommand
  <2>4. Receipted' BY <1>9 DEF Account, receiptVars, Receipted
  <2>5. ClockRuns' BY <1>9 DEF Account, receiptVars, ClockRuns
  <2>6. QED BY <2>1, <2>2, <2>3, <2>4, <2>5
<1>10. ASSUME NEW c \in Callers, Finish(c) PROVE IssuanceInv'
  <2>1. AccountsAgree' BY <1>10 DEF Finish, Outcome, Record, Fenced, SetRow, AccountsAgree, Carried
  <2>2. Carried' BY <1>10 DEF Finish, Outcome, Record, Fenced, SetRow, Carried
  <2>3. OwnCommand' BY <1>10 DEF Finish, Outcome, Record, Fenced, SetRow, OwnCommand
  <2>4. Receipted' BY <1>10 DEF Finish, Outcome, Record, Fenced, SetRow, Receipted, Carried, OwnCommand
  <2>5. ClockRuns' BY <1>10 DEF Finish, Outcome, Record, Fenced, SetRow, ClockRuns
  <2>6. QED BY <2>1, <2>2, <2>3, <2>4, <2>5
<1>11. ASSUME NEW c \in Callers, GiveUp(c) PROVE IssuanceInv'
  <2>1. AccountsAgree' BY <1>11 DEF GiveUp, Abandon, Fenced, SetRow, AccountsAgree
  <2>2. Carried' BY <1>11 DEF GiveUp, Abandon, Fenced, SetRow, Carried
  <2>3. OwnCommand' BY <1>11 DEF GiveUp, Abandon, Fenced, SetRow, OwnCommand
  <2>4. Receipted' BY <1>11 DEF GiveUp, Abandon, Fenced, SetRow, Receipted
  <2>5. ClockRuns' BY <1>11 DEF GiveUp, Abandon, ClockRuns
  <2>6. QED BY <2>1, <2>2, <2>3, <2>4, <2>5
<1>12. ASSUME NEW c \in Callers, Fail(c) PROVE IssuanceInv'
  BY <1>12 DEF Fail, receiptVars, AccountsAgree, Carried, OwnCommand, Receipted, ClockRuns
<1>13. ASSUME NEW c \in Callers, Crash(c) PROVE IssuanceInv'
  BY <1>13 DEF Crash, Die, AccountsAgree, Carried, OwnCommand, Receipted, ClockRuns
<1>14. ASSUME NEW m \in Commands, Withdraw(m) PROVE IssuanceInv'
  BY <1>14 DEF Withdraw, receiptVars, AccountsAgree, Carried, OwnCommand, Receipted, ClockRuns
<1>15. CASE Environment
  BY <1>15 DEF Environment, Tick, AskAgain, AccountsAgree, Carried, OwnCommand, Receipted, ClockRuns
<1>16. CASE UNCHANGED vars
  BY <1>16 DEF vars, receiptVars, AccountsAgree, Carried, OwnCommand, Receipted, ClockRuns
<1>17. QED
  BY <1>1, <1>2, <1>3, <1>4, <1>5, <1>6, <1>7, <1>8, <1>9, <1>10, <1>11, <1>12, <1>13, <1>14, <1>15, <1>16 DEF Next, Attempt, Ask, Begin

LEMMA IssuanceInvariant == Spec => []IssuanceInv
BY IssuanceInit, IssuanceStep, PTL DEF Spec

(* Types, and which steps carry a claim and a token.                       *)
THEOREM IssuanceTypeCorrect == Spec => []TypeOK
BY IssuanceInvariant, PTL DEF IssuanceInv

(* No capability leaves without its audit and its account.                 *)
THEOREM AnswersAreAccounted == Spec => []AccountsAgree
BY IssuanceInvariant, PTL DEF IssuanceInv

(* Issuing keeps the receipt protocol, and with it its guarantees.         *)
THEOREM IssuanceKeepsReceipts == Spec => KeepsReceiptProtocol
<1>1. Init => ReceiptInit BY DEF Init
<1>2. IssuanceInv /\ [Next]_vars => [ReceiptNext]_receiptVars BY StepKeeps DEF IssuanceInv
<1>3. QED BY <1>1, <1>2, IssuanceInvariant, PTL DEF Spec, KeepsReceiptProtocol, ReceiptSpec

LEMMA StepSettles ==
  ASSUME IssuanceInv, IssuanceInv', [Next]_vars
  PROVE  [Operation!Next]_<<issued, answer>>
<1> USE DEF At, Go, Carry, Return, Row, Issued, SameCommand
<1>a. /\ None \notin Tokens
      /\ \A c \in Callers : CommandOf[c] \in Commands /\ KeyOf[c] \in Keys
  BY ReceiptAssumption, IssuanceAssumption
<1> USE <1>a DEF IssuanceInv, TypeOK, ReceiptTypeOK, Carrying
<1>1. ASSUME NEW c \in Callers, Ask(c) PROVE Operation!Answer(c) \/ UNCHANGED <<issued, answer>>
  BY <1>1 DEF Ask, Begin, Claim, Replay, TakeOver, Receipted, Operation!Answer
<1>2. ASSUME NEW c \in Callers, Audit(c)
      PROVE Operation!Settle(CommandOf[c], token[c]) \/ UNCHANGED <<issued, answer>>
  BY <1>2 DEF Audit, FirstFor, receiptVars, Operation!Settle
<1>3. ASSUME NEW c \in Callers, Finish(c) PROVE Operation!Answer(c) \/ UNCHANGED <<issued, answer>>
  <2>1. token[c] = issued[CommandOf[c]] /\ token[c] # None BY <1>3 DEF Finish, Carried
  <2>2. UNCHANGED issued BY <1>3 DEF Finish
  <2>3. answer' = answer \/ answer' = [answer EXCEPT ![c] = token[c]] BY <1>3 DEF Finish, Outcome, Record
  <2> QED BY <2>1, <2>2, <2>3 DEF Operation!Answer
<1>4. ASSUME NEW c \in Callers, AskAgain(c), UNCHANGED issued PROVE Operation!Forget(c)
  BY <1>4 DEF AskAgain, Operation!Forget
<1>5. ASSUME NEW c \in Callers, Check(c) \/ Lookup(c) \/ Resolve(c) \/ Journal(c) \/ Account(c)
                                \/ GiveUp(c) \/ Fail(c) \/ Crash(c)
      PROVE UNCHANGED <<issued, answer>>
  BY <1>5 DEF Check, Lookup, Resolve, Journal, Account, GiveUp, Abandon, Fail, Crash, Die, receiptVars
<1>6. ASSUME NEW m \in Commands, Withdraw(m) PROVE UNCHANGED <<issued, answer>>
  BY <1>6 DEF Withdraw, receiptVars
<1>7. ASSUME NEW c \in Callers, Audit(c) PROVE token[c] \in Tokens BY <1>7 DEF Audit
<1>8. CASE UNCHANGED vars BY <1>8 DEF vars, receiptVars
<1>9. QED
  BY <1>1, <1>2, <1>3, <1>4, <1>5, <1>6, <1>7, <1>8
     DEF Next, Attempt, Environment, Tick, Operation!Next

(* An operation has one capability and every answer is that capability:    *)
(* issuing implements SettledOnce, with commands for invocations.          *)
THEOREM IssuesOneCapability == Spec => OneCapability
<1>1. Init => Operation!Init BY DEF Init, ReceiptInit, Operation!Init
<1>2. QED BY <1>1, StepSettles, IssuanceInvariant, PTL DEF Spec, OneCapability, Operation!Spec
=============================================================================
