-------------------------- MODULE CommandReceipts ---------------------------
(***************************************************************************)
(* The two-phase receipt of an idempotent command.  Begin claims the key   *)
(* or replays the recorded outcome; the command then runs outside any      *)
(* transaction; Record stores its outcome, Abandon releases the claim of a *)
(* command that had none.  Each is one statement or transaction on the row *)
(* of the key.  A claim is a lease, and its epoch fences a holder that     *)
(* outlives it.                                                            *)
(*                                                                         *)
(* A caller is one request on its way through a process; a client that     *)
(* repeats itself while the first request still runs is a second caller    *)
(* with the same key and command.  The command of a request is its digest, *)
(* the resource it addresses and the revision it observed, which the row   *)
(* compares one by one.  What the command does is left open here.          *)
(***************************************************************************)
EXTENDS Integers

CONSTANTS
  Callers, Keys, Commands, Outcomes,
  KeyOf,      \* the idempotency key of each caller
  CommandOf,  \* the command each caller sends under it
  None,
  Lease,      \* how long a claim stands without an outcome
  MaxTime,    \* bound: the clock stops here
  MaxEpoch    \* bound: a claim of this epoch is not taken over

ASSUME ReceiptAssumption ==
  /\ KeyOf \in [Callers -> Keys]
  /\ CommandOf \in [Callers -> Commands]
  /\ None \notin Outcomes
  /\ Lease \in Nat \ {0} /\ MaxTime \in Nat /\ MaxEpoch \in Nat

VARIABLES
  receipt,  \* the row of each key; epoch 0 is no row
  claim,    \* the epoch a caller holds, 0 when it holds none
  answer,   \* the outcome a caller was answered with
  now

receiptVars == <<receipt, claim, answer, now>>

Unclaimed == [command |-> None, outcome |-> None, reserved |-> 0, epoch |-> 0]

(* The clock starts where the backdated claim of Abandon has lapsed.       *)
ReceiptInit ==
  /\ receipt = [k \in Keys |-> Unclaimed]
  /\ claim = [c \in Callers |-> 0]
  /\ answer = [c \in Callers |-> None]
  /\ now = Lease

-----------------------------------------------------------------------------
Row(c) == receipt[KeyOf[c]]
SetRow(c, row) == receipt' = [receipt EXCEPT ![KeyOf[c]] = row]

Asking(c) == claim[c] = 0 /\ answer[c] = None

SameCommand(c) == Row(c).command = CommandOf[c]

(* Nobody has used the key: the insert wins.                               *)
Claim(c) ==
  /\ Asking(c) /\ Row(c).epoch = 0
  /\ SetRow(c, [command |-> CommandOf[c], outcome |-> None, reserved |-> now, epoch |-> 1])
  /\ claim' = [claim EXCEPT ![c] = 1]
  /\ UNCHANGED <<answer, now>>

(* The recorded outcome answers a repetition.                              *)
Replay(c) ==
  /\ Asking(c) /\ Row(c).epoch # 0 /\ SameCommand(c)
  /\ Row(c).outcome # None
  /\ answer' = [answer EXCEPT ![c] = Row(c).outcome]
  /\ UNCHANGED <<receipt, claim, now>>

Reclaimed(row) == [row EXCEPT !.reserved = now, !.epoch = @ + 1]

(* The lease has elapsed without an outcome.  Within the lease the key is  *)
(* in flight, and another command under it is a conflict: both are told    *)
(* so and change nothing.                                                  *)
TakeOver(c) ==
  /\ Asking(c) /\ Row(c).epoch # 0 /\ SameCommand(c)
  /\ Row(c).outcome = None
  /\ now >= Row(c).reserved + Lease /\ Row(c).epoch < MaxEpoch
  /\ SetRow(c, Reclaimed(Row(c)))
  /\ claim' = [claim EXCEPT ![c] = Reclaimed(Row(c)).epoch]
  /\ UNCHANGED <<answer, now>>

Begin(c) == Claim(c) \/ Replay(c) \/ TakeOver(c)

\* Mutant of Fenced: any holder writes while no outcome is recorded.
FencedByStatusOnly(c) == Row(c).outcome = None

Fenced(c) == Row(c).outcome = None /\ Row(c).epoch = claim[c]

(* The update lands under the fence; after it the caller answers when the  *)
(* row carries an outcome of its own claim, and has lost the claim if not. *)
Record(c, o) ==
  /\ claim[c] # 0
  /\ LET row == IF Fenced(c) THEN [Row(c) EXCEPT !.outcome = o] ELSE Row(c)
     IN /\ SetRow(c, row)
        /\ answer' = IF row.epoch = claim[c] /\ row.outcome # None
                     THEN [answer EXCEPT ![c] = o] ELSE answer
  /\ claim' = [claim EXCEPT ![c] = 0]
  /\ UNCHANGED now

Abandon(c) ==
  /\ claim[c] # 0
  /\ SetRow(c, IF Fenced(c) THEN [Row(c) EXCEPT !.reserved = 0, !.epoch = @ + 1] ELSE Row(c))
  /\ claim' = [claim EXCEPT ![c] = 0]
  /\ UNCHANGED <<answer, now>>

(* The process dies under the claim, or the abandon itself fails.          *)
Die(c) ==
  /\ claim[c] # 0
  /\ claim' = [claim EXCEPT ![c] = 0]
  /\ UNCHANGED <<receipt, answer, now>>

(* The answer is lost on its way and the client asks again.                *)
AskAgain(c) ==
  /\ answer[c] # None
  /\ answer' = [answer EXCEPT ![c] = None]
  /\ UNCHANGED <<receipt, claim, now>>

Tick ==
  /\ now < MaxTime
  /\ now' = now + 1
  /\ UNCHANGED <<receipt, claim, answer>>

ReceiptNext ==
  \/ \E c \in Callers :
       \/ Begin(c) \/ Abandon(c) \/ Die(c) \/ AskAgain(c)
       \/ \E o \in Outcomes : Record(c, o)
  \/ Tick

ReceiptSpec == ReceiptInit /\ [][ReceiptNext]_receiptVars

-----------------------------------------------------------------------------
(* Type correctness.                                                       *)
ReceiptTypeOK ==
  /\ receipt \in [Keys -> [command : Commands \cup {None}, outcome : Outcomes \cup {None},
                           reserved : Nat, epoch : Nat]]
  /\ claim \in [Callers -> Nat]
  /\ answer \in [Callers -> Outcomes \cup {None}]
  /\ now \in Nat

(* A claim has one holder: two requests in flight under one key never hold *)
(* the same epoch, however many takeovers and abandons came between them,  *)
(* and none holds an epoch the row has not reached.  Every fence of Record *)
(* and Abandon rests on it.                                                *)
OneHolder ==
  \A c \in Callers : claim[c] # 0 =>
    /\ claim[c] <= Row(c).epoch
    /\ \A d \in Callers \ {c} : KeyOf[d] = KeyOf[c] => claim[d] # claim[c]

(* A claim ends by its holder or by its lease: while it stands, the row    *)
(* changes only in the step in which the caller holding it records or      *)
(* abandons.  A late holder neither records over its successor's command   *)
(* nor releases its successor's key.                                       *)
HolderDecides ==
  [][\A k \in Keys :
       \/ receipt'[k] = receipt[k] \/ receipt[k].epoch = 0
       \/ \E c \in Callers : KeyOf[c] = k /\ claim[c] = receipt[k].epoch /\ claim'[c] = 0
       \/ receipt[k].outcome = None /\ now >= receipt[k].reserved + Lease]_receiptVars

(* A recorded outcome is final: no late Record overwrites it, and no late  *)
(* Abandon or takeover reopens its key.                                    *)
OutcomeStands ==
  [][\A k \in Keys : receipt[k].outcome # None => receipt'[k] = receipt[k]]_receiptVars

Settled == INSTANCE SettledOnce WITH
  Invocations <- Keys, InvocationOf <- KeyOf, Outputs <- Outcomes, Unsettled <- None,
  settled <- [k \in Keys |-> receipt[k].outcome]

(* A key settles on one outcome, and whoever is answered under it, by      *)
(* executing the command or by a replay, is answered with that outcome.    *)
KeySettlesOnce == Settled!Spec
=============================================================================
