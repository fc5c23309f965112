--------------------------- MODULE ApplyIssuance ----------------------------
(***************************************************************************)
(* Issuing an apply authorization over the API: a signed capability to     *)
(* redeem one approved decision.  The command runs under a command receipt *)
(* and converges twice more below it: on the operation identity derived    *)
(* from the whole command, under which one issuance is recorded together   *)
(* with its audit row, and on the evidence identity of that operation.     *)
(*                                                                         *)
(* Every read and write of another component is a step of its own; between *)
(* any two the process may die or a call may fail.  The run, the approval, *)
(* the artifact and the current authority are one fact here: whether the   *)
(* decision stands.  It can be withdrawn, and never comes back under the   *)
(* same command, whose revision and decision version are then stale.  A    *)
(* token is its identity; signing and the key's own revocation are left    *)
(* out.                                                                    *)
(***************************************************************************)
EXTENDS CommandReceipts

CONSTANTS
  MaxTokens, \* bound: the identities there are to allocate
  MaxFaults  \* bound: deaths and failing calls

Tokens == 1..MaxTokens

ASSUME IssuanceAssumption == MaxTokens \in Nat /\ MaxFaults \in Nat /\ Outcomes = Tokens

VARIABLES
  standing,  \* each command's decision still stands
  minted,    \* tokens signed so far
  issued,    \* the issuance recorded for an operation, with its audit row
  facts,     \* authorization facts in the receipt journal
  account,   \* the time the evidence of an operation's issuance states, 0 for none
  step,      \* where a caller is in its command
  token,     \* the capability it carries
  faults

vars == <<receiptVars, standing, minted, issued, facts, account, step, token, faults>>

Init ==
  /\ ReceiptInit
  /\ standing = [m \in Commands |-> TRUE]
  /\ minted = 0
  /\ issued = [m \in Commands |-> None]
  /\ facts = {}
  /\ account = [m \in Commands |-> 0]
  /\ step = [c \in Callers |-> "idle"]
  /\ token = [c \in Callers |-> None]
  /\ faults = 0

Running == {"check", "lookup", "resolve", "audit", "journal", "account", "record", "failed"}
Carrying == {"audit", "journal", "account", "record"}

-----------------------------------------------------------------------------
At(c, s) == step[c] = s
Go(c, s) == step' = [step EXCEPT ![c] = s]
Carry(c, t) == token' = [token EXCEPT ![c] = t]
Issued(c) == issued[CommandOf[c]]

Return(c) == Go(c, "idle") /\ Carry(c, None)

(* The receipt claims, takes over or replays.                              *)
Ask(c) ==
  /\ At(c, "idle")
  /\ Begin(c)
  /\ IF claim'[c] # 0 THEN Go(c, "check") ELSE UNCHANGED step
  /\ UNCHANGED <<standing, minted, issued, facts, account, token, faults>>

(* The command is compared with the run, the approval, the artifact and    *)
(* current authority as they are now.                                      *)
Check(c) ==
  /\ At(c, "check")
  /\ Go(c, IF standing[CommandOf[c]] THEN "lookup" ELSE "failed")
  /\ UNCHANGED <<receiptVars, standing, minted, issued, facts, account, token, faults>>

\* Mutant of Recorded: the caller that finds an issuance gives no account of it.
RecordedUnaccounted(c) == Go(c, "record") /\ Carry(c, Issued(c))

Recorded(c) == Go(c, "account") /\ Carry(c, Issued(c))

(* An issuance already recorded for the operation is the answer.           *)
Lookup(c) ==
  /\ At(c, "lookup")
  /\ IF Issued(c) # None THEN Recorded(c) ELSE Go(c, "resolve") /\ UNCHANGED token
  /\ UNCHANGED <<receiptVars, standing, minted, issued, facts, account, faults>>

(* The issuer resolves both bindings itself, allocates an identity and     *)
(* signs.                                                                  *)
Resolve(c) ==
  /\ At(c, "resolve") /\ minted < MaxTokens
  /\ IF standing[CommandOf[c]]
     THEN Go(c, "audit") /\ Carry(c, minted + 1) /\ minted' = minted + 1
     ELSE Go(c, "failed") /\ UNCHANGED <<token, minted>>
  /\ UNCHANGED <<receiptVars, standing, issued, facts, account, faults>>

\* Mutant of FirstFor: the operation mapping is not an insert-once.
FirstForAlways(c) == TRUE

FirstFor(c) == Issued(c) = None

(* Audit row and operation mapping in one transaction.  Who loses the      *)
(* insert rolls both back and reads the winner.                            *)
Audit(c) ==
  /\ At(c, "audit")
  /\ IF FirstFor(c)
     THEN /\ issued' = [issued EXCEPT ![CommandOf[c]] = token[c]]
          /\ Go(c, "journal")
          /\ UNCHANGED token
     ELSE Go(c, "lookup") /\ Carry(c, None) /\ UNCHANGED issued
  /\ UNCHANGED <<receiptVars, standing, minted, facts, account, faults>>

Journal(c) ==
  /\ At(c, "journal")
  /\ facts' = facts \cup {token[c]}
  /\ Go(c, "account")
  /\ UNCHANGED <<receiptVars, standing, minted, issued, account, token, faults>>

Accounted(c) == account[CommandOf[c]]

(* The evidence of an issuance is identified by the operation; the store   *)
(* takes the same content again and refuses any other.  All of it comes    *)
(* from the operation and its issuance but the time it occurred, which is  *)
(* read anew on every attempt.                                             *)
Account(c) ==
  /\ At(c, "account")
  /\ IF Accounted(c) \in {0, now}
     THEN account' = [account EXCEPT ![CommandOf[c]] = now] /\ Go(c, "record") /\ UNCHANGED token
     ELSE Go(c, "failed") /\ Carry(c, None) /\ UNCHANGED account
  /\ UNCHANGED <<receiptVars, standing, minted, issued, facts, faults>>

\* Mutant of Outcome: a lost claim does not keep the caller from its answer.
OutcomeRegardless(c) ==
  /\ SetRow(c, IF Fenced(c) THEN [Row(c) EXCEPT !.outcome = token[c]] ELSE Row(c))
  /\ answer' = [answer EXCEPT ![c] = token[c]]
  /\ claim' = [claim EXCEPT ![c] = 0]
  /\ UNCHANGED now

Outcome(c) == Record(c, token[c])

Finish(c) ==
  /\ At(c, "record")
  /\ Outcome(c)
  /\ Return(c)
  /\ UNCHANGED <<standing, minted, issued, facts, account, faults>>

GiveUp(c) ==
  /\ At(c, "failed")
  /\ Abandon(c)
  /\ Return(c)
  /\ UNCHANGED <<standing, minted, issued, facts, account, faults>>

(* A call of the command fails, its effect left undone; one that failed    *)
(* after its effect is the failure of the call that follows.               *)
Fail(c) ==
  /\ step[c] \in Running \ {"record", "failed"} /\ faults < MaxFaults
  /\ Go(c, "failed") /\ Carry(c, None)
  /\ faults' = faults + 1
  /\ UNCHANGED <<receiptVars, standing, minted, issued, facts, account>>

Crash(c) ==
  /\ step[c] \in Running /\ faults < MaxFaults
  /\ Die(c)
  /\ Return(c)
  /\ faults' = faults + 1
  /\ UNCHANGED <<standing, minted, issued, facts, account>>

Withdraw(m) ==
  /\ standing[m]
  /\ standing' = [standing EXCEPT ![m] = FALSE]
  /\ UNCHANGED <<receiptVars, minted, issued, facts, account, step, token, faults>>

Environment ==
  /\ Tick \/ \E c \in Callers : AskAgain(c)
  /\ UNCHANGED <<standing, minted, issued, facts, account, step, token, faults>>

Attempt(c) ==
  \/ Ask(c) \/ Check(c) \/ Lookup(c) \/ Resolve(c) \/ Audit(c) \/ Journal(c)
  \/ Account(c) \/ Finish(c) \/ GiveUp(c)

Next ==
  \/ \E c \in Callers : Attempt(c) \/ Fail(c) \/ Crash(c)
  \/ \E m \in Commands : Withdraw(m)
  \/ Environment

Spec == Init /\ [][Next]_vars

-----------------------------------------------------------------------------
(* Types, and what each step carries: a claim exactly while a command      *)
(* runs, a token from its signature or its record on.                      *)
TypeOK ==
  /\ ReceiptTypeOK
  /\ step \in [Callers -> Running \cup {"idle"}]
  /\ token \in [Callers -> Tokens \cup {None}]
  /\ \A c \in Callers :
       /\ claim[c] # 0 <=> step[c] \in Running
       /\ token[c] # None <=> step[c] \in Carrying
  /\ issued \in [Commands -> Tokens \cup {None}]
  /\ facts \subseteq Tokens /\ minted \in Nat /\ faults \in Nat
  /\ account \in [Commands -> Nat] /\ standing \in [Commands -> BOOLEAN]

(* No capability leaves the service without its account: whoever is        *)
(* answered, by issuing, by finding the issuance or by a replay, has the   *)
(* token audited for its own command, and evidence states when.  And no    *)
(* account is invented: evidence and journal facts speak of recorded       *)
(* issuances only, never of the token a lost race rolled back.             *)
AccountsAgree ==
  /\ \A c \in Callers : answer[c] # None =>
       answer[c] = Issued(c) /\ Accounted(c) # 0
  /\ \A m \in Commands : account[m] # 0 => issued[m] # None
  /\ facts \subseteq {issued[m] : m \in Commands}

Operation == INSTANCE SettledOnce WITH
  Invocations <- Commands, InvocationOf <- CommandOf, Outputs <- Tokens, Unsettled <- None,
  settled <- issued, answer <- answer

(* One command yields one capability: under any number of keys, races,     *)
(* takeovers and repetitions an operation's issuance is recorded once and  *)
(* every answer carries that token.                                        *)
OneCapability == Operation!Spec

(* The command keeps the receipt protocol: it answers what it recorded     *)
(* under its claim and nothing else, whatever its own steps do.            *)
KeepsReceiptProtocol == ReceiptSpec

(* What the comment at execution/apioperations.go:298 says: a repeated     *)
(* request that converges on one capability converges on one account of    *)
(* it.                                                                     *)
RepeatsConverge ==
  [][\A c \in Callers : At(c, "account") /\ token[c] = Issued(c) => ~(step'[c] = "failed")]_vars
=============================================================================
