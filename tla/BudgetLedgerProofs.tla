------------------------- MODULE BudgetLedgerProofs -------------------------
(***************************************************************************)
(* For any generations, turns, costs, bounds and deaths: the ledger        *)
(* balances, its rows only move forward, and neither what the root holds   *)
(* nor what it has spent exceeds its cap.                                  *)
(***************************************************************************)
EXTENDS BudgetLedger, FiniteSetTheorems, WellFoundedInduction, TLAPS

(* Steps of a workflow whose generation was admitted to spend, steps after *)
(* its end is decided, and statuses no retry leaves.                       *)
Turning == {"turn", "gated", "open", "billed", "metered"}
Closing == {"terminal", "settle", "finalize", "reread", "reconcile", "sweeping", "cancelled",
            "superseded"}
Cancelling == {"cancelling", "cancelled"}
Closed == Cancelling \cup {"completed", "refused"}

(* A row of the ledger agrees with the observations recorded under it.     *)
RowInv(h, turns, identities) ==
  /\ h.observed = TurnCost * Cardinality(turns) /\ h.observed <= h.upper
  /\ ~h.reserved => h = Unreserved
  /\ identities # {} => h.final

LedgerInv == \A g \in Gens : RowInv(hold[g], metered[g], finals[g])

(* What a generation may still come to spend: its bound while it is in its *)
(* turns, nothing more before it is admitted and after its end.            *)
Promised == [g \in Gens |-> IF wf[g].at \in Turning THEN hold[g].upper ELSE hold[g].observed]
CapInv == Exposure(hold) <= Cap /\ Total(Promised, Gens) <= Cap

(* A run with a released hold, or a cancelled one, starts nothing again.   *)
RunInv ==
  /\ \A g \in Gens : /\ hold[g].released => run.status \in Closed
                     /\ hold[g].cancelled => run.status \in Cancelling
  /\ canceller.at # "idle" => run.status \in Cancelling
  /\ run.status \in Ends => \/ wf[run.generation].at = "ended"
                            \/ /\ wf[run.generation].at \in Closing
                               /\ wf[run.generation].end = run.status

OnHold == {"gated", "open", "billed", "finalize", "reread", "reconcile"}
Settling == {"settle", "finalize", "reread", "reconcile"}

WorkInv(g) ==
  LET w == wf[g] IN
  /\ g > run.generation => w.at = "unstarted"
  /\ w.at \in OnHold => hold[g].reserved
  /\ w.at \in Settling \cup {"terminal"} => w.end # "none"
  /\ w.at \in Settling /\ g = run.generation => run.status \in {w.end} \cup Cancelling
  /\ w.at = "sweeping" =>
       /\ w.then # "none" /\ (w.then = "check" => w.end = "none")
       /\ w.release /\ Sweeping(g) # {} => run.status \in Closed

SweepInv == \A p \in Processes, g \in Gens : sweep[p][g] # None => hold[g].reserved
TodoInv == \A g \in canceller.todo : hold[g].reserved

IInv ==
  /\ TypeOK /\ LedgerInv /\ CapInv /\ RunInv /\ SweepInv /\ TodoInv
  /\ \A g \in Gens : WorkInv(g)

-----------------------------------------------------------------------------
(* Sums over finite sets.  A total is a fold: the value of a recursive     *)
(* function that CHOOSE picks and that has to be shown to exist.  Where an *)
(* induction is wanted, a smallest counterexample is taken instead.        *)

Pick(s) == CHOOSE x \in s : TRUE
Folded(F, h, s) == IF s = {} THEN 0 ELSE F[Pick(s)] + h[s \ {Pick(s)}]
Fold(F, S) == CHOOSE h : h = [s \in SUBSET S |-> Folded(F, h, s)]

LEMMA TotalIsFold == ASSUME NEW F, NEW S PROVE Total(F, S) = Fold(F, S)[S]
BY DEF Total, Fold, Folded, MapThenSumSet, MapThenFoldSet, Pick

FiniteFamily(S, family) == family # {} /\ family \subseteq FiniteSubsetsOf(S)

LEMMA Least ==
  ASSUME NEW S, NEW family, FiniteFamily(S, family)
  PROVE  \E s \in family : \A r \in family : ~(r \subseteq s /\ r # s)
<1>1. \E s \in family : \A r \in family : ~(<<r, s>> \in StrictSubsetOrdering(S))
  BY FS_StrictSubsetOrderingWellFounded, WFMin DEF FiniteFamily
<1> QED BY <1>1 DEF StrictSubsetOrdering, FiniteFamily, FiniteSubsetsOf

LEMMA Inductive ==
  ASSUME NEW T \in SUBSET Nat, 0 \in T, \A n \in T : n + 1 \in T
  PROVE  T = Nat
<1> SUFFICES ASSUME T # Nat PROVE FALSE
  OBVIOUS
<1> DEFINE family == {s \in SUBSET Nat : \E n \in Nat \ T : s = 0..n}
<1>1. FiniteFamily(Nat, family)
  <2>1. PICK n \in Nat \ T : TRUE
    OBVIOUS
  <2>2. 0..n \in family
    OBVIOUS
  <2>3. ASSUME NEW s \in family PROVE s \in FiniteSubsetsOf(Nat)
    <3>1. PICK m \in Nat : s = 0..m
      OBVIOUS
    <3> QED BY <3>1, FS_Interval DEF FiniteSubsetsOf
  <2> QED BY <2>2, <2>3 DEF FiniteFamily
<1>3. PICK s \in family : \A r \in family : ~(r \subseteq s /\ r # s)
  <2> HIDE DEF family
  <2> QED BY <1>1, Least
<1>4. PICK m \in Nat \ T : s = 0..m
  OBVIOUS
<1>5. m - 1 \in Nat /\ m - 1 \notin T
  <2>1. m # 0 /\ m - 1 \in Nat /\ (m - 1) + 1 = m
    BY <1>4
  <2> QED BY <1>4, <2>1
<1>6. 0..(m - 1) \in family /\ 0..(m - 1) \subseteq s /\ 0..(m - 1) # s
  BY <1>4, <1>5
<1> QED BY <1>3, <1>6

LEMMA PickIn == ASSUME NEW s, s # {} PROVE Pick(s) \in s
BY DEF Pick

LEMMA FoldExists ==
  ASSUME NEW F, NEW S, IsFiniteSet(S)
  PROVE  \A s \in SUBSET S : Fold(F, S)[s] = Folded(F, Fold(F, S), s)
<1> DEFINE Solves(h, n) == \A s \in SUBSET S : Cardinality(s) <= n => h[s] = Folded(F, h, s)
           T == {n \in Nat : \E h : Solves(h, n)}
<1>0. \A s \in SUBSET S : IsFiniteSet(s) /\ Cardinality(s) \in Nat
  BY FS_Subset, FS_CardinalityType
<1>1. 0 \in T
  <2> DEFINE h == [s \in SUBSET S |-> 0]
  <2>1. ASSUME NEW s \in SUBSET S, Cardinality(s) <= 0 PROVE h[s] = Folded(F, h, s)
    <3>1. s = {}
      BY <1>0, <2>1, FS_EmptySet
    <3> QED BY <3>1 DEF Folded
  <2>2. Solves(h, 0)
    BY <2>1
  <2> HIDE DEF h
  <2> QED BY <2>2
<1>2. ASSUME NEW n \in T PROVE n + 1 \in T
  <2>1. PICK h : Solves(h, n)
    OBVIOUS
  <2> DEFINE k == [s \in SUBSET S |-> Folded(F, h, s)]
  <2>2. ASSUME NEW s \in SUBSET S, Cardinality(s) <= n + 1 PROVE k[s] = Folded(F, k, s)
    <3>1. CASE s = {}
      BY <3>1 DEF Folded
    <3>2. CASE s # {}
      <4> DEFINE r == s \ {Pick(s)}
      <4>1. r \in SUBSET S /\ Cardinality(r) = Cardinality(s) - 1
        BY <1>0, <3>2, PickIn, FS_RemoveElement
      <4>2. Cardinality(r) <= n
        BY <1>0, <2>2, <4>1
      <4>3. h[r] = Folded(F, h, r)
        BY <2>1, <4>1, <4>2
      <4>4. k[r] = h[r]
        BY <4>1, <4>3
      <4> QED BY <3>2, <4>4 DEF Folded
    <3> QED BY <3>1, <3>2
  <2>3. Solves(k, n + 1)
    BY <2>2
  <2> HIDE DEF k
  <2> QED BY <2>3
<1>3. T = Nat
  <2> HIDE DEF T
  <2> QED BY <1>1, <1>2, Inductive DEF T
<1>4. PICK h : Solves(h, Cardinality(S))
  BY <1>0, <1>3
<1>5. \A s \in SUBSET S : Cardinality(s) <= Cardinality(S)
  BY FS_Subset
<1> DEFINE k == [s \in SUBSET S |-> h[s]]
<1>6. ASSUME NEW s \in SUBSET S PROVE k[s] = Folded(F, k, s)
  <2>1. s # {} => s \ {Pick(s)} \in SUBSET S
    OBVIOUS
  <2> QED BY <1>4, <1>5, <2>1 DEF Folded
<1>7. k = [s \in SUBSET S |-> Folded(F, k, s)]
  BY <1>6
<1> HIDE DEF k
<1>8. Fold(F, S) = [s \in SUBSET S |-> Folded(F, Fold(F, S), s)]
  BY <1>7 DEF Fold
<1> QED BY <1>8

LEMMA FoldAgrees ==
  ASSUME NEW F, NEW S, IsFiniteSet(S), NEW T \in SUBSET S
  PROVE  Fold(F, S)[T] = Total(F, T)
<1> DEFINE family == {s \in SUBSET S : \E u \in SUBSET S : s \subseteq u /\ Fold(F, u)[s] # Total(F, s)}
<1> SUFFICES ASSUME family # {} PROVE FALSE
  OBVIOUS
<1>0. \A s \in SUBSET S : IsFiniteSet(s)
  BY FS_Subset
<1>1. PICK s \in family : \A r \in family : ~(r \subseteq s /\ r # s)
  <2>1. FiniteFamily(S, family)
    BY <1>0 DEF FiniteFamily, FiniteSubsetsOf
  <2> HIDE DEF family
  <2> QED BY <2>1, Least
<1>2. PICK u \in SUBSET S : s \subseteq u /\ Fold(F, u)[s] # Total(F, s)
  OBVIOUS
<1>3. /\ Fold(F, u)[s] = Folded(F, Fold(F, u), s)
      /\ Fold(F, s)[s] = Folded(F, Fold(F, s), s)
  <2>1. IsFiniteSet(u) /\ IsFiniteSet(s) /\ s \in SUBSET u /\ s \in SUBSET s
    BY <1>0, <1>2
  <2> QED BY <2>1, FoldExists
<1>4. CASE s = {}
  BY <1>2, <1>3, <1>4, TotalIsFold DEF Folded
<1>5. CASE s # {}
  <2> DEFINE r == s \ {Pick(s)}
  <2>1. r \in SUBSET S /\ r \subseteq s /\ r # s
    <3>1. Pick(s) \in s /\ s \in SUBSET S
      BY <1>5, PickIn
    <3> QED BY <3>1
  <2>2. r \notin family
    BY <1>1, <2>1
  <2>3. Fold(F, u)[r] = Total(F, r) /\ Fold(F, s)[r] = Total(F, r)
    BY <1>2, <2>1, <2>2
  <2> QED BY <1>2, <1>3, <1>5, <2>3, TotalIsFold DEF Folded
<1> QED BY <1>4, <1>5

LEMMA TotalStep ==
  ASSUME NEW F, NEW S, IsFiniteSet(S), S # {}
  PROVE  Total(F, S) = F[Pick(S)] + Total(F, S \ {Pick(S)})
<1>2. Fold(F, S)[S] = Folded(F, Fold(F, S), S)
  BY FoldExists
<1>3. Fold(F, S)[S \ {Pick(S)}] = Total(F, S \ {Pick(S)})
  BY FoldAgrees
<1> QED BY <1>2, <1>3, TotalIsFold DEF Folded

LEMMA TotalEmpty == ASSUME NEW F PROVE Total(F, {}) = 0
<1>2. Fold(F, {})[{}] = Folded(F, Fold(F, {}), {})
  BY FoldExists, FS_EmptySet
<1> QED BY <1>2, TotalIsFold DEF Folded

LEMMA TotalSame ==
  ASSUME NEW S, IsFiniteSet(S), NEW F, NEW G, \A x \in S : F[x] = G[x]
  PROVE  Total(F, S) = Total(G, S)
<1> DEFINE family == {s \in SUBSET S : Total(F, s) # Total(G, s)}
<1> SUFFICES ASSUME family # {} PROVE FALSE
  OBVIOUS
<1>1. FiniteFamily(S, family)
  BY FS_Subset DEF FiniteFamily, FiniteSubsetsOf
<1>2. PICK s \in family : \A r \in family : ~(r \subseteq s /\ r # s)
  <2> HIDE DEF family
  <2> QED BY <1>1, Least
<1>3. s # {}
  BY TotalEmpty
<1> DEFINE x == Pick(s)
           r == s \ {x}
<1>4. x \in s /\ s \in SUBSET S
  BY <1>3, PickIn
<1>5. r \in SUBSET S /\ r \subseteq s /\ r # s
  BY <1>4
<1>6. Total(F, r) = Total(G, r)
  BY <1>2, <1>5
<1>7. Total(F, s) = F[x] + Total(F, r) /\ Total(G, s) = G[x] + Total(G, r)
  <2>1. IsFiniteSet(s)
    BY FS_Subset
  <2> QED BY <1>3, <2>1, TotalStep
<1> QED BY <1>4, <1>6, <1>7

(* What is summed is a number, and the order of the sum does not matter.   *)
LEMMA TotalNat ==
  ASSUME NEW S, IsFiniteSet(S), NEW F, \A x \in S : F[x] \in Nat
  PROVE  Total(F, S) \in Nat
<1> DEFINE family == {s \in SUBSET S : Total(F, s) \notin Nat}
<1> SUFFICES ASSUME family # {} PROVE FALSE
  OBVIOUS
<1>1. FiniteFamily(S, family)
  BY FS_Subset DEF FiniteFamily, FiniteSubsetsOf
<1>2. PICK s \in family : \A r \in family : ~(r \subseteq s /\ r # s)
  <2> HIDE DEF family
  <2> QED BY <1>1, Least
<1>3. s # {}
  BY TotalEmpty
<1> DEFINE x == Pick(s)
           r == s \ {x}
<1>4. x \in s /\ s \in SUBSET S
  BY <1>3, PickIn
<1>5. r \in SUBSET S /\ r \subseteq s /\ r # s
  BY <1>4
<1>6. Total(F, r) \in Nat
  BY <1>2, <1>5
<1>7. Total(F, s) = F[x] + Total(F, r)
  <2>1. IsFiniteSet(s)
    BY FS_Subset
  <2> QED BY <1>3, <2>1, TotalStep
<1>8. F[x] \in Nat
  BY <1>4
<1> QED BY <1>6, <1>7, <1>8

LEMMA TotalRemove ==
  ASSUME NEW S, IsFiniteSet(S), NEW F, \A x \in S : F[x] \in Nat, NEW y \in S
  PROVE  Total(F, S) = F[y] + Total(F, S \ {y})
<1> DEFINE Removes(s, z) == Total(F, s) = F[z] + Total(F, s \ {z})
           family == {s \in SUBSET S : \E z \in s : ~Removes(s, z)}
<1> SUFFICES ASSUME family # {} PROVE FALSE
  OBVIOUS
<1>1. FiniteFamily(S, family)
  BY FS_Subset DEF FiniteFamily, FiniteSubsetsOf
<1>2. PICK s \in family : \A r \in family : ~(r \subseteq s /\ r # s)
  <2> HIDE DEF family
  <2> QED BY <1>1, Least
<1>3. PICK z \in s : ~Removes(s, z)
  OBVIOUS
<1> DEFINE x == Pick(s)
<1>4. x \in s /\ s \in SUBSET S /\ IsFiniteSet(s)
  BY PickIn, FS_Subset
<1>5. Total(F, s) = F[x] + Total(F, s \ {x})
  BY <1>4, TotalStep
<1>6. x # z
  BY <1>3, <1>5
<1>7. s \ {x} \notin family /\ s \ {z} \notin family
  BY <1>2, <1>3, <1>4
<1>8. Removes(s \ {x}, z)
  BY <1>3, <1>4, <1>6, <1>7
<1>9. Removes(s \ {z}, x)
  BY <1>4, <1>6, <1>7
<1>10. (s \ {x}) \ {z} = (s \ {z}) \ {x}
  OBVIOUS
<1>11. F[x] \in Nat /\ F[z] \in Nat /\ Total(F, (s \ {x}) \ {z}) \in Nat
  <2>1. (s \ {x}) \ {z} \in SUBSET S
    BY <1>4
  <2>2. IsFiniteSet((s \ {x}) \ {z})
    BY <2>1, FS_Subset
  <2> QED BY <1>4, <2>1, <2>2, TotalNat
<1>12. PICK n \in Nat : n = Total(F, (s \ {x}) \ {z})
  BY <1>11
<1>13. Total(F, s \ {x}) = F[z] + n /\ Total(F, s \ {z}) = F[x] + n
  BY <1>8, <1>9, <1>10, <1>12
<1>14. Total(F, s) = F[z] + Total(F, s \ {z})
  <2> HIDE DEF x
  <2> QED BY <1>5, <1>11, <1>13
<1> QED BY <1>3, <1>14

(* A sum is bounded by another that has a greater term for each of its     *)
(* own that is not zero.                                                   *)
LEMMA TotalBounded ==
  ASSUME NEW S, IsFiniteSet(S), NEW F, NEW G, NEW T \in SUBSET S, NEW U \in SUBSET S,
         \A x \in S : F[x] \in Nat /\ G[x] \in Nat,
         \A x \in T : F[x] = 0 \/ (x \in U /\ F[x] <= G[x])
  PROVE  Total(F, T) <= Total(G, U)
<1> DEFINE Bounds(t, u) == Total(F, t) <= Total(G, u)
           Covers(t, u) == \A x \in t : F[x] = 0 \/ (x \in u /\ F[x] <= G[x])
           family == {t \in SUBSET S : \E u \in SUBSET S : Covers(t, u) /\ ~Bounds(t, u)}
<1> SUFFICES ASSUME family # {} PROVE FALSE
  OBVIOUS
<1>1. FiniteFamily(S, family)
  BY FS_Subset DEF FiniteFamily, FiniteSubsetsOf
<1>2. PICK t \in family : \A r \in family : ~(r \subseteq t /\ r # t)
  <2> HIDE DEF family
  <2> QED BY <1>1, Least
<1>3. PICK u \in SUBSET S : Covers(t, u) /\ ~Bounds(t, u)
  OBVIOUS
<1>4. t \in SUBSET S /\ IsFiniteSet(t) /\ IsFiniteSet(u)
  BY FS_Subset
<1>5. Total(G, u) \in Nat
  BY <1>4, TotalNat
<1>6. t # {}
  BY <1>3, <1>5, TotalEmpty
<1>7. PICK x \in t : TRUE
  BY <1>6
<1>8. t \ {x} \notin family /\ t \ {x} \in SUBSET S
  BY <1>2, <1>4, <1>7
<1>9. Total(F, t) = F[x] + Total(F, t \ {x})
  BY <1>4, TotalRemove
<1>10. Total(F, t \ {x}) \in Nat /\ F[x] \in Nat /\ G[x] \in Nat
  <2>1. IsFiniteSet(t \ {x})
    BY <1>4, FS_RemoveElement
  <2> QED BY <1>4, <1>8, <2>1, TotalNat
<1>11. CASE F[x] = 0
  <2>1. Covers(t \ {x}, u)
    BY <1>3
  <2>2. Bounds(t \ {x}, u)
    BY <1>8, <2>1
  <2> QED BY <1>3, <1>9, <1>10, <1>11, <2>2
<1>12. CASE F[x] # 0
  <2>1. x \in u /\ F[x] <= G[x]
    BY <1>3, <1>12
  <2>2. Covers(t \ {x}, u \ {x})
    BY <1>3
  <2>3. Bounds(t \ {x}, u \ {x})
    BY <1>8, <2>2
  <2>4. Total(G, u) = G[x] + Total(G, u \ {x})
    BY <1>4, <2>1, TotalRemove
  <2>5. Total(G, u \ {x}) \in Nat
    <3>1. IsFiniteSet(u \ {x})
      BY <1>4, FS_RemoveElement
    <3> QED BY <3>1, TotalNat
  <2> QED BY <1>3, <1>9, <1>10, <2>1, <2>3, <2>4, <2>5
<1> QED BY <1>11, <1>12

-----------------------------------------------------------------------------
(* Types.                                                                  *)

RunRows == [status : Statuses, generation : Gens]
HoldRows == [reserved : BOOLEAN, upper : 0..Bound, observed : 0..Bound, final : BOOLEAN,
             released : BOOLEAN, expired : BOOLEAN, cancelled : BOOLEAN]
WorkRows == [at : Steps, turn : Turns, end : Ends \cup {"none"}, seen : 0..Bound,
             release : BOOLEAN, then : {"none", "check", "cancelled", "superseded", "ended"}]
SweepRows == [Gens -> None..Bound]
CancelRows == [at : {"idle", "revoke", "list", "fence", "prove", "conclude", "release", "finish", "ended"},
               todo : SUBSET Gens]

LedgerTypes ==
  /\ hold \in [Gens -> HoldRows] /\ metered \in [Gens -> SUBSET Turns]
  /\ finals \in [Gens -> SUBSET {"settlement", "cancellation"}]
Others ==
  /\ billed \in [Gens -> SUBSET Turns] /\ crashes \in 0..MaxCrashes
  /\ elapsed \in SUBSET Gens /\ inflight \in SUBSET Gens /\ revoked \in SUBSET Gens

LEMMA TypeParts ==
  TypeOK <=> /\ run \in RunRows /\ LedgerTypes /\ Others /\ wf \in [Gens -> WorkRows]
             /\ sweep \in [Processes -> SweepRows] /\ canceller \in CancelRows
BY DEF TypeOK, RunRows, LedgerTypes, Others, WorkRows, SweepRows, CancelRows, HoldRows

LEMMA TypeFacts ==
  ASSUME IInv
  PROVE  /\ run \in RunRows /\ LedgerTypes /\ Others /\ wf \in [Gens -> WorkRows]
         /\ sweep \in [Processes -> SweepRows] /\ canceller \in CancelRows
         /\ LedgerInv /\ CapInv /\ RunInv /\ SweepInv /\ TodoInv /\ \A g \in Gens : WorkInv(g)
BY TypeParts DEF IInv

LEMMA Numbers ==
  /\ MaxGeneration \in Nat \ {0} /\ MaxTurns \in Nat \ {0} /\ MaxCrashes \in Nat
  /\ TurnCost \in Nat \ {0} /\ Bound \in Nat /\ Cap \in Nat /\ Bound <= Cap
  /\ Gens \subseteq Nat /\ 1 \in Gens /\ 1 \in Turns /\ IsFiniteSet(Gens) /\ IsFiniteSet(Turns)
BY BudgetAssumption, FS_Interval DEF Gens, Turns

LEMMA RowFacts ==
  ASSUME IInv, NEW g \in Gens
  PROVE  /\ hold[g] \in HoldRows /\ wf[g] \in WorkRows /\ metered[g] \in SUBSET Turns
         /\ finals[g] \in SUBSET {"settlement", "cancellation"}
         /\ hold[g].upper \in Nat /\ hold[g].upper <= Bound
         /\ hold[g].observed \in Nat /\ hold[g].observed <= hold[g].upper
         /\ RowInv(hold[g], metered[g], finals[g]) /\ WorkInv(g)
<1>1. /\ hold[g] \in HoldRows /\ wf[g] \in WorkRows /\ metered[g] \in SUBSET Turns
      /\ finals[g] \in SUBSET {"settlement", "cancellation"}
  BY TypeFacts DEF LedgerTypes
<1>2. RowInv(hold[g], metered[g], finals[g]) /\ WorkInv(g)
  BY TypeFacts DEF LedgerInv
<1> QED BY <1>1, <1>2, Numbers DEF HoldRows, RowInv

LEMMA UnreservedRow ==
  /\ Unreserved \in HoldRows /\ Unreserved.upper = 0 /\ Unreserved.observed = 0
  /\ ~Unreserved.reserved /\ ~Unreserved.released /\ ~Unreserved.final /\ ~Unreserved.cancelled
  /\ ~Unreserved.expired
BY Numbers DEF Unreserved, HoldRows

LEMMA ReservedRow ==
  /\ Reserved \in HoldRows /\ Reserved.upper = Bound /\ Reserved.observed = 0
  /\ Reserved.reserved /\ ~Reserved.released /\ ~Reserved.final /\ ~Reserved.cancelled
<1> DEFINE Row(b) == [Unreserved EXCEPT !.reserved = TRUE, !.upper = b]
<1>1. \A b \in 0..Bound : Row(b) \in HoldRows
  BY UnreservedRow DEF HoldRows
<1>2. \A b \in 0..Bound :
        /\ Row(b).upper = b /\ Row(b).observed = 0 /\ Row(b).reserved /\ ~Row(b).released
        /\ ~Row(b).final /\ ~Row(b).cancelled
  BY DEF Unreserved
<1>3. Bound \in 0..Bound
  BY Numbers
<1>4. Reserved = Row(Bound)
  BY DEF Reserved
<1> HIDE DEF Row
<1> QED BY <1>1, <1>2, <1>3, <1>4

-----------------------------------------------------------------------------
(* The ledger's steps.                                                     *)

LEMMA ForwardRow ==
  ASSUME NEW h, NEW k, h.released => k = h, h.reserved => k.reserved, h.final => k.final,
         h.expired => k.expired, h.cancelled => k.cancelled, h.observed <= k.observed,
         h.reserved => k.upper <= h.upper
  PROVE  Forward(h, k)
BY DEF Forward

LEMMA ForwardFields ==
  ASSUME NEW h, NEW k, Forward(h, k)
  PROVE  /\ h.released => k = h
         /\ h.reserved => k.reserved
         /\ h.observed <= k.observed
         /\ h.reserved => k.upper <= h.upper
BY DEF Forward

(* One row moves on: usage grows in a turn only, and no turn is under way  *)
(* without a hold.                                                         *)
RowKept(g) ==
  /\ hold'[g] \in HoldRows /\ Forward(hold[g], hold'[g])
  /\ hold'[g].observed # hold[g].observed => wf[g].at \in Turning
  /\ wf[g].at \in Turning => hold'[g].upper <= hold[g].upper
  /\ RowInv(hold'[g], metered'[g], finals'[g])

LedgerKept == LedgerTypes' /\ \A g \in Gens : RowKept(g)

LEMMA RowSame ==
  ASSUME IInv, NEW g \in Gens, hold'[g] = hold[g], metered'[g] = metered[g], finals'[g] = finals[g]
  PROVE  RowKept(g)
BY RowFacts, ForwardRow DEF RowKept

LEMMA LedgerSame == ASSUME IInv, UNCHANGED ledgerVars PROVE LedgerKept
<1>1. LedgerTypes'
  BY TypeFacts DEF LedgerTypes, ledgerVars
<1> QED BY <1>1, RowSame DEF LedgerKept, ledgerVars

LEMMA RowChanged ==
  ASSUME IInv, NEW g \in Gens, NEW k \in HoldRows, hold' = [hold EXCEPT ![g] = k],
         NEW turns \in SUBSET Turns, metered' = [metered EXCEPT ![g] = turns],
         NEW identities \in SUBSET {"settlement", "cancellation"},
         finals' = [finals EXCEPT ![g] = identities],
         Forward(hold[g], k), RowInv(k, turns, identities),
         k.observed # hold[g].observed => wf[g].at \in Turning,
         wf[g].at \in Turning => k.upper <= hold[g].upper
  PROVE  LedgerKept /\ hold'[g] = k /\ \A h \in Gens \ {g} : hold'[h] = hold[h]
<1>1. LedgerTypes /\ LedgerTypes'
  BY TypeFacts DEF LedgerTypes
<1>2. /\ hold'[g] = k /\ metered'[g] = turns /\ finals'[g] = identities
      /\ \A h \in Gens \ {g} : hold'[h] = hold[h] /\ metered'[h] = metered[h] /\ finals'[h] = finals[h]
  BY <1>1 DEF LedgerTypes
<1>3. RowKept(g)
  BY <1>2 DEF RowKept
<1>4. \A h \in Gens \ {g} : RowKept(h)
  BY <1>2, RowSame
<1> QED BY <1>1, <1>2, <1>3, <1>4 DEF LedgerKept

(* What the root holds grows only when a hold is reserved.                 *)
LEMMA UppersNat ==
  ASSUME NEW holds \in [Gens -> HoldRows], NEW g \in Gens
  PROVE  Uppers(holds)[g] = holds[g].upper /\ Uppers(holds)[g] \in Nat
BY Numbers DEF Uppers, HoldRows

LEMMA HeldRows == ASSUME NEW holds PROVE Held(holds) \in SUBSET Gens /\ IsFiniteSet(Held(holds))
<1>1. Held(holds) \in SUBSET Gens
  BY DEF Held
<1> QED BY <1>1, Numbers, FS_Subset

LEMMA ExposureFalls ==
  ASSUME NEW holds \in [Gens -> HoldRows], NEW later \in [Gens -> HoldRows],
         \A g \in Held(later) : g \in Held(holds) /\ later[g].upper <= holds[g].upper
  PROVE  Exposure(later) <= Exposure(holds)
<1> DEFINE F == Uppers(later)
           G == Uppers(holds)
<1>1. \A g \in Gens : F[g] \in Nat /\ G[g] \in Nat
  BY UppersNat
<1>2. \A g \in Held(later) : F[g] = 0 \/ (g \in Held(holds) /\ F[g] <= G[g])
  BY HeldRows, UppersNat
<1>3. Total(F, Held(later)) <= Total(G, Held(holds))
  <2> HIDE DEF F, G
  <2> QED BY <1>1, <1>2, HeldRows, Numbers, TotalBounded
<1> QED BY <1>3 DEF Exposure

LEMMA ExposureOfNew ==
  ASSUME NEW holds \in [Gens -> HoldRows], NEW g \in Gens, ~holds[g].reserved,
         NEW later, later = [holds EXCEPT ![g] = Reserved]
  PROVE  Exposure(later) = Bound + Exposure(holds)
<1> DEFINE F == Uppers(later)
           S == Held(later)
<1>1. later \in [Gens -> HoldRows] /\ later[g] = Reserved /\ \A h \in Gens \ {g} : later[h] = holds[h]
  BY ReservedRow
<1>2. g \in S /\ S \ {g} = Held(holds)
  BY <1>1, ReservedRow DEF Held
<1>3. \A h \in Gens : F[h] \in Nat
  BY <1>1, UppersNat
<1>4. F[g] = Bound
  BY <1>1, ReservedRow, UppersNat
<1>5. Total(F, S) = F[g] + Total(F, S \ {g})
  <2>1. \A h \in S : F[h] \in Nat
    BY <1>3, HeldRows
  <2>2. IsFiniteSet(S)
    BY HeldRows
  <2>3. g \in S
    BY <1>2
  <2> HIDE DEF F, S
  <2> QED BY <2>1, <2>2, <2>3, TotalRemove
<1>6. \A h \in Held(holds) : F[h] = Uppers(holds)[h]
  <2>1. ASSUME NEW h \in Held(holds) PROVE F[h] = Uppers(holds)[h]
    <3>1. h \in Gens /\ h # g
      BY <2>1 DEF Held
    <3> QED BY <1>1, <3>1, UppersNat
  <2> QED BY <2>1
<1>7. Total(F, Held(holds)) = Total(Uppers(holds), Held(holds))
  <2> HIDE DEF F
  <2> QED BY <1>6, HeldRows, TotalSame
<1> QED BY <1>2, <1>4, <1>5, <1>7 DEF Exposure

LEMMA ExposureNat == ASSUME NEW holds \in [Gens -> HoldRows] PROVE Exposure(holds) \in Nat
<1> DEFINE F == Uppers(holds)
<1>1. \A g \in Held(holds) : F[g] \in Nat
  BY HeldRows, UppersNat
<1> HIDE DEF F
<1>2. Total(F, Held(holds)) \in Nat
  BY <1>1, HeldRows, TotalNat
<1> QED BY <1>2 DEF Exposure, F

LEMMA ExposureKept ==
  ASSUME IInv, LedgerKept, \A g \in Gens : hold'[g].reserved => hold[g].reserved
  PROVE  Exposure(hold') <= Cap
<1>1. hold \in [Gens -> HoldRows] /\ hold' \in [Gens -> HoldRows]
  BY TypeFacts DEF LedgerKept, LedgerTypes
<1>2. ASSUME NEW g \in Held(hold') PROVE g \in Held(hold) /\ hold'[g].upper <= hold[g].upper
  <2>1. g \in Gens /\ hold'[g].reserved /\ ~hold'[g].released
    BY <1>2 DEF Held
  <2>2. Forward(hold[g], hold'[g]) /\ hold[g].reserved
    BY <2>1 DEF LedgerKept, RowKept
  <2>3. ~hold[g].released /\ hold'[g].upper <= hold[g].upper
    BY <2>1, <2>2, ForwardFields
  <2> QED BY <2>1, <2>2, <2>3 DEF Held
<1>3. Exposure(hold') <= Exposure(hold)
  BY <1>1, <1>2, ExposureFalls
<1>4. Exposure(hold) <= Cap
  BY TypeFacts DEF CapInv
<1> QED BY <1>1, <1>3, <1>4, ExposureNat, Numbers

(* No hold is cancelled or released by the step.                           *)
Quiet == \A h \in Gens : hold'[h].released = hold[h].released /\ hold'[h].cancelled = hold[h].cancelled

LEMMA LedgerUnchanged ==
  ASSUME IInv, UNCHANGED ledgerVars
  PROVE  LedgerKept /\ Quiet /\ Exposure(hold') <= Cap
<1>1. hold' = hold
  BY DEF ledgerVars
<1> QED BY <1>1, LedgerSame, TypeFacts DEF Quiet, CapInv

LEMMA FencedRow ==
  ASSUME IInv, NEW h \in Gens
  PROVE  LET k == FenceExpired(hold)[h] IN
         /\ k \in HoldRows
         /\ k.reserved = hold[h].reserved /\ k.upper = hold[h].upper
         /\ k.observed = hold[h].observed /\ k.released = hold[h].released
         /\ k.cancelled = hold[h].cancelled /\ k.final = hold[h].final
         /\ Forward(hold[h], k) /\ RowInv(k, metered[h], finals[h])
<1> DEFINE k == FenceExpired(hold)[h]
<1>0. hold[h] \in HoldRows /\ RowInv(hold[h], metered[h], finals[h])
  BY RowFacts
<1>1. CASE k = hold[h]
  BY <1>0, <1>1, RowFacts, ForwardRow
<1>2. CASE h \in Held(hold) /\ k = [hold[h] EXCEPT !.expired = TRUE]
  <2>1. /\ k \in HoldRows /\ k.reserved = hold[h].reserved /\ k.upper = hold[h].upper
        /\ k.observed = hold[h].observed /\ k.released = hold[h].released
        /\ k.cancelled = hold[h].cancelled /\ k.final = hold[h].final /\ k.expired
        /\ hold[h].reserved /\ ~hold[h].released
    BY <1>0, <1>2 DEF HoldRows, Held
  <2> HIDE DEF k
  <2>2. Forward(hold[h], k)
    <3>1. hold[h].observed <= k.observed /\ k.upper <= hold[h].upper
      BY <2>1, RowFacts
    <3> QED BY <2>1, <3>1, ForwardRow
  <2>3. RowInv(k, metered[h], finals[h])
    BY <1>0, <2>1 DEF RowInv
  <2> QED BY <2>1, <2>2, <2>3 DEF k
<1> QED BY <1>1, <1>2 DEF FenceExpired

LEMMA ReserveKeeps ==
  ASSUME IInv, NEW g \in Gens, wf[g].at = "reserve", UNCHANGED <<metered, finals>>,
         \/ hold' = hold
         \/ hold' = FenceExpired(hold)
         \/ /\ ~hold[g].reserved /\ Headroom(FenceExpired(hold))
            /\ hold' = [FenceExpired(hold) EXCEPT ![g] = Reserved]
  PROVE  LedgerKept /\ Quiet /\ Exposure(hold') <= Cap
<1> DEFINE holds == FenceExpired(hold)
<1>1. CASE hold' = hold
  BY <1>1, LedgerUnchanged DEF ledgerVars
<1>2. holds \in [Gens -> HoldRows]
  BY FencedRow DEF FenceExpired
<1>3. ASSUME NEW h \in Gens, hold'[h] = holds[h]
      PROVE  /\ RowKept(h) /\ hold'[h].reserved = hold[h].reserved
             /\ hold'[h].released = hold[h].released /\ hold'[h].cancelled = hold[h].cancelled
  BY <1>3, FencedRow, RowFacts DEF RowKept
<1>4. hold' \in [Gens -> HoldRows] => LedgerTypes'
  BY TypeFacts DEF LedgerTypes
<1>5. CASE hold' = holds
  <2>1. LedgerKept /\ Quiet
    BY <1>2, <1>3, <1>4, <1>5 DEF LedgerKept, Quiet
  <2> QED BY <1>3, <1>5, <2>1, ExposureKept
<1>6. CASE /\ ~hold[g].reserved /\ Headroom(holds)
           /\ hold' = [holds EXCEPT ![g] = Reserved]
  <2>1. /\ hold' \in [Gens -> HoldRows] /\ hold'[g] = Reserved
        /\ \A h \in Gens \ {g} : hold'[h] = holds[h]
    BY <1>2, <1>6, ReservedRow
  <2>2. hold[g] = Unreserved /\ ~holds[g].reserved
    BY <1>6, RowFacts, FencedRow DEF RowInv
  <2>3. RowKept(g)
    <3>1. Forward(hold[g], hold'[g])
      BY <2>1, <2>2, UnreservedRow, ReservedRow, ForwardRow
    <3>2. RowInv(hold'[g], metered'[g], finals'[g])
      <4>1. RowInv(Unreserved, metered[g], finals[g])
        BY <2>2, RowFacts
      <4> QED BY <2>1, <4>1, UnreservedRow, ReservedRow, Numbers DEF RowInv
    <3> QED BY <2>1, <2>2, <3>1, <3>2, UnreservedRow, ReservedRow DEF RowKept, Turning
  <2>4. LedgerKept
    BY <1>3, <1>4, <2>1, <2>3 DEF LedgerKept
  <2>5. Quiet
    <3>1. hold'[g].released = hold[g].released /\ hold'[g].cancelled = hold[g].cancelled
      BY <2>1, <2>2 DEF Reserved, Unreserved
    <3> QED BY <1>3, <2>1, <3>1 DEF Quiet
  <2>6. Exposure(hold') = Bound + Exposure(holds)
    BY <1>2, <1>6, <2>2, ExposureOfNew
  <2>7. Exposure(holds) <= Cap - Bound
    BY <1>6 DEF Headroom
  <2>8. Exposure(holds) \in Nat
    BY <1>2, ExposureNat
  <2> QED BY <2>4, <2>5, <2>6, <2>7, <2>8, Numbers
<1> QED BY <1>1, <1>5, <1>6

LEMMA ObserveKeeps ==
  ASSUME IInv, NEW g \in Gens, wf[g].at = "billed", wf[g].turn \notin metered[g],
         Recordable(g, TurnCost), finals' = finals,
         hold' = [hold EXCEPT ![g].observed = @ + TurnCost],
         metered' = [metered EXCEPT ![g] = @ \cup {wf[g].turn}]
  PROVE  LedgerKept /\ Quiet /\ Exposure(hold') <= Cap
<1> DEFINE h == hold[g]
           turns == metered[g] \cup {wf[g].turn}
           k == [h EXCEPT !.observed = h.observed + TurnCost]
<1>1. h.reserved
  BY RowFacts DEF WorkInv, OnHold
<1>2. ~h.released /\ h.observed + TurnCost \in 0..Bound /\ h.observed + TurnCost <= h.upper
  BY RowFacts, Numbers DEF Recordable
<1>3. \A v \in 0..Bound : [h EXCEPT !.observed = v] \in HoldRows
  BY RowFacts DEF HoldRows
<1>4. k \in HoldRows /\ k.observed = h.observed + TurnCost /\ k.upper = h.upper
  BY <1>2, <1>3, RowFacts DEF HoldRows
<1>5. /\ k.reserved = h.reserved /\ k.released = h.released /\ k.final = h.final
      /\ k.expired = h.expired /\ k.cancelled = h.cancelled
  BY RowFacts DEF HoldRows
<1>6. turns \in SUBSET Turns /\ Cardinality(turns) = Cardinality(metered[g]) + 1
  <2>1. metered[g] \in SUBSET Turns /\ wf[g].turn \in Turns
    BY RowFacts DEF WorkRows
  <2>2. IsFiniteSet(metered[g])
    BY <2>1, Numbers, FS_Subset
  <2> QED BY <2>1, <2>2, FS_AddElement
<1>7. RowInv(k, turns, finals[g])
  <2>1. Cardinality(metered[g]) \in Nat
    BY RowFacts, Numbers, FS_Subset, FS_CardinalityType
  <2>2. TurnCost * (Cardinality(metered[g]) + 1) = TurnCost * Cardinality(metered[g]) + TurnCost
    BY <2>1, Numbers
  <2> QED BY <1>1, <1>2, <1>4, <1>5, <1>6, <2>2, RowFacts DEF RowInv
<1>8. hold' = [hold EXCEPT ![g] = k] /\ metered' = [metered EXCEPT ![g] = turns]
      /\ finals' = [finals EXCEPT ![g] = finals[g]]
  BY TypeFacts DEF LedgerTypes
<1>9. Forward(h, k)
  <2>1. h.observed <= k.observed
    BY <1>4, RowFacts, Numbers
  <2>2. k.upper <= h.upper
    BY <1>4, RowFacts, Numbers
  <2> HIDE DEF k, h
  <2> QED BY <1>2, <1>5, <2>1, <2>2, ForwardRow
<1>10. LedgerKept /\ hold'[g] = k /\ \A i \in Gens \ {g} : hold'[i] = hold[i]
  <2>1. wf[g].at \in Turning /\ finals[g] \in SUBSET {"settlement", "cancellation"}
        /\ k.upper <= h.upper
    BY <1>4, RowFacts DEF Turning
  <2> HIDE DEF k, turns
  <2> QED BY <1>4, <1>6, <1>7, <1>8, <1>9, <2>1, RowChanged
<1> HIDE DEF k
<1>11. Quiet /\ \A i \in Gens : hold'[i].reserved => hold[i].reserved
  BY <1>5, <1>10 DEF Quiet
<1> QED BY <1>10, <1>11, ExposureKept

(* A finality observation is recorded again without effect.                *)
LEMMA FinalKeeps ==
  ASSUME IInv, NEW g \in Gens, NEW identity \in {"settlement", "cancellation"},
         hold[g].reserved, RecordFinal(g, identity)
  PROVE  LedgerKept /\ Quiet /\ Exposure(hold') <= Cap
<1> DEFINE h == hold[g]
           k == [h EXCEPT !.final = TRUE]
           identities == finals[g] \cup {identity}
<1>1. h \in HoldRows /\ RowInv(h, metered[g], finals[g])
  BY RowFacts
<1>2. /\ k \in HoldRows /\ k.observed = h.observed /\ k.upper = h.upper /\ k.final
      /\ k.reserved = h.reserved /\ k.released = h.released
      /\ k.expired = h.expired /\ k.cancelled = h.cancelled
  BY <1>1 DEF HoldRows
<1>3. h.released => k = h
  <2>1. h.final => k = h
    BY <1>1 DEF HoldRows
  <2>2. h.released => identity \in finals[g]
    BY DEF RecordFinal, Recordable
  <2>3. identity \in finals[g] => h.final
    BY <1>1 DEF RowInv
  <2> QED BY <2>1, <2>2, <2>3
<1>4. hold' = [hold EXCEPT ![g] = k] /\ metered' = [metered EXCEPT ![g] = metered[g]]
      /\ finals' = [finals EXCEPT ![g] = identities]
  BY TypeFacts DEF RecordFinal, LedgerTypes
<1>5. identities \in SUBSET {"settlement", "cancellation"} /\ metered[g] \in SUBSET Turns
  BY RowFacts
<1>6. RowInv(k, metered[g], identities)
  BY <1>1, <1>2 DEF RowInv
<1>7. h.observed <= k.observed /\ k.upper <= h.upper
  BY <1>2, RowFacts
<1> HIDE DEF k, identities
<1>8. Forward(h, k)
  <2> HIDE DEF h
  <2> QED BY <1>2, <1>3, <1>7, ForwardRow
<1>9. LedgerKept /\ hold'[g] = k /\ \A i \in Gens \ {g} : hold'[i] = hold[i]
  BY <1>2, <1>4, <1>5, <1>6, <1>7, <1>8, RowChanged
<1>10. Quiet /\ \A i \in Gens : hold'[i].reserved => hold[i].reserved
  BY <1>2, <1>9 DEF Quiet
<1> QED BY <1>9, <1>10, ExposureKept

(* A hold is cancelled only of a run that is being cancelled, and released *)
(* only of one that no retry follows.                                      *)
Justified ==
  \A h \in Gens : /\ hold'[h].released => hold[h].released \/ run.status \in Closed
                  /\ hold'[h].cancelled => hold[h].cancelled \/ run.status \in Cancelling

LEMMA QuietJustified == ASSUME Quiet PROVE Justified
BY DEF Quiet, Justified

LEMMA CancelKeeps ==
  ASSUME IInv, NEW g \in Gens, hold[g].reserved, run.status \in Cancelling,
         hold' = IF hold[g].released THEN hold ELSE [hold EXCEPT ![g].cancelled = TRUE],
         UNCHANGED <<metered, finals>>
  PROVE  LedgerKept /\ Justified /\ Exposure(hold') <= Cap
<1>1. CASE hold[g].released
  BY <1>1, LedgerUnchanged, QuietJustified DEF ledgerVars
<1>2. CASE ~hold[g].released
  <2> DEFINE h == hold[g]
             k == [h EXCEPT !.cancelled = TRUE]
  <2>1. h \in HoldRows /\ RowInv(h, metered[g], finals[g])
    BY RowFacts
  <2>2. /\ k \in HoldRows /\ k.observed = h.observed /\ k.upper = h.upper /\ k.cancelled
        /\ k.reserved = h.reserved /\ k.released = h.released
        /\ k.expired = h.expired /\ k.final = h.final
    BY <2>1 DEF HoldRows
  <2>3. hold' = [hold EXCEPT ![g] = k] /\ metered' = [metered EXCEPT ![g] = metered[g]]
        /\ finals' = [finals EXCEPT ![g] = finals[g]]
    BY <1>2, TypeFacts DEF LedgerTypes
  <2>4. finals[g] \in SUBSET {"settlement", "cancellation"} /\ metered[g] \in SUBSET Turns
    BY RowFacts
  <2>5. RowInv(k, metered[g], finals[g])
    BY <2>1, <2>2 DEF RowInv
  <2>6. h.observed <= k.observed /\ k.upper <= h.upper
    BY <2>2, RowFacts
  <2> HIDE DEF k
  <2>7. Forward(h, k)
    <3> HIDE DEF h
    <3>1. ~h.released
      BY <1>2 DEF h
    <3> QED BY <2>2, <2>6, <3>1, ForwardRow
  <2>8. LedgerKept /\ hold'[g] = k /\ \A i \in Gens \ {g} : hold'[i] = hold[i]
    BY <2>2, <2>3, <2>4, <2>5, <2>6, <2>7, RowChanged
  <2>9. Justified /\ \A i \in Gens : hold'[i].reserved => hold[i].reserved
    BY <2>2, <2>8 DEF Justified
  <2> QED BY <2>8, <2>9, ExposureKept
<1> QED BY <1>1, <1>2

(* What a process has read of the holds it settles.                        *)
SweepKept(p) ==
  /\ sweep' \in [Processes -> SweepRows] /\ SweepInv'
  /\ \A q \in Processes \ {p} : sweep'[q] = sweep[q]

LEMMA SweepChanged ==
  ASSUME IInv, LedgerKept, NEW p \in Processes, NEW row \in SweepRows,
         sweep' = [sweep EXCEPT ![p] = row], \A h \in Gens : row[h] # None => hold[h].reserved
  PROVE  SweepKept(p) /\ sweep'[p] = row
<1>1. sweep \in [Processes -> SweepRows] /\ SweepInv
  BY TypeFacts
<1>2. \A h \in Gens : hold[h].reserved => hold'[h].reserved
  BY ForwardFields DEF LedgerKept, RowKept
<1>3. /\ sweep' \in [Processes -> SweepRows] /\ sweep'[p] = row
      /\ \A q \in Processes \ {p} : sweep'[q] = sweep[q]
  BY <1>1
<1>4. SweepInv'
  <2> SUFFICES ASSUME NEW q \in Processes, NEW h \in Gens, sweep'[q][h] # None
               PROVE  hold'[h].reserved
    BY DEF SweepInv, None
  <2> QED BY <1>1, <1>2, <1>3 DEF SweepInv
<1> QED BY <1>3, <1>4 DEF SweepKept

LEMMA SweepSame ==
  ASSUME IInv, LedgerKept, NEW p \in Processes, sweep' = sweep
  PROVE  SweepKept(p)
<1>1. sweep \in [Processes -> SweepRows] /\ SweepInv
  BY TypeFacts
<1>2. sweep[p] \in SweepRows /\ sweep' = [sweep EXCEPT ![p] = sweep[p]]
  BY <1>1
<1> QED BY <1>1, <1>2, SweepChanged DEF SweepInv

LEMMA NoSweepRow == NoSweep \in SweepRows /\ \A g \in Gens : NoSweep[g] = None
BY Numbers DEF NoSweep, SweepRows, None

LEMMA BeginSweepKeeps ==
  ASSUME IInv, LedgerKept, NEW p \in Processes, NEW chosen \in SUBSET Gens,
         \A h \in chosen : hold[h].reserved, BeginSweep(p, chosen)
  PROVE  SweepKept(p) /\ Sweeping(p)' \subseteq chosen
<1> DEFINE row == [g \in Gens |-> IF g \in chosen THEN hold[g].observed ELSE None]
<1>1. row \in SweepRows
  <2>1. \A g \in Gens : hold[g].observed \in 0..Bound
    BY RowFacts DEF HoldRows
  <2>2. None \in None..Bound /\ 0..Bound \subseteq None..Bound
    BY Numbers DEF None
  <2> QED BY <2>1, <2>2 DEF SweepRows
<1>2. \A h \in Gens : row[h] # None => hold[h].reserved
  OBVIOUS
<1>3. sweep' = [sweep EXCEPT ![p] = row]
  BY DEF BeginSweep
<1>4. \A h \in Gens : row[h] # None => h \in chosen
  OBVIOUS
<1> HIDE DEF row
<1>5. SweepKept(p) /\ sweep'[p] = row
  BY <1>1, <1>2, <1>3, SweepChanged
<1> QED BY <1>4, <1>5 DEF Sweeping, None

LEMMA SettleKeeps ==
  ASSUME IInv, NEW p \in Processes, NEW g \in Gens, sweep[p][g] # None,
         NEW release \in BOOLEAN, release => run.status \in Closed, Settle(p, g, release)
  PROVE  /\ LedgerKept /\ Justified /\ Exposure(hold') <= Cap
         /\ SweepKept(p) /\ Sweeping(p)' \subseteq Sweeping(p)
<1> DEFINE h == hold[g]
           cost == sweep[p][g]
           outcome == SettleOutcome(g, cost, release)
           k == [h EXCEPT !.observed = cost, !.upper = cost, !.released = release]
<1>0. h \in HoldRows /\ RowInv(h, metered[g], finals[g]) /\ h.reserved
  BY RowFacts, TypeFacts DEF SweepInv
<1>1. LedgerKept /\ Justified /\ Exposure(hold') <= Cap
  <2>1. CASE outcome # "settled"
    BY <2>1, LedgerUnchanged, QuietJustified DEF Settle, ledgerVars
  <2>2. CASE outcome = "settled"
    <3>1. h.final /\ ~h.released /\ cost = h.observed
      BY <2>2 DEF SettleOutcome
    <3>2. cost \in 0..Bound
      BY <1>0, <3>1 DEF HoldRows
    <3>3. /\ k \in HoldRows /\ k.observed = h.observed /\ k.upper = h.observed
          /\ k.released = release /\ k.reserved = h.reserved
          /\ k.expired = h.expired /\ k.final = h.final /\ k.cancelled = h.cancelled
      <4>1. \A c \in 0..Bound, r \in BOOLEAN :
              [h EXCEPT !.observed = c, !.upper = c, !.released = r] \in HoldRows
        BY <1>0 DEF HoldRows
      <4>2. k \in HoldRows
        BY <3>2, <4>1
      <4> QED BY <1>0, <3>1, <4>2 DEF HoldRows
    <3>4. hold' = [hold EXCEPT ![g] = k] /\ metered' = [metered EXCEPT ![g] = metered[g]]
          /\ finals' = [finals EXCEPT ![g] = finals[g]]
      <4>1. hold' = [hold EXCEPT ![g].observed = cost, ![g].upper = cost, ![g].released = release]
        BY <2>2 DEF Settle
      <4>2. metered' = metered /\ finals' = finals
        BY DEF Settle
      <4> QED BY <4>1, <4>2, TypeFacts DEF LedgerTypes
    <3>5. finals[g] \in SUBSET {"settlement", "cancellation"} /\ metered[g] \in SUBSET Turns
      BY RowFacts
    <3>6. h.observed \in Nat /\ h.upper \in Nat /\ h.observed <= h.upper
      BY RowFacts
    <3>7. RowInv(k, metered[g], finals[g])
      BY <1>0, <3>3, <3>6 DEF RowInv
    <3>8. h.observed <= k.observed /\ k.upper <= h.upper
      BY <3>3, <3>6
    <3> HIDE DEF k
    <3>9. Forward(h, k)
      <4> HIDE DEF h
      <4> QED BY <3>1, <3>3, <3>8, ForwardRow
    <3>10. LedgerKept /\ hold'[g] = k /\ \A i \in Gens \ {g} : hold'[i] = hold[i]
      BY <3>3, <3>4, <3>5, <3>7, <3>8, <3>9, RowChanged
    <3>11. Justified
      BY <3>3, <3>10 DEF Justified
    <3>12. \A i \in Gens : hold'[i].reserved => hold[i].reserved
      BY <3>3, <3>10
    <3> QED BY <3>10, <3>11, <3>12, ExposureKept
  <2> QED BY <2>1, <2>2
<1>2. PICK row : /\ row \in SweepRows /\ sweep' = [sweep EXCEPT ![p] = row]
                 /\ \A i \in Gens : row[i] # None => sweep[p][i] # None
  <2>1. sweep[p] \in SweepRows
    BY TypeFacts
  <2>2. CASE outcome = "refused"
    BY <2>2, NoSweepRow DEF Settle
  <2>3. CASE outcome # "refused"
    <3> DEFINE seen == IF outcome = "conflict" THEN h.observed ELSE None
    <3>1. sweep' = [sweep EXCEPT ![p] = [sweep[p] EXCEPT ![g] = seen]]
      BY <2>3, TypeFacts DEF Settle
    <3>2. seen \in None..Bound
      BY <1>0, Numbers DEF HoldRows, None
    <3> HIDE DEF seen
    <3>3. [sweep[p] EXCEPT ![g] = seen] \in SweepRows
      BY <2>1, <3>2 DEF SweepRows
    <3>4. \A i \in Gens : [sweep[p] EXCEPT ![g] = seen][i] # None => sweep[p][i] # None
      BY <2>1 DEF SweepRows
    <3> QED BY <3>1, <3>3, <3>4
  <2> QED BY <2>2, <2>3
<1>3. \A i \in Gens : row[i] # None => hold[i].reserved
  BY <1>2, TypeFacts DEF SweepInv
<1>4. SweepKept(p) /\ sweep'[p] = row
  BY <1>1, <1>2, <1>3, SweepChanged
<1>5. Sweeping(p)' \subseteq Sweeping(p)
  BY <1>2, <1>4 DEF Sweeping, None
<1> QED BY <1>1, <1>4, <1>5

-----------------------------------------------------------------------------
(* The steps of the workflows.                                             *)

(* What the generations may still spend shrinks, unless one is admitted.   *)
LEMMA PromisedKept ==
  ASSUME IInv, LedgerKept, \A g \in Gens : wf'[g].at \in Turning => wf[g].at \in Turning
  PROVE  Total(Promised', Gens) <= Cap
<1> DEFINE F == Promised'
           G == Promised
<1>1. \A g \in Gens : F[g] \in Nat /\ G[g] \in Nat /\ F[g] <= G[g]
  <2> SUFFICES ASSUME NEW g \in Gens PROVE F[g] \in Nat /\ G[g] \in Nat /\ F[g] <= G[g]
    OBVIOUS
  <2>1. /\ F[g] = IF wf'[g].at \in Turning THEN hold'[g].upper ELSE hold'[g].observed
        /\ G[g] = IF wf[g].at \in Turning THEN hold[g].upper ELSE hold[g].observed
    BY DEF Promised
  <2>2. hold[g].upper \in Nat /\ hold[g].observed \in Nat /\ hold[g].observed <= hold[g].upper
    BY RowFacts
  <2>3. hold'[g].upper \in Nat /\ hold'[g].observed \in Nat /\ hold'[g].observed <= hold'[g].upper
    BY Numbers DEF LedgerKept, RowKept, HoldRows, RowInv
  <2>4. /\ wf[g].at \in Turning => hold'[g].upper <= hold[g].upper
        /\ wf[g].at \notin Turning => hold'[g].observed = hold[g].observed
    BY DEF LedgerKept, RowKept
  <2> QED BY <2>1, <2>2, <2>3, <2>4
<1>2. Total(G, Gens) <= Cap
  BY TypeFacts DEF CapInv
<1> HIDE DEF F, G
<1>3. Total(F, Gens) <= Total(G, Gens)
  BY <1>1, Numbers, TotalBounded
<1>4. Total(F, Gens) \in Nat /\ Total(G, Gens) \in Nat
  BY <1>1, Numbers, TotalNat
<1> QED BY <1>2, <1>3, <1>4, Numbers DEF F

(* Nothing of the run is released: what is spent is held.                  *)
LEMMA PromisedHeld ==
  ASSUME IInv, UNCHANGED ledgerVars, \A g \in Gens : ~hold[g].released
  PROVE  Total(Promised', Gens) <= Cap
<1> DEFINE F == Promised'
           G == Uppers(hold)
<1>1. hold \in [Gens -> HoldRows] /\ hold' = hold
  BY TypeFacts DEF LedgerTypes, ledgerVars
<1>2. \A g \in Gens : F[g] \in Nat /\ G[g] \in Nat /\ F[g] <= G[g]
  <2> SUFFICES ASSUME NEW g \in Gens PROVE F[g] \in Nat /\ G[g] \in Nat /\ F[g] <= G[g]
    OBVIOUS
  <2>1. F[g] = IF wf'[g].at \in Turning THEN hold[g].upper ELSE hold[g].observed
    BY <1>1 DEF Promised
  <2>2. hold[g].upper \in Nat /\ hold[g].observed \in Nat /\ hold[g].observed <= hold[g].upper
    BY RowFacts
  <2> QED BY <1>1, <2>1, <2>2, UppersNat
<1>3. \A g \in Gens : F[g] = 0 \/ (g \in Held(hold) /\ F[g] <= G[g])
  <2> SUFFICES ASSUME NEW g \in Gens, g \notin Held(hold) PROVE F[g] = 0
    BY <1>2
  <2>1. hold[g] = Unreserved
    BY RowFacts DEF Held, RowInv
  <2> QED BY <1>1, <2>1, UnreservedRow DEF Promised
<1> HIDE DEF F
<1>4. Total(F, Gens) <= Exposure(hold)
  <2> HIDE DEF G
  <2>1. Total(F, Gens) <= Total(G, Held(hold))
    BY <1>2, <1>3, HeldRows, Numbers, TotalBounded
  <2> QED BY <2>1 DEF Exposure, G
<1>5. Exposure(hold) <= Cap /\ Exposure(hold) \in Nat /\ Total(F, Gens) \in Nat
  BY <1>1, <1>2, ExposureNat, Numbers, TotalNat, TypeFacts DEF CapInv
<1> QED BY <1>4, <1>5, Numbers DEF F

LEMMA Assembled ==
  ASSUME LedgerKept, Exposure(hold') <= Cap, Total(Promised', Gens) <= Cap, run' \in RunRows,
         Others', wf' \in [Gens -> WorkRows], sweep' \in [Processes -> SweepRows],
         canceller' \in CancelRows, SweepInv', TodoInv', RunInv', \A h \in Gens : WorkInv(h)'
  PROVE  IInv'
<1>1. TypeOK'
  BY DEF TypeOK, RunRows, LedgerKept, LedgerTypes, Others, WorkRows, SweepRows, CancelRows, HoldRows
<1>2. LedgerInv' /\ CapInv'
  BY DEF LedgerInv, CapInv, LedgerKept, RowKept
<1> QED BY <1>1, <1>2 DEF IInv

(* The row a step leaves: it reaches no turn it was not in, and it keeps   *)
(* what the later steps rely on.                                           *)
Ready(g, w) ==
  /\ w \in WorkRows
  /\ w.at \in OnHold => hold[g].reserved
  /\ w.at \in Settling \cup {"terminal"} => w.end # "none"
  /\ w.at \in Settling /\ g = run.generation => run.status \in {w.end} \cup Cancelling
  /\ w.at = "sweeping" =>
       /\ w.then # "none" /\ (w.then = "check" => w.end = "none")
       /\ w.release /\ Sweeping(g)' # {} => run.status \in Closed
  /\ run.status \in Ends /\ g = run.generation =>
       w.at = "ended" \/ (w.at \in Closing /\ w.end = run.status)

LEMMA ReservedKept == ASSUME LedgerKept, NEW g \in Gens, hold[g].reserved PROVE hold'[g].reserved
BY ForwardFields DEF LedgerKept, RowKept

LEMMA Closings == Cancelling \subseteq Closed /\ Ends \cap Cancelling = {}
BY DEF Cancelling, Closed, Ends

LEMMA WorkSame ==
  ASSUME IInv, LedgerKept, NEW h \in Gens, wf'[h] = wf[h], sweep'[h] = sweep[h],
         run'.generation = run.generation,
         run.status \in Closed => run'.status \in Closed,
         h = run.generation => run' = run \/ run'.status \in Cancelling
  PROVE  WorkInv(h)'
<1>1. WorkInv(h) /\ (hold[h].reserved => hold'[h].reserved)
  BY RowFacts, ReservedKept
<1>2. Sweeping(h)' = Sweeping(h)
  BY DEF Sweeping, None
<1> QED BY <1>1, <1>2 DEF WorkInv

LEMMA WorkflowKeeps ==
  ASSUME IInv, NEW g \in Gens, NEW w, Ready(g, w), wf' = [wf EXCEPT ![g] = w],
         w.at \in Turning => wf[g].at \in Turning, wf[g].at # "unstarted",
         UNCHANGED <<run, canceller>>, Others',
         LedgerKept, Justified, Exposure(hold') <= Cap, SweepKept(g)
  PROVE  IInv'
<1>1. wf \in [Gens -> WorkRows] /\ run \in RunRows /\ canceller \in CancelRows /\ RunInv /\ TodoInv
  BY TypeFacts
<1>2. /\ wf' \in [Gens -> WorkRows] /\ wf'[g] = w
      /\ \A h \in Gens \ {g} : wf'[h] = wf[h]
  BY <1>1 DEF Ready
<1>3. Total(Promised', Gens) <= Cap
  <2>1. \A h \in Gens : wf'[h].at \in Turning => wf[h].at \in Turning
    BY <1>2
  <2> QED BY <2>1, PromisedKept
<1>4. WorkInv(g)'
  <2>1. ~(g > run.generation) /\ (hold[g].reserved => hold'[g].reserved)
    BY RowFacts, ReservedKept DEF WorkInv
  <2> QED BY <1>2, <2>1 DEF WorkInv, Ready
<1>5. ASSUME NEW h \in Gens \ {g} PROVE WorkInv(h)'
  <2>1. sweep'[h] = sweep[h]
    BY DEF SweepKept, Processes, Gens
  <2> QED BY <1>2, <2>1, WorkSame
<1>6. RunInv'
  <2>1. \A h \in Gens : /\ hold'[h].released => run.status \in Closed
                        /\ hold'[h].cancelled => run.status \in Cancelling
    BY <1>1 DEF RunInv, Justified
  <2>2. run.status \in Ends => \/ wf'[run.generation].at = "ended"
                               \/ /\ wf'[run.generation].at \in Closing
                                  /\ wf'[run.generation].end = run.status
    <3>1. run.generation \in Gens
      BY <1>1 DEF RunRows
    <3> QED BY <1>1, <1>2, <3>1 DEF RunInv, Ready
  <2> QED BY <1>1, <2>1, <2>2 DEF RunInv
<1>7. TodoInv'
  BY <1>1, ReservedKept DEF TodoInv, CancelRows
<1>8. sweep' \in [Processes -> SweepRows] /\ SweepInv'
  BY DEF SweepKept
<1> QED BY <1>1, <1>2, <1>3, <1>4, <1>5, <1>6, <1>7, <1>8, Assembled

(* A step leaves a row that is ready, and names what it leaves alone.      *)
Stepped(g) ==
  /\ wf' = [wf EXCEPT ![g] = wf'[g]] /\ Ready(g, wf'[g])
  /\ wf'[g].at \in Turning => wf[g].at \in Turning

LEMMA Stepping ==
  ASSUME IInv, NEW g \in Gens, wf[g].at \notin {"unstarted", "ended"}, Stepped(g),
         UNCHANGED <<run, canceller>>, Others',
         LedgerKept, Justified, Exposure(hold') <= Cap, SweepKept(g)
  PROVE  IInv' /\ LedgerKept
<1> DEFINE w == wf'[g]
<1>1. Ready(g, w) /\ wf' = [wf EXCEPT ![g] = w] /\ (w.at \in Turning => wf[g].at \in Turning)
  BY DEF Stepped
<1> HIDE DEF w
<1> QED BY <1>1, WorkflowKeeps

LEMMA SteppingAside ==
  ASSUME IInv, NEW g \in Gens, wf[g].at \notin {"unstarted", "ended"}, Stepped(g),
         UNCHANGED <<run, canceller, sweep, ledgerVars>>, Others'
  PROVE  IInv' /\ LedgerKept
<1>1. LedgerKept /\ Justified /\ Exposure(hold') <= Cap
  BY LedgerUnchanged, QuietJustified
<1>2. SweepKept(g)
  BY <1>1, SweepSame DEF Processes, Gens
<1> QED BY <1>1, <1>2, Stepping

(* The end of a generation that the run has ended with.                    *)
LEMMA EndStands ==
  ASSUME IInv, NEW g \in Gens, g = run.generation, run.status \in Ends, wf[g].at # "ended"
  PROVE  wf[g].at \in Closing /\ wf[g].end = run.status /\ wf[g].end # "none"
BY TypeFacts DEF RunInv, Ends

LEMMA Goes ==
  ASSUME IInv, NEW g \in Gens, NEW at \in Steps \ {"sweeping"}, Goto(g, at),
         wf[g].at \notin {"unstarted", "ended"},
         at \in Turning => wf[g].at \in Turning,
         at \in OnHold => hold[g].reserved,
         at \in Settling \cup {"terminal"} => wf[g].end # "none",
         at \in Settling /\ g = run.generation => run.status \in {wf[g].end} \cup Cancelling,
         wf[g].at \in Closing /\ wf[g].end # "none" => at \in Closing \cup {"ended"}
  PROVE  Stepped(g)
<1>1. wf \in [Gens -> WorkRows] /\ wf[g] \in WorkRows
  BY TypeFacts
<1>2. CASE at = "ended"
  <2>1. wf' = [wf EXCEPT ![g] = Start("ended")] /\ wf'[g] = Start("ended")
    BY <1>1, <1>2 DEF Goto
  <2>2. Start("ended") \in WorkRows /\ Start("ended").at = "ended"
    BY Numbers DEF Start, WorkRows, Steps
  <2> QED BY <2>1, <2>2 DEF Stepped, Ready, Turning, OnHold, Settling
<1>3. CASE at # "ended"
  <2> DEFINE w == [wf[g] EXCEPT !.at = at]
  <2>1. w \in WorkRows /\ w.at = at /\ w.end = wf[g].end
    BY <1>1 DEF WorkRows
  <2>2. wf' = [wf EXCEPT ![g] = w] /\ wf'[g] = w
    BY <1>1, <1>3 DEF Goto
  <2> HIDE DEF w
  <2>3. run.status \in Ends /\ g = run.generation => w.at \in Closing /\ w.end = run.status
    BY <1>3, <2>1, EndStands
  <2> QED BY <1>3, <2>1, <2>2, <2>3 DEF Stepped, Ready
<1> QED BY <1>2, <1>3

LEMMA Concludes ==
  ASSUME IInv, NEW g \in Gens, NEW end \in Ends, End(g, end),
         wf[g].at \notin {"unstarted", "ended"}, wf[g].at \in Closing => wf[g].end = "none"
  PROVE  Stepped(g)
<1> DEFINE w == [wf[g] EXCEPT !.at = "terminal", !.end = end]
<1>1. wf \in [Gens -> WorkRows] /\ wf[g] \in WorkRows
  BY TypeFacts
<1>2. w \in WorkRows /\ w.at = "terminal" /\ w.end = end /\ end # "none"
  <2>1. \A a \in Steps, e \in Ends : [wf[g] EXCEPT !.at = a, !.end = e] \in WorkRows
    BY <1>1 DEF WorkRows
  <2>2. "terminal" \in Steps /\ end # "none"
    BY DEF Steps, Ends
  <2>3. w \in WorkRows
    BY <2>1, <2>2
  <2> QED BY <1>1, <2>2, <2>3 DEF WorkRows
<1>3. wf' = [wf EXCEPT ![g] = w] /\ wf'[g] = w
  BY <1>1 DEF End
<1> HIDE DEF w
<1>4. ~(run.status \in Ends /\ g = run.generation)
  BY EndStands
<1> QED BY <1>2, <1>3, <1>4 DEF Stepped, Ready, Turning, OnHold, Settling

LEMMA Sweeps ==
  ASSUME IInv, NEW g \in Gens, NEW chosen, NEW release \in BOOLEAN,
         NEW then \in {"check", "cancelled", "superseded", "ended"},
         SweepThen(g, chosen, release, then), wf[g].at \in Closing,
         then = "check" => wf[g].end = "none",
         release /\ Sweeping(g)' # {} => run.status \in Closed
  PROVE  Stepped(g)
<1> DEFINE w == [wf[g] EXCEPT !.at = "sweeping", !.seen = 0, !.release = release, !.then = then]
<1>1. wf \in [Gens -> WorkRows] /\ wf[g] \in WorkRows
  BY TypeFacts
<1>2. w \in WorkRows /\ w.at = "sweeping" /\ w.end = wf[g].end /\ w.release = release /\ w.then = then
  <2>1. \A r \in BOOLEAN, s \in 0..Bound :
          [wf[g] EXCEPT !.at = "sweeping", !.seen = s, !.release = r, !.then = then] \in WorkRows
    BY <1>1 DEF WorkRows, Steps
  <2>2. 0 \in 0..Bound
    BY Numbers
  <2>3. w \in WorkRows
    BY <2>1, <2>2
  <2> QED BY <1>1, <2>3 DEF WorkRows
<1>3. wf' = [wf EXCEPT ![g] = w] /\ wf'[g] = w
  BY <1>1 DEF SweepThen
<1> HIDE DEF w
<1>4. run.status \in Ends /\ g = run.generation => w.at \in Closing /\ w.end = run.status
  <2>1. wf[g].at # "ended"
    BY DEF Closing
  <2> QED BY <1>2, <2>1, EndStands DEF Closing
<1> QED BY <1>2, <1>3, <1>4 DEF Stepped, Ready, Turning, OnHold, Settling

(* The steps that change nothing but their own workflow.                   *)
LEMMA OthersKept ==
  ASSUME IInv, UNCHANGED <<billed, inflight, OtherVars>>
  PROVE  Others'
BY TypeFacts DEF Others, OtherVars

LEMMA LocalKeeps ==
  ASSUME IInv, NEW g \in Gens, wf[g].at \notin {"unstarted", "ended"}, Stepped(g), Local
  PROVE  IInv' /\ LedgerKept
BY OthersKept, SteppingAside DEF Local

LEMMA PrepareKeeps == ASSUME IInv, NEW g \in Gens, Prepare(g) PROVE IInv' /\ LedgerKept
<1>1. PICK at \in {"ended", "check", "superseded"} : Goto(g, at)
  BY DEF Prepare
<1>2. wf[g].at = "prepare" /\ Local
  BY DEF Prepare
<1>3. Stepped(g)
  BY <1>1, <1>2, Goes DEF Steps, Turning, OnHold, Settling, Closing
<1> QED BY <1>2, <1>3, LocalKeeps

LEMMA CheckReserveKeeps == ASSUME IInv, NEW g \in Gens, CheckReserve(g) PROVE IInv' /\ LedgerKept
<1>1. wf[g].at = "check" /\ Local /\ (Goto(g, "reserve") \/ End(g, "refused"))
  BY DEF CheckReserve
<1>2. CASE Goto(g, "reserve")
  <2>1. Stepped(g)
    BY <1>1, <1>2, Goes DEF Steps, Turning, OnHold, Settling, Closing
  <2> QED BY <1>1, <2>1, LocalKeeps
<1>3. CASE End(g, "refused")
  <2>1. Stepped(g)
    BY <1>1, <1>3, Concludes DEF Ends, Closing
  <2> QED BY <1>1, <2>1, LocalKeeps
<1> QED BY <1>1, <1>2, <1>3

LEMMA GateKeeps == ASSUME IInv, NEW g \in Gens, Gate(g) PROVE IInv' /\ LedgerKept
<1>1. /\ wf[g].at = "turn" /\ Local
      /\ Goto(g, "ended") \/ (hold[g].reserved /\ Goto(g, "gated")) \/ End(g, "failed")
  BY DEF Gate
<1>2. CASE Goto(g, "ended") \/ (hold[g].reserved /\ Goto(g, "gated"))
  <2>1. Stepped(g)
    BY <1>1, <1>2, Goes DEF Steps, Turning, OnHold, Settling, Closing
  <2> QED BY <1>1, <2>1, LocalKeeps
<1>3. CASE End(g, "failed")
  <2>1. Stepped(g)
    BY <1>1, <1>3, Concludes DEF Ends, Closing
  <2> QED BY <1>1, <2>1, LocalKeeps
<1> QED BY <1>1, <1>2, <1>3

LEMMA RunTurnKeeps == ASSUME IInv, NEW g \in Gens, RunTurn(g) PROVE IInv' /\ LedgerKept
<1>1. /\ wf[g].at = "gated" /\ Others'
      /\ UNCHANGED <<run, canceller, sweep, ledgerVars>>
  BY TypeFacts DEF RunTurn, Others
<1>2. PICK at \in {"billed", "open"} : Goto(g, at)
  BY DEF RunTurn
<1>3. hold[g].reserved
  BY <1>1, RowFacts DEF WorkInv, OnHold
<1>4. Stepped(g)
  BY <1>1, <1>2, <1>3, Goes DEF Steps, Turning, OnHold, Settling, Closing
<1> QED BY <1>1, <1>4, SteppingAside

LEMMA AnswerKeeps == ASSUME IInv, NEW g \in Gens, Answer(g) PROVE IInv' /\ LedgerKept
<1>1. /\ wf[g].at = "open" /\ UNCHANGED <<run, canceller, sweep, ledgerVars>>
      /\ Goto(g, "billed") \/ End(g, "failed")
  BY DEF Answer
<1>2. Others'
  <2>1. billed' \in [Gens -> SUBSET Turns]
    <3>1. billed \in [Gens -> SUBSET Turns] /\ wf[g].turn \in Turns
      BY TypeFacts, RowFacts DEF Others, WorkRows
    <3>2. billed[g] \cup {wf[g].turn} \in SUBSET Turns
      BY <3>1
    <3> QED BY <3>1, <3>2 DEF Answer
  <2> QED BY <2>1, TypeFacts DEF Answer, Others, OtherVars
<1>3. CASE Goto(g, "billed")
  <2>1. hold[g].reserved
    BY <1>1, RowFacts DEF WorkInv, OnHold
  <2>2. Stepped(g)
    BY <1>1, <1>3, <2>1, Goes DEF Steps, Turning, OnHold, Settling, Closing
  <2> QED BY <1>1, <1>2, <2>2, SteppingAside
<1>4. CASE End(g, "failed")
  <2>1. Stepped(g)
    BY <1>1, <1>4, Concludes DEF Ends, Closing
  <2> QED BY <1>1, <1>2, <2>1, SteppingAside
<1> QED BY <1>1, <1>3, <1>4

LEMMA NextStepKeeps == ASSUME IInv, NEW g \in Gens, NextStep(g) PROVE IInv' /\ LedgerKept
<1>1. wf[g].at = "metered" /\ Local
  BY DEF NextStep
<1>2. CASE wf[g].turn < MaxTurns /\ wf' = [wf EXCEPT ![g].at = "turn", ![g].turn = @ + 1]
  <2> DEFINE w == [wf[g] EXCEPT !.at = "turn", !.turn = wf[g].turn + 1]
  <2>1. wf \in [Gens -> WorkRows] /\ wf[g] \in WorkRows
    BY TypeFacts
  <2>2. w \in WorkRows /\ w.at = "turn"
    <3>1. \A t \in Turns : [wf[g] EXCEPT !.at = "turn", !.turn = t] \in WorkRows
      BY <2>1 DEF WorkRows, Steps
    <3>2. wf[g].turn + 1 \in Turns
      <4>1. wf[g].turn \in Turns
        BY <2>1 DEF WorkRows
      <4> QED BY <1>2, <4>1, Numbers DEF Turns
    <3>3. w \in WorkRows
      BY <3>1, <3>2
    <3> QED BY <2>1, <3>3 DEF WorkRows
  <2>3. wf' = [wf EXCEPT ![g] = w] /\ wf'[g] = w
    BY <1>2, <2>1
  <2> HIDE DEF w
  <2>4. ~(run.status \in Ends /\ g = run.generation)
    BY <1>1, EndStands DEF Closing
  <2>5. Stepped(g)
    BY <1>1, <2>2, <2>3, <2>4 DEF Stepped, Ready, Turning, OnHold, Settling
  <2> QED BY <1>1, <2>5, LocalKeeps
<1>3. CASE End(g, "completed") \/ End(g, "failed")
  <2>1. Stepped(g)
    BY <1>1, <1>3, Concludes DEF Ends, Closing
  <2> QED BY <1>1, <2>1, LocalKeeps
<1> QED BY <1>2, <1>3 DEF NextStep

LEMMA ReadHoldKeeps == ASSUME IInv, NEW g \in Gens, ReadHold(g) PROVE IInv' /\ LedgerKept
<1>1. PICK at \in {"ended", "superseded", "finalize"} :
        Goto(g, at) /\ (at = "finalize" => hold[g].reserved)
  BY DEF ReadHold
<1>2. wf[g].at = "settle" /\ Local
  BY DEF ReadHold
<1>3. /\ wf[g].end # "none"
      /\ g = run.generation => run.status \in {wf[g].end} \cup Cancelling
  BY <1>2, RowFacts DEF WorkInv, Settling
<1>4. Stepped(g)
  BY <1>1, <1>2, <1>3, Goes DEF Steps, Turning, OnHold, Settling, Closing
<1> QED BY <1>2, <1>4, LocalKeeps

LEMMA RereadKeeps == ASSUME IInv, NEW g \in Gens, Reread(g) PROVE IInv' /\ LedgerKept
<1> DEFINE w == [wf[g] EXCEPT !.at = "reconcile", !.seen = hold[g].observed]
<1>1. wf[g].at = "reread" /\ Local
  BY DEF Reread
<1>2. wf \in [Gens -> WorkRows] /\ wf[g] \in WorkRows
  BY TypeFacts
<1>3. w \in WorkRows /\ w.at = "reconcile" /\ w.end = wf[g].end
  <2>1. \A s \in 0..Bound : [wf[g] EXCEPT !.at = "reconcile", !.seen = s] \in WorkRows
    BY <1>2 DEF WorkRows, Steps
  <2>2. hold[g].observed \in 0..Bound
    BY RowFacts DEF HoldRows
  <2>3. w \in WorkRows
    BY <2>1, <2>2
  <2> QED BY <1>2, <2>3 DEF WorkRows
<1>4. wf' = [wf EXCEPT ![g] = w] /\ wf'[g] = w
  BY <1>2 DEF Reread
<1> HIDE DEF w
<1>5. /\ wf[g].end # "none" /\ hold[g].reserved
      /\ g = run.generation => run.status \in {wf[g].end} \cup Cancelling
  BY <1>1, RowFacts DEF WorkInv, Settling, OnHold
<1>6. run.status \in Ends /\ g = run.generation => w.at \in Closing /\ w.end = run.status
  BY <1>1, <1>3, EndStands DEF Closing
<1>7. Stepped(g)
  BY <1>3, <1>4, <1>5, <1>6 DEF Stepped, Ready, Turning, OnHold, Settling
<1> QED BY <1>1, <1>7, LocalKeeps

(* The steps that write the ledger, or read it to settle.                  *)
LEMMA LedgerWritten ==
  ASSUME IInv, NEW g \in Gens, wf[g].at \notin {"unstarted", "ended"}, Stepped(g),
         LedgerKept, Quiet, Exposure(hold') <= Cap,
         UNCHANGED <<run, billed, inflight, sweep, canceller, OtherVars>>
  PROVE  IInv' /\ LedgerKept
<1>1. SweepKept(g)
  BY SweepSame DEF Processes, Gens
<1> QED BY <1>1, OthersKept, QuietJustified, Stepping

LEMMA ReserveStepKeeps == ASSUME IInv, NEW g \in Gens, Reserve(g) PROVE IInv' /\ LedgerKept
<1> DEFINE holds == FenceExpired(hold)
           granted == IF hold[g].reserved THEN ~Fenced(holds[g]) ELSE Headroom(holds)
<1>1. /\ wf[g].at = "reserve" /\ UNCHANGED <<metered, finals>>
      /\ UNCHANGED <<run, billed, inflight, sweep, canceller, OtherVars>>
      /\ hold' = IF ~granted THEN hold
                 ELSE IF hold[g].reserved THEN holds ELSE [holds EXCEPT ![g] = Reserved]
      /\ IF granted THEN Goto(g, "ready") ELSE End(g, "refused")
  BY DEF Reserve
<1>2. LedgerKept /\ Quiet /\ Exposure(hold') <= Cap
  BY <1>1, ReserveKeeps
<1>3. Stepped(g)
  <2>1. CASE Goto(g, "ready")
    BY <1>1, <2>1, Goes DEF Steps, Turning, OnHold, Settling, Closing
  <2>2. CASE End(g, "refused")
    BY <1>1, <2>2, Concludes DEF Ends, Closing
  <2> QED BY <1>1, <2>1, <2>2
<1> QED BY <1>1, <1>2, <1>3, LedgerWritten

LEMMA ObserveStepKeeps == ASSUME IInv, NEW g \in Gens, Observe(g) PROVE IInv' /\ LedgerKept
<1>1. /\ wf[g].at = "billed" /\ finals' = finals
      /\ UNCHANGED <<run, billed, inflight, sweep, canceller, OtherVars>>
      /\ Goto(g, "metered") \/ End(g, "failed")
  BY DEF Observe
<1>2. LedgerKept /\ Quiet /\ Exposure(hold') <= Cap
  <2>1. CASE hold' = hold /\ metered' = metered
    BY <1>1, <2>1, LedgerUnchanged DEF ledgerVars
  <2>2. CASE /\ wf[g].turn \notin metered[g] /\ Recordable(g, TurnCost)
             /\ hold' = [hold EXCEPT ![g].observed = @ + TurnCost]
             /\ metered' = [metered EXCEPT ![g] = @ \cup {wf[g].turn}]
    BY <1>1, <2>2, ObserveKeeps
  <2> QED BY <2>1, <2>2 DEF Observe
<1>3. Stepped(g)
  <2>1. CASE Goto(g, "metered")
    BY <1>1, <2>1, Goes DEF Steps, Turning, OnHold, Settling, Closing
  <2>2. CASE End(g, "failed")
    BY <1>1, <2>2, Concludes DEF Ends, Closing
  <2> QED BY <1>1, <2>1, <2>2
<1> QED BY <1>1, <1>2, <1>3, LedgerWritten

LEMMA FinalizeKeeps == ASSUME IInv, NEW g \in Gens, Finalize(g) PROVE IInv' /\ LedgerKept
<1>1. /\ wf[g].at = "finalize"
      /\ UNCHANGED <<run, billed, inflight, sweep, canceller, OtherVars>>
  BY DEF Finalize
<1>2. /\ hold[g].reserved /\ wf[g].end # "none"
      /\ g = run.generation => run.status \in {wf[g].end} \cup Cancelling
  BY <1>1, RowFacts DEF WorkInv, Settling, OnHold
<1>3. CASE RecordFinal(g, "settlement") /\ Goto(g, "reread")
  <2>1. LedgerKept /\ Quiet /\ Exposure(hold') <= Cap
    BY <1>2, <1>3, FinalKeeps
  <2>2. Stepped(g)
    BY <1>1, <1>2, <1>3, Goes DEF Steps, Turning, OnHold, Settling, Closing
  <2> QED BY <1>1, <2>1, <2>2, LedgerWritten
<1>4. CASE UNCHANGED ledgerVars /\ Goto(g, "ended")
  <2>1. LedgerKept /\ Quiet /\ Exposure(hold') <= Cap
    BY <1>4, LedgerUnchanged
  <2>2. Stepped(g)
    BY <1>1, <1>4, Goes DEF Steps, Turning, OnHold, Settling, Closing
  <2> QED BY <1>1, <2>1, <2>2, LedgerWritten
<1> QED BY <1>3, <1>4 DEF Finalize

LEMMA SweepStarted ==
  ASSUME IInv, NEW g \in Gens, NEW chosen \in SUBSET Gens, \A h \in chosen : hold[h].reserved,
         NEW release \in BOOLEAN,
         NEW then \in {"check", "cancelled", "superseded", "ended"},
         SweepThen(g, chosen, release, then), wf[g].at \in Closing,
         then = "check" => wf[g].end = "none",
         release /\ chosen # {} => run.status \in Closed,
         UNCHANGED <<run, ledgerVars, billed, inflight, canceller, OtherVars>>
  PROVE  IInv' /\ LedgerKept
<1>1. LedgerKept /\ Justified /\ Exposure(hold') <= Cap
  BY LedgerUnchanged, QuietJustified
<1>2. SweepKept(g) /\ Sweeping(g)' \subseteq chosen
  BY <1>1, BeginSweepKeeps DEF SweepThen, Processes, Gens
<1>3. Stepped(g)
  BY <1>2, Sweeps
<1>4. wf[g].at \notin {"unstarted", "ended"}
  BY DEF Closing
<1> QED BY <1>1, <1>2, <1>3, <1>4, OthersKept, Stepping

LEMMA ReconcileKeeps == ASSUME IInv, NEW g \in Gens, Reconcile(g) PROVE IInv' /\ LedgerKept
<1>1. /\ wf[g].at = "reconcile" /\ wf[g].at \in Closing
      /\ UNCHANGED <<run, ledgerVars, billed, inflight, canceller, OtherVars>>
  BY DEF Reconcile, Closing
<1>2. /\ hold[g].reserved /\ wf[g].end # "none" /\ ~(g > run.generation)
      /\ g = run.generation => run.status \in {wf[g].end} \cup Cancelling
  BY <1>1, RowFacts DEF WorkInv, Settling, OnHold
<1>3. \/ UNCHANGED sweep /\ \E at \in {"ended", "reread"} : Goto(g, at)
      \/ SweepThen(g, SupersededFinal \cap {g}, FALSE, "cancelled")
      \/ ~(g < run.generation) /\ SweepThen(g, {g}, wf[g].end # "failed", "cancelled")
  BY DEF Reconcile
<1>4. CASE UNCHANGED sweep /\ \E at \in {"ended", "reread"} : Goto(g, at)
  <2>1. PICK at \in {"ended", "reread"} : Goto(g, at)
    BY <1>4
  <2>2. Stepped(g)
    BY <1>1, <1>2, <2>1, Goes DEF Steps, Turning, OnHold, Settling, Closing
  <2> QED BY <1>1, <1>4, <2>2, OthersKept, SteppingAside
<1>5. CASE SweepThen(g, SupersededFinal \cap {g}, FALSE, "cancelled")
  <2>1. SupersededFinal \cap {g} \in SUBSET Gens
    OBVIOUS
  <2> QED BY <1>1, <1>2, <1>5, <2>1, SweepStarted
<1>6. CASE ~(g < run.generation) /\ SweepThen(g, {g}, wf[g].end # "failed", "cancelled")
  <2>1. g = run.generation
    <3>1. g \in Nat /\ run.generation \in Nat
      BY Numbers, TypeFacts DEF RunRows
    <3> QED BY <1>2, <1>6, <3>1
  <2>2. wf[g].end # "failed" => run.status \in Closed
    <3>1. wf[g].end \in Ends
      BY <1>2, RowFacts DEF WorkRows
    <3> QED BY <1>2, <2>1, <3>1 DEF Ends, Closed
  <2> QED BY <1>1, <1>2, <1>6, <2>2, SweepStarted
<1> QED BY <1>3, <1>4, <1>5, <1>6

LEMMA RecoverCancelledKeeps ==
  ASSUME IInv, NEW g \in Gens, RecoverCancelled(g) PROVE IInv' /\ LedgerKept
<1>1. CancelledFinal \in SUBSET Gens /\ \A h \in CancelledFinal : hold[h].reserved
  BY DEF CancelledFinal, Held
<1>2. CancelledFinal # {} => run.status \in Closed
  BY TypeFacts, Closings DEF RunInv, CancelledFinal, Held
<1>3. wf[g].at \in Closing
  BY DEF RecoverCancelled, Closing
<1> QED BY <1>1, <1>2, <1>3, SweepStarted DEF RecoverCancelled

LEMMA RecoverSupersededKeeps ==
  ASSUME IInv, NEW g \in Gens, RecoverSuperseded(g) PROVE IInv' /\ LedgerKept
<1>1. SupersededFinal \in SUBSET Gens /\ \A h \in SupersededFinal : hold[h].reserved
  BY DEF SupersededFinal, Held
<1>2. PICK then \in {"check", "ended"} :
        /\ SweepThen(g, SupersededFinal, FALSE, then)
        /\ then = "check" => wf[g].end = "none"
  BY DEF RecoverSuperseded
<1>3. wf[g].at \in Closing
  BY DEF RecoverSuperseded, Closing
<1>4. UNCHANGED <<run, ledgerVars, billed, inflight, canceller, OtherVars>>
  BY DEF RecoverSuperseded
<1> QED BY <1>1, <1>2, <1>3, <1>4, SweepStarted

LEMMA SettleNextKeeps == ASSUME IInv, NEW g \in Gens, SettleNext(g) PROVE IInv' /\ LedgerKept
<1>1. /\ wf[g].at = "sweeping" /\ g \in Processes
      /\ UNCHANGED <<run, billed, inflight, canceller, OtherVars>>
  BY DEF SettleNext, Processes, Gens
<1>2. /\ wf[g].then # "none" /\ (wf[g].then = "check" => wf[g].end = "none")
      /\ wf[g].release /\ Sweeping(g) # {} => run.status \in Closed
  BY <1>1, RowFacts DEF WorkInv
<1>3. wf[g] \in WorkRows /\ wf \in [Gens -> WorkRows]
  BY TypeFacts
<1>4. CASE Goto(g, wf[g].then) /\ UNCHANGED <<ledgerVars, sweep>>
  <2>1. wf[g].then \in {"check", "cancelled", "superseded", "ended"}
    BY <1>2, <1>3 DEF WorkRows
  <2>2. Stepped(g)
    BY <1>1, <1>2, <1>4, <2>1, Goes DEF Steps, Turning, OnHold, Settling, Closing
  <2> QED BY <1>1, <1>4, <2>2, OthersKept, SteppingAside
<1>5. ASSUME NEW h \in Sweeping(g), Settle(g, h, wf[g].release),
             IF SettleOutcome(h, sweep[g][h], wf[g].release) # "refused" THEN UNCHANGED wf
             ELSE IF wf[g].then = "check" THEN End(g, "refused") ELSE Goto(g, "ended")
      PROVE  IInv' /\ LedgerKept
  <2>1. h \in Gens /\ sweep[g][h] # None /\ wf[g].release \in BOOLEAN
    BY <1>3, <1>5 DEF Sweeping, WorkRows
  <2>2. wf[g].release => run.status \in Closed
    BY <1>2, <1>5
  <2>3. /\ LedgerKept /\ Justified /\ Exposure(hold') <= Cap
        /\ SweepKept(g) /\ Sweeping(g)' \subseteq Sweeping(g)
    BY <1>1, <1>5, <2>1, <2>2, SettleKeeps
  <2>4. CASE UNCHANGED wf
    <3>1. wf' = [wf EXCEPT ![g] = wf'[g]] /\ wf'[g] = wf[g]
      BY <1>3, <2>4
    <3>2. run.status \in Ends /\ g = run.generation =>
            wf[g].at \in Closing /\ wf[g].end = run.status
      BY <1>1, EndStands
    <3>3. Sweeping(g)' # {} => Sweeping(g) # {}
      BY <2>3
    <3>4. Ready(g, wf[g])
      BY <1>1, <1>2, <1>3, <3>2, <3>3 DEF Ready, OnHold, Settling
    <3> QED BY <1>1, <2>3, <3>1, <3>4, OthersKept, Stepping DEF Stepped
  <2>5. CASE wf[g].then = "check" /\ End(g, "refused")
    <3>1. Stepped(g)
      BY <1>1, <1>2, <2>5, Concludes DEF Ends
    <3> QED BY <1>1, <2>3, <3>1, OthersKept, Stepping
  <2>6. CASE Goto(g, "ended")
    <3>1. Stepped(g)
      BY <1>1, <2>6, Goes DEF Steps, Turning, OnHold, Settling, Closing
    <3> QED BY <1>1, <2>3, <3>1, OthersKept, Stepping
  <2> QED BY <1>5, <2>4, <2>5, <2>6
<1> QED BY <1>4, <1>5 DEF SettleNext

(* The steps that move the run, and the deaths.                            *)
LEMMA RunMoves ==
  ASSUME IInv, NEW g \in Gens, g = run.generation, ~Superseded(g), wf[g].at \notin {"unstarted", "ended"},
         NEW status \in Statuses, run' = [run EXCEPT !.status = status],
         NEW w \in WorkRows, wf' = [wf EXCEPT ![g] = w],
         w.at \in {"turn", "settle"}, w.at = "settle" => w.end = status,
         status \in Ends => w.at = "settle",
         run.status \in Closed => status = run.status,
         Total(Promised', Gens) <= Cap,
         UNCHANGED <<ledgerVars, billed, inflight, sweep, canceller, OtherVars>>
  PROVE  IInv' /\ LedgerKept
<1>1. /\ wf \in [Gens -> WorkRows] /\ run \in RunRows /\ canceller \in CancelRows
      /\ RunInv /\ TodoInv
  BY TypeFacts
<1>2. run' \in RunRows /\ run'.status = status /\ run'.generation = run.generation
  BY <1>1 DEF RunRows
<1>3. /\ wf' \in [Gens -> WorkRows] /\ wf'[g] = w
      /\ \A h \in Gens \ {g} : wf'[h] = wf[h]
  BY <1>1
<1>4. LedgerKept /\ Quiet /\ Exposure(hold') <= Cap
  BY LedgerUnchanged
<1>5. SweepKept(g)
  BY <1>4, SweepSame DEF Processes, Gens
<1>6. WorkInv(g)'
  <2>1. ~(g > run.generation)
    BY RowFacts DEF WorkInv
  <2>2. status # "none"
    BY DEF Statuses
  <2> QED BY <1>2, <1>3, <2>1, <2>2 DEF WorkInv, OnHold, Settling
<1>7. ASSUME NEW h \in Gens \ {g} PROVE WorkInv(h)'
  <2>1. sweep'[h] = sweep[h]
    OBVIOUS
  <2> QED BY <1>2, <1>3, <1>4, <2>1, WorkSame
<1>8. RunInv'
  <2>1. run.status \notin Cancelling
    BY DEF Superseded, Cancelling
  <2>2. \A h \in Gens : /\ hold'[h].released => status \in Closed
                        /\ ~hold'[h].cancelled
    BY <1>1, <1>4, <2>1 DEF RunInv, Quiet
  <2>3. canceller'.at = "idle"
    BY <1>1, <2>1 DEF RunInv
  <2>4. status \in Ends => wf'[run.generation].at \in Closing /\ wf'[run.generation].end = status
    BY <1>3 DEF Closing
  <2> QED BY <1>2, <2>2, <2>3, <2>4 DEF RunInv
<1>9. TodoInv'
  BY <1>1, <1>4, ReservedKept DEF TodoInv, CancelRows
<1>10. sweep' \in [Processes -> SweepRows] /\ SweepInv'
  BY <1>5 DEF SweepKept
<1> QED BY <1>1, <1>2, <1>3, <1>4, <1>6, <1>7, <1>8, <1>9, <1>10, OthersKept, Assembled

LEMMA PreparationReadyKeeps ==
  ASSUME IInv, NEW g \in Gens, PreparationReady(g) PROVE IInv' /\ LedgerKept
<1>1. /\ wf[g].at = "ready"
      /\ UNCHANGED <<ledgerVars, billed, inflight, sweep, canceller, OtherVars>>
  BY DEF PreparationReady
<1>2. CASE Goto(g, "ended") /\ UNCHANGED run
  <2>1. Stepped(g)
    BY <1>1, <1>2, Goes DEF Steps, Turning, OnHold, Settling, Closing
  <2> QED BY <1>1, <1>2, <2>1, OthersKept, SteppingAside
<1>3. CASE ~Superseded(g) /\ Goto(g, "turn") /\ run' = [run EXCEPT !.status = "running"]
  <2> DEFINE w == [wf[g] EXCEPT !.at = "turn"]
  <2>1. wf \in [Gens -> WorkRows] /\ wf[g] \in WorkRows /\ run \in RunRows /\ RunInv
    BY TypeFacts
  <2>2. w \in WorkRows /\ w.at = "turn" /\ wf' = [wf EXCEPT ![g] = w]
    BY <1>3, <2>1 DEF WorkRows, Steps, Goto
  <2>3. g = run.generation /\ run.status \notin Closed
    <3>1. g = run.generation /\ run.status \notin Cancelling
      BY <1>3 DEF Superseded, Cancelling
    <3>2. run.status \notin Ends
      BY <1>1, <3>1, EndStands DEF Closing
    <3> QED BY <3>1, <3>2 DEF Closed, Ends
  <2>4. Total(Promised', Gens) <= Cap
    BY <1>1, <2>1, <2>3, PromisedHeld DEF RunInv
  <2>5. "running" \in Statuses /\ "running" \notin Ends
    BY DEF Statuses, Ends
  <2> HIDE DEF w
  <2> QED BY <1>1, <1>3, <2>2, <2>3, <2>4, <2>5, RunMoves
<1> QED BY <1>2, <1>3 DEF PreparationReady

LEMMA TerminalizeKeeps == ASSUME IInv, NEW g \in Gens, Terminalize(g) PROVE IInv' /\ LedgerKept
<1>1. /\ wf[g].at = "terminal"
      /\ UNCHANGED <<ledgerVars, billed, inflight, sweep, canceller, OtherVars>>
  BY DEF Terminalize
<1>2. CASE Goto(g, "ended") /\ UNCHANGED run
  <2>1. Stepped(g)
    BY <1>1, <1>2, Goes DEF Steps, Turning, OnHold, Settling, Closing
  <2> QED BY <1>1, <1>2, <2>1, OthersKept, SteppingAside
<1>3. CASE ~Superseded(g) /\ Goto(g, "settle") /\ run' = [run EXCEPT !.status = wf[g].end]
  <2> DEFINE w == [wf[g] EXCEPT !.at = "settle"]
  <2>1. wf \in [Gens -> WorkRows] /\ wf[g] \in WorkRows /\ run \in RunRows
    BY TypeFacts
  <2>2. w \in WorkRows /\ w.at = "settle" /\ w.end = wf[g].end /\ wf' = [wf EXCEPT ![g] = w]
    BY <1>3, <2>1 DEF WorkRows, Steps, Goto
  <2>3. g = run.generation /\ run.status \notin Cancelling
    BY <1>3 DEF Superseded, Cancelling
  <2>4. run.status \in Closed => wf[g].end = run.status
    <3>1. run.status \in Ends => wf[g].end = run.status
      BY <1>1, <2>3, EndStands
    <3> QED BY <2>3, <3>1 DEF Closed, Ends
  <2>5. LedgerKept
    BY <1>1, LedgerUnchanged
  <2> HIDE DEF w
  <2>6. wf'[g].at = "settle" /\ \A h \in Gens \ {g} : wf'[h] = wf[h]
    BY <2>1, <2>2
  <2>7. Total(Promised', Gens) <= Cap
    <3>1. \A h \in Gens : wf'[h].at \in Turning => wf[h].at \in Turning
      BY <2>6 DEF Turning
    <3> QED BY <2>5, <3>1, PromisedKept
  <2>8. wf[g].end \in Statuses
    <3>1. wf[g].end # "none"
      BY <1>1, RowFacts DEF WorkInv
    <3> QED BY <2>1, <3>1 DEF WorkRows, Ends, Statuses
  <2> QED BY <1>1, <1>3, <2>2, <2>3, <2>4, <2>7, <2>8, RunMoves
<1> QED BY <1>2, <1>3 DEF Terminalize

LEMMA CrashKeeps == ASSUME IInv, NEW g \in Gens, Crash(g) PROVE IInv' /\ LedgerKept
<1> DEFINE at == StepStart(wf[g])
           w == [Start(at) EXCEPT !.turn = wf[g].turn, !.end = wf[g].end]
<1>1. /\ wf[g].at \notin {"unstarted", "prepare", "turn", "terminal", "ended"}
      /\ UNCHANGED <<run, canceller, ledgerVars>>
      /\ sweep' = [sweep EXCEPT ![g] = NoSweep] /\ wf' = [wf EXCEPT ![g] = w]
  BY DEF Crash, ledgerVars
<1>2. Others'
  <2>1. crashes \in 0..MaxCrashes /\ crashes < MaxCrashes
    BY TypeFacts DEF Others, Crash
  <2>2. crashes + 1 \in 0..MaxCrashes
    BY <2>1, Numbers
  <2> QED BY <2>2, TypeFacts DEF Crash, Others
<1>3. LedgerKept /\ Justified /\ Exposure(hold') <= Cap
  BY <1>1, LedgerUnchanged, QuietJustified
<1>4. SweepKept(g)
  <2>1. g \in Processes
    BY DEF Processes, Gens
  <2> QED BY <1>1, <1>3, <2>1, NoSweepRow, SweepChanged
<1>5. wf \in [Gens -> WorkRows] /\ wf[g] \in WorkRows
  BY TypeFacts
<1>6. /\ at \in {"turn", "terminal", "prepare"}
      /\ at = "turn" => wf[g].at \in Turning
      /\ at = "terminal" => wf[g].end # "none"
      /\ wf[g].at \in Closing /\ wf[g].end # "none" => at = "terminal"
  BY DEF StepStart, Turning, Closing
<1> HIDE DEF at
<1>7. w \in WorkRows /\ w.at = at /\ w.end = wf[g].end
  <2> DEFINE Row(r, t, e) == [r EXCEPT !.turn = t, !.end = e]
  <2>1. Start(at) \in WorkRows /\ Start(at).at = at
    BY <1>6, Numbers DEF Start, WorkRows, Steps
  <2>2. \A r \in WorkRows, t \in Turns, e \in Ends \cup {"none"} :
          Row(r, t, e) \in WorkRows /\ Row(r, t, e).at = r.at /\ Row(r, t, e).end = e
    BY DEF WorkRows
  <2>3. wf[g].turn \in Turns /\ wf[g].end \in Ends \cup {"none"}
    BY <1>5 DEF WorkRows
  <2>4. w = Row(Start(at), wf[g].turn, wf[g].end)
    OBVIOUS
  <2> HIDE DEF w, Row
  <2> QED BY <2>1, <2>2, <2>3, <2>4
<1> HIDE DEF w
<1>8. wf'[g] = w
  BY <1>1, <1>5
<1>9. run.status \in Ends /\ g = run.generation => w.at \in Closing /\ w.end = run.status
  BY <1>1, <1>6, <1>7, EndStands DEF Closing
<1>10. Stepped(g)
  BY <1>1, <1>6, <1>7, <1>8, <1>9 DEF Stepped, Ready, Turning, OnHold, Settling
<1> QED BY <1>1, <1>2, <1>3, <1>4, <1>10, Stepping

-----------------------------------------------------------------------------
(* The steps of the cancellation, of the clock and of a retry.             *)
LEMMA CancellationKeeps ==
  ASSUME IInv, UNCHANGED wf, run' \in RunRows, run'.generation = run.generation,
         run' = run \/ run'.status \in Cancelling,
         canceller' \in CancelRows, canceller'.at # "idle" => run'.status \in Cancelling,
         \A g \in canceller'.todo : hold[g].reserved,
         LedgerKept, Justified, Exposure(hold') <= Cap, SweepKept(Canceller), Others'
  PROVE  IInv' /\ LedgerKept
<1>1. wf \in [Gens -> WorkRows] /\ run \in RunRows /\ RunInv
  BY TypeFacts
<1>2. Total(Promised', Gens) <= Cap
  BY PromisedKept
<1>3. ASSUME NEW h \in Gens PROVE WorkInv(h)'
  <2>1. sweep'[h] = sweep[h]
    BY DEF SweepKept, Processes, Gens, Canceller
  <2> QED BY <2>1, Closings, WorkSame
<1>4. RunInv'
  <2>1. \A h \in Gens : /\ hold'[h].released => run'.status \in Closed
                        /\ hold'[h].cancelled => run'.status \in Cancelling
    BY <1>1, Closings DEF RunInv, Justified
  <2>2. run'.status \in Ends => run' = run
    BY Closings
  <2> QED BY <1>1, <2>1, <2>2 DEF RunInv
<1>5. TodoInv'
  BY ReservedKept DEF TodoInv, CancelRows
<1>6. sweep' \in [Processes -> SweepRows] /\ SweepInv'
  BY DEF SweepKept
<1> QED BY <1>1, <1>2, <1>3, <1>4, <1>5, <1>6, Assembled

LEMMA CancelAtRow ==
  ASSUME NEW at \in {"idle", "revoke", "list", "fence", "prove", "conclude", "release", "finish", "ended"},
         NEW todo \in SUBSET Gens, CancelAt(at, todo)
  PROVE  canceller' \in CancelRows /\ canceller'.at = at /\ canceller'.todo = todo
BY DEF CancelAt, CancelRows

(* The cancellation goes on: it touches neither the run nor a workflow.    *)
LEMMA CancellationGoesOn ==
  ASSUME IInv, canceller.at # "idle", UNCHANGED <<wf, run>>,
         NEW at \in {"list", "fence", "prove", "conclude", "release", "finish"},
         NEW todo \in SUBSET Gens, CancelAt(at, todo), \A g \in todo : hold[g].reserved,
         LedgerKept, Justified, Exposure(hold') <= Cap, SweepKept(Canceller), Others'
  PROVE  IInv' /\ LedgerKept
<1>1. canceller' \in CancelRows /\ canceller'.todo = todo
  BY CancelAtRow
<1>2. run' \in RunRows /\ run'.status \in Cancelling
  BY TypeFacts DEF RunInv
<1> QED BY <1>1, <1>2, CancellationKeeps

LEMMA LedgerLeft ==
  ASSUME IInv, UNCHANGED <<ledgerVars, sweep>>
  PROVE  LedgerKept /\ Justified /\ Exposure(hold') <= Cap /\ SweepKept(Canceller)
<1>1. LedgerKept /\ Justified /\ Exposure(hold') <= Cap
  BY LedgerUnchanged, QuietJustified
<1>2. SweepKept(Canceller)
  BY <1>1, SweepSame, Numbers DEF Canceller, Processes
<1> QED BY <1>1, <1>2

LEMMA CancelLocalKeeps ==
  ASSUME IInv, canceller.at # "idle", CancelLocal,
         NEW at \in {"list", "fence", "prove", "conclude", "release", "finish"},
         NEW todo \in SUBSET Gens, CancelAt(at, todo), \A g \in todo : hold[g].reserved
  PROVE  IInv' /\ LedgerKept
BY LedgerLeft, OthersKept, CancellationGoesOn DEF CancelLocal

LEMMA RequestKeeps == ASSUME IInv, RequestCancellation PROVE IInv' /\ LedgerKept
<1>1. /\ UNCHANGED <<ledgerVars, billed, inflight, sweep, wf, OtherVars>> /\ CancelAt("revoke", {})
      /\ run' = [run EXCEPT !.status = "cancelling"]
  BY DEF RequestCancellation
<1>2. run' \in RunRows /\ run'.generation = run.generation /\ run'.status \in Cancelling
  <2>1. run \in RunRows
    BY TypeFacts
  <2> QED BY <1>1, <2>1 DEF RunRows, Statuses, Cancelling
<1>3. canceller' \in CancelRows /\ canceller'.todo = {}
  BY <1>1, CancelAtRow
<1>4. LedgerKept /\ Justified /\ Exposure(hold') <= Cap /\ SweepKept(Canceller) /\ Others'
  BY <1>1, LedgerLeft, OthersKept
<1> QED BY <1>1, <1>2, <1>3, <1>4, CancellationKeeps

LEMMA FinishKeeps == ASSUME IInv, FinishCancellation PROVE IInv' /\ LedgerKept
<1>1. /\ UNCHANGED <<ledgerVars, billed, inflight, sweep, wf, OtherVars>> /\ CancelAt("ended", {})
      /\ run' = [run EXCEPT !.status = "cancelled"]
  BY DEF FinishCancellation
<1>2. run' \in RunRows /\ run'.generation = run.generation /\ run'.status \in Cancelling
  <2>1. run \in RunRows
    BY TypeFacts
  <2> QED BY <1>1, <2>1 DEF RunRows, Statuses, Cancelling
<1>3. canceller' \in CancelRows /\ canceller'.todo = {}
  BY <1>1, CancelAtRow
<1>4. LedgerKept /\ Justified /\ Exposure(hold') <= Cap /\ SweepKept(Canceller) /\ Others'
  BY <1>1, LedgerLeft, OthersKept
<1> QED BY <1>1, <1>2, <1>3, <1>4, CancellationKeeps

LEMMA RevokeKeeps == ASSUME IInv, RevokeRun PROVE IInv' /\ LedgerKept
<1>1. /\ canceller.at # "idle" /\ CancelAt("list", {})
      /\ UNCHANGED <<run, ledgerVars, billed, inflight, sweep, wf, elapsed, crashes>>
  BY DEF RevokeRun
<1>2. Others'
  BY TypeFacts DEF RevokeRun, Others
<1> QED BY <1>1, <1>2, LedgerLeft, CancellationGoesOn

LEMMA ListKeeps == ASSUME IInv, ListHolds PROVE IInv' /\ LedgerKept
<1> DEFINE todo == {g \in Held(hold) : ~hold[g].cancelled}
<1>1. canceller.at # "idle" /\ CancelLocal /\ CancelAt("fence", todo)
  BY DEF ListHolds
<1>2. todo \in SUBSET Gens /\ \A g \in todo : hold[g].reserved
  BY DEF Held
<1> HIDE DEF todo
<1> QED BY <1>1, <1>2, CancelLocalKeeps

LEMMA FenceKeeps == ASSUME IInv, FenceCancelled PROVE IInv' /\ LedgerKept
<1>1. /\ canceller.at = "fence"
      /\ UNCHANGED <<run, metered, finals, billed, inflight, sweep, wf, OtherVars>>
  BY DEF FenceCancelled
<1>2. CASE canceller.todo = {}
  <2>1. CancelAt("prove", {}) /\ UNCHANGED ledgerVars
    BY <1>1, <1>2 DEF FenceCancelled, ledgerVars
  <2> QED BY <1>1, <2>1, LedgerLeft, OthersKept, CancellationGoesOn
<1>3. ASSUME NEW g \in canceller.todo, CancelAt("fence", canceller.todo \ {g}),
             hold' = IF hold[g].released THEN hold ELSE [hold EXCEPT ![g].cancelled = TRUE]
      PROVE  IInv' /\ LedgerKept
  <2>1. /\ canceller.todo \in SUBSET Gens /\ \A h \in canceller.todo : hold[h].reserved
        /\ run.status \in Cancelling
    BY <1>1, TypeFacts DEF CancelRows, TodoInv, RunInv
  <2>2. LedgerKept /\ Justified /\ Exposure(hold') <= Cap
    BY <1>1, <1>3, <2>1, CancelKeeps
  <2>3. SweepKept(Canceller)
    BY <1>1, <2>2, SweepSame, Numbers DEF Canceller, Processes
  <2>4. canceller.todo \ {g} \in SUBSET Gens /\ \A h \in canceller.todo \ {g} : hold[h].reserved
    BY <2>1
  <2> QED BY <1>1, <1>3, <2>2, <2>3, <2>4, OthersKept, CancellationGoesOn
<1> QED BY <1>2, <1>3 DEF FenceCancelled

LEMMA ProveKeeps == ASSUME IInv, Prove PROVE IInv' /\ LedgerKept
<1>1. canceller.at # "idle" /\ CancelLocal /\ (CancelAt("list", {}) \/ CancelAt("conclude", Unconcluded))
  BY DEF Prove
<1>2. Unconcluded \in SUBSET Gens /\ \A g \in Unconcluded : hold[g].reserved
  BY DEF Unconcluded, Held
<1>3. CASE CancelAt("list", {})
  BY <1>1, <1>3, CancelLocalKeeps
<1>4. CASE CancelAt("conclude", Unconcluded)
  BY <1>1, <1>2, <1>4, CancelLocalKeeps
<1> QED BY <1>1, <1>3, <1>4

LEMMA ConcludeKeeps == ASSUME IInv, Conclude PROVE IInv' /\ LedgerKept
<1>1. /\ canceller.at = "conclude" /\ UNCHANGED <<run, billed, inflight, wf, OtherVars>>
      /\ Canceller \in Processes
  BY Numbers DEF Conclude, Canceller, Processes
<1>2. canceller.todo \in SUBSET Gens /\ \A h \in canceller.todo : hold[h].reserved
  BY TypeFacts DEF CancelRows, TodoInv
<1>3. CASE BeginSweep(Canceller, CancelledFinal) /\ CancelAt("release", {}) /\ UNCHANGED ledgerVars
  <2>1. CancelledFinal \in SUBSET Gens /\ \A h \in CancelledFinal : hold[h].reserved
    BY DEF CancelledFinal, Held
  <2>2. LedgerKept /\ Justified /\ Exposure(hold') <= Cap
    BY <1>3, LedgerUnchanged, QuietJustified
  <2>3. SweepKept(Canceller)
    BY <1>1, <1>3, <2>1, <2>2, BeginSweepKeeps
  <2> QED BY <1>1, <1>3, <2>2, <2>3, OthersKept, CancellationGoesOn
<1>4. ASSUME NEW g \in canceller.todo, RecordFinal(g, "cancellation"),
             CancelAt("conclude", canceller.todo \ {g}), UNCHANGED sweep
      PROVE  IInv' /\ LedgerKept
  <2>1. LedgerKept /\ Justified /\ Exposure(hold') <= Cap
    BY <1>2, <1>4, FinalKeeps, QuietJustified
  <2>2. SweepKept(Canceller)
    BY <1>1, <1>4, <2>1, SweepSame
  <2>3. canceller.todo \ {g} \in SUBSET Gens /\ \A h \in canceller.todo \ {g} : hold[h].reserved
    BY <1>2
  <2> QED BY <1>1, <1>4, <2>1, <2>2, <2>3, OthersKept, CancellationGoesOn
<1>5. CASE UNCHANGED <<ledgerVars, sweep>> /\ CancelAt("list", {})
  BY <1>1, <1>5, LedgerLeft, OthersKept, CancellationGoesOn
<1> QED BY <1>3, <1>4, <1>5 DEF Conclude

LEMMA ReleaseKeeps == ASSUME IInv, ReleaseNext PROVE IInv' /\ LedgerKept
<1>1. /\ canceller.at = "release" /\ UNCHANGED <<run, billed, inflight, wf, OtherVars>>
      /\ Canceller \in Processes
  BY Numbers DEF ReleaseNext, Canceller, Processes
<1>2. CASE CancelAt("finish", {}) /\ UNCHANGED <<ledgerVars, sweep>>
  BY <1>1, <1>2, LedgerLeft, OthersKept, CancellationGoesOn
<1>3. ASSUME NEW g \in Sweeping(Canceller), Settle(Canceller, g, TRUE),
             CancelAt("list", {}) \/ UNCHANGED canceller
      PROVE  IInv' /\ LedgerKept
  <2>1. g \in Gens /\ sweep[Canceller][g] # None
    BY <1>3 DEF Sweeping
  <2>2. run.status \in Cancelling /\ run.status \in Closed
    BY <1>1, TypeFacts, Closings DEF RunInv
  <2>3. LedgerKept /\ Justified /\ Exposure(hold') <= Cap /\ SweepKept(Canceller)
    BY <1>1, <1>3, <2>1, <2>2, SettleKeeps
  <2>4. CASE CancelAt("list", {})
    BY <1>1, <2>3, <2>4, OthersKept, CancellationGoesOn
  <2>5. CASE UNCHANGED canceller
    <3>1. run \in RunRows /\ canceller \in CancelRows /\ TodoInv
      BY TypeFacts
    <3> QED BY <1>1, <2>2, <2>3, <2>5, <3>1, OthersKept, CancellationKeeps DEF TodoInv
  <2> QED BY <1>3, <2>4, <2>5
<1> QED BY <1>2, <1>3 DEF ReleaseNext

LEMMA CancellerCrashKeeps == ASSUME IInv, CancellerCrash PROVE IInv' /\ LedgerKept
<1>1. /\ canceller.at # "idle" /\ UNCHANGED <<run, ledgerVars, elapsed, billed, inflight, revoked, wf>>
      /\ CancelAt("list", {}) /\ sweep' = [sweep EXCEPT ![Canceller] = NoSweep]
  BY DEF CancellerCrash
<1>2. Others'
  <2>1. crashes \in 0..MaxCrashes /\ crashes < MaxCrashes
    BY TypeFacts DEF Others, CancellerCrash
  <2>2. crashes + 1 \in 0..MaxCrashes
    BY <2>1, Numbers
  <2> QED BY <2>2, TypeFacts DEF CancellerCrash, Others
<1>3. LedgerKept /\ Justified /\ Exposure(hold') <= Cap
  BY <1>1, LedgerUnchanged, QuietJustified
<1>4. SweepKept(Canceller)
  <2>1. Canceller \in Processes
    BY Numbers DEF Canceller, Processes
  <2> QED BY <1>1, <1>3, <2>1, NoSweepRow, SweepChanged
<1> QED BY <1>1, <1>2, <1>3, <1>4, CancellationGoesOn

LEMMA ElapseKeeps == ASSUME IInv, NEW g \in Gens, Elapse(g) PROVE IInv' /\ LedgerKept
<1>1. UNCHANGED <<run, ledgerVars, sweep, canceller, wf>>
  BY DEF Elapse
<1>2. Others'
  BY TypeFacts DEF Elapse, Others
<1>3. LedgerKept /\ Justified /\ Exposure(hold') <= Cap /\ SweepKept(Canceller)
  BY <1>1, LedgerLeft
<1>4. /\ run \in RunRows /\ canceller \in CancelRows /\ TodoInv
      /\ canceller.at # "idle" => run.status \in Cancelling
  BY TypeFacts DEF RunInv
<1> QED BY <1>1, <1>2, <1>3, <1>4, CancellationKeeps DEF TodoInv

LEMMA RetryKeeps == ASSUME IInv, Retry PROVE IInv' /\ LedgerKept
<1> DEFINE next == run.generation + 1
<1>1. /\ run.status = "failed" /\ run.generation < MaxGeneration
      /\ run' = [status |-> "preparing", generation |-> next]
      /\ wf' = [wf EXCEPT ![next] = Start("prepare")]
      /\ UNCHANGED <<ledgerVars, billed, inflight, sweep, canceller, OtherVars>>
  BY DEF Retry
<1>2. /\ wf \in [Gens -> WorkRows] /\ run \in RunRows /\ RunInv /\ TodoInv
      /\ canceller \in CancelRows
  BY TypeFacts
<1>3. run.generation \in Gens /\ next \in Gens /\ Gens \subseteq Nat
  BY <1>1, <1>2, Numbers DEF RunRows, Gens
<1>4. run' \in RunRows
  BY <1>1, <1>3 DEF RunRows, Statuses
<1>5. Start("prepare") \in WorkRows /\ Start("prepare").at = "prepare"
  BY Numbers DEF Start, WorkRows, Steps
<1> HIDE DEF next
<1>6. /\ wf' \in [Gens -> WorkRows] /\ wf'[next].at = "prepare"
      /\ \A h \in Gens \ {next} : wf'[h] = wf[h]
  BY <1>1, <1>2, <1>3, <1>5
<1>7. LedgerKept /\ Justified /\ Exposure(hold') <= Cap /\ SweepKept(Canceller)
  BY <1>1, LedgerLeft
<1>8. Total(Promised', Gens) <= Cap
  <2>1. \A h \in Gens : wf'[h].at \in Turning => wf[h].at \in Turning
    BY <1>6 DEF Turning
  <2> QED BY <1>7, <2>1, PromisedKept
<1>9. run.status \notin Closed /\ run.status \notin Cancelling
  BY <1>1 DEF Closed, Cancelling
<1>10. ASSUME NEW h \in Gens PROVE WorkInv(h)'
  <2>1. CASE h = next
    <3>1. ~(h > run'.generation)
      BY <1>1, <1>3, <2>1
    <3> QED BY <1>6, <2>1, <3>1 DEF WorkInv, OnHold, Settling
  <2>2. CASE h # next
    <3>1. wf'[h] = wf[h] /\ WorkInv(h) /\ (hold[h].reserved => hold'[h].reserved)
      BY <1>6, <1>7, <2>2, RowFacts, ReservedKept
    <3>2. h # run'.generation /\ (h > run'.generation => h > run.generation)
      <4>1. run'.generation = next /\ h \in Nat /\ run.generation \in Nat /\ next = run.generation + 1
        BY <1>1, <1>3 DEF next
      <4> QED BY <2>2, <4>1
    <3>3. Sweeping(h)' = Sweeping(h)
      BY <1>1 DEF Sweeping, None
    <3> QED BY <1>9, <3>1, <3>2, <3>3 DEF WorkInv
  <2> QED BY <2>1, <2>2
<1>11. RunInv'
  <2>1. \A h \in Gens : ~hold'[h].released /\ ~hold'[h].cancelled
    BY <1>2, <1>7, <1>9 DEF RunInv, Justified
  <2>2. canceller'.at = "idle" /\ run'.status = "preparing"
    BY <1>1, <1>2, <1>9 DEF RunInv
  <2> QED BY <2>1, <2>2 DEF RunInv, Ends
<1>12. TodoInv'
  BY <1>1, <1>2, <1>7, ReservedKept DEF TodoInv, CancelRows
<1>13. sweep' \in [Processes -> SweepRows] /\ SweepInv'
  BY <1>7 DEF SweepKept
<1> QED BY <1>1, <1>2, <1>4, <1>6, <1>7, <1>8, <1>10, <1>11, <1>12, <1>13, OthersKept, Assembled

-----------------------------------------------------------------------------
LEMMA InitIInv == ASSUME Init PROVE IInv
<1>1. TypeOK
  <2>1. run \in RunRows
    BY Numbers DEF Init, RunRows, Statuses
  <2>2. LedgerTypes
    BY UnreservedRow DEF Init, LedgerTypes
  <2>3. Others
    BY Numbers DEF Init, Others
  <2>4. wf \in [Gens -> WorkRows]
    <3>1. Start("prepare") \in WorkRows /\ Start("unstarted") \in WorkRows
      BY Numbers DEF Start, WorkRows, Steps
    <3> QED BY <3>1 DEF Init
  <2>5. sweep \in [Processes -> SweepRows] /\ canceller \in CancelRows
    BY NoSweepRow DEF Init, CancelRows
  <2> QED BY <2>1, <2>2, <2>3, <2>4, <2>5, TypeParts
<1>2. hold = [g \in Gens |-> Unreserved] /\ \A g \in Gens : hold[g] = Unreserved
  BY DEF Init
<1>3. LedgerInv
  <2>1. TurnCost * Cardinality({}) = 0
    BY FS_EmptySet, Numbers
  <2> QED BY <1>2, <2>1, UnreservedRow DEF Init, LedgerInv, RowInv
<1>4. \A g \in Gens : wf[g].at \in {"prepare", "unstarted"} /\ (g > 1 => wf[g].at = "unstarted")
  BY Numbers DEF Init, Start
<1>5. CapInv
  <2>1. Held(hold) = {}
    BY <1>2, UnreservedRow DEF Held
  <2>2. Exposure(hold) = 0
    BY <2>1, TotalEmpty DEF Exposure
  <2>3. \A g \in Gens : Promised[g] = 0
    BY <1>2, <1>4, UnreservedRow DEF Promised
  <2> DEFINE F == Promised
             none == {}
  <2>4. /\ \A g \in Gens : F[g] \in Nat /\ F[g] = 0
        /\ none \in SUBSET Gens /\ Gens \in SUBSET Gens /\ Total(F, none) = 0
    BY <2>3, TotalEmpty
  <2> HIDE DEF F, none
  <2>5. Total(F, Gens) <= Total(F, none) /\ Total(F, Gens) \in Nat
    BY <2>4, Numbers, TotalBounded, TotalNat
  <2> QED BY <2>2, <2>4, <2>5, Numbers DEF CapInv, F
<1>6. RunInv
  BY <1>2, UnreservedRow DEF Init, RunInv, Ends
<1>7. SweepInv /\ TodoInv
  BY NoSweepRow DEF Init, SweepInv, TodoInv
<1>8. \A g \in Gens : WorkInv(g)
  BY <1>4 DEF Init, WorkInv, OnHold, Settling
<1> QED BY <1>1, <1>3, <1>5, <1>6, <1>7, <1>8 DEF IInv

LEMMA StepIInv == ASSUME IInv, [Next]_vars PROVE IInv' /\ LedgerKept
<1>1. CASE UNCHANGED vars
  <2>1. LedgerKept
    BY <1>1, LedgerSame DEF vars, ledgerVars
  <2>2. IInv'
    BY <1>1 DEF vars, ledgerVars, IInv, TypeOK, LedgerInv, CapInv, Promised, RunInv, SweepInv,
       TodoInv, WorkInv, Sweeping, None
  <2> QED BY <2>1, <2>2
<1>2. ASSUME NEW g \in Gens, Workflow(g) PROVE IInv' /\ LedgerKept
  BY <1>2, PrepareKeeps, CheckReserveKeeps, ReserveStepKeeps, PreparationReadyKeeps, GateKeeps,
     RunTurnKeeps, AnswerKeeps, ObserveStepKeeps, NextStepKeeps, TerminalizeKeeps, ReadHoldKeeps,
     FinalizeKeeps, RereadKeeps, ReconcileKeeps, RecoverCancelledKeeps, RecoverSupersededKeeps,
     SettleNextKeeps DEF Workflow
<1>3. ASSUME NEW g \in Gens, Elapse(g) \/ Crash(g) PROVE IInv' /\ LedgerKept
  BY <1>3, ElapseKeeps, CrashKeeps
<1>4. CASE Cancellation
  BY <1>4, RevokeKeeps, ListKeeps, FenceKeeps, ProveKeeps, ConcludeKeeps, ReleaseKeeps, FinishKeeps
     DEF Cancellation
<1>5. CASE RequestCancellation \/ CancellerCrash \/ Retry
  BY <1>5, RequestKeeps, CancellerCrashKeeps, RetryKeeps
<1> QED BY <1>1, <1>2, <1>3, <1>4, <1>5 DEF Next

LEMMA Invariant == Spec => []IInv
<1>1. Init => IInv
  BY InitIInv
<1>2. IInv /\ [Next]_vars => IInv'
  BY StepIInv
<1> QED BY <1>1, <1>2, PTL DEF Spec

(* Every variable keeps its type: usage and bounds of a hold never exceed  *)
(* MaximumCostMicros (budget/postgres/ledger.go).                          *)
THEOREM TypeCorrect == Spec => []TypeOK
<1>1. IInv => TypeOK
  BY DEF IInv
<1> QED BY <1>1, Invariant, PTL

(* What Observe recorded is what a hold says was spent, each turn once,    *)
(* though settlements write the usage they read earlier.                   *)
THEOREM UsageIsExact == Spec => []LedgerBalances
<1>1. IInv => LedgerBalances
  BY DEF IInv, LedgerInv, RowInv, LedgerBalances
<1> QED BY <1>1, Invariant, PTL

(* However many generations fail, are retried, fenced, cancelled or        *)
(* settled, neither what the root holds nor what was spent under it        *)
(* exceeds MaximumReservedMicros.                                          *)
THEOREM CapStands == Spec => []RootIsNotExceeded
<1>1. ASSUME IInv PROVE RootIsNotExceeded
  <2> DEFINE F == [g \in Gens |-> hold[g].observed]
  <2>1. \A g \in Gens : F[g] \in Nat /\ Promised[g] \in Nat /\ F[g] <= Promised[g]
    BY <1>1, RowFacts DEF Promised
  <2>2. Exposure(hold) <= Cap /\ Total(Promised, Gens) <= Cap
    BY <1>1, TypeFacts DEF CapInv
  <2> HIDE DEF F
  <2>3. Total(F, Gens) <= Total(Promised, Gens)
    BY <2>1, Numbers, TotalBounded
  <2>4. Total(F, Gens) \in Nat /\ Total(Promised, Gens) \in Nat
    BY <2>1, Numbers, TotalNat
  <2> QED BY <2>2, <2>3, <2>4, Numbers DEF RootIsNotExceeded, RunHoldsWithinCap, MeteredWithinCap, F
<1> QED BY <1>1, Invariant, PTL

(* No statement of the ledger, by whichever process and however late,      *)
(* takes back a fence, a release or usage, or changes a released hold.     *)
THEOREM RowsMoveForward == Spec => LedgerMovesForward
<1>1. IInv /\ [Next]_vars => [\A g \in Gens : Forward(hold[g], hold'[g])]_vars
  BY StepIInv DEF LedgerKept, RowKept
<1> QED BY <1>1, Invariant, PTL DEF Spec, LedgerMovesForward
=============================================================================
