--------------------------- MODULE MCBudgetLedger ---------------------------
(* The instance whose cap has room for one full bound and a settled turn.  *)
EXTENDS BudgetLedger
=============================================================================
