--------------------------- MODULE MCDomainCommit ---------------------------
(* Model values for DomainCommit.                                          *)
EXTENDS DomainCommit, TLC

Interchangeable == Permutations(Executions)
=============================================================================
