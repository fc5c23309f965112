-------------------------- MODULE MCApplyIssuance ---------------------------
EXTENDS ApplyIssuance, TLC

CONSTANTS a, b, c, d, k1, k2, m1, m2

(* a and b repeat one request, c sends its command under another key, d    *)
(* uses their key for another command.                                     *)
MCKeyOf == a :> k1 @@ b :> k1 @@ c :> k2 @@ d :> k1
MCCommandOf == a :> m1 @@ b :> m1 @@ c :> m1 @@ d :> m2
=============================================================================
