------------------------------- MODULE MCAuth -------------------------------
(***************************************************************************)
(* Small instances of AuthSession: two requests at a time and pairs named  *)
(* by model values.                                                        *)
(***************************************************************************)
EXTENDS AuthSession, TLC

CONSTANTS k1, k2

\* Requests are alike; the pairs are not, FreshJti chooses among them.
AnyCall == Permutations({k1, k2})
=============================================================================
