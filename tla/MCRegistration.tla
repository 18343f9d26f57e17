--------------------------- MODULE MCRegistration ---------------------------
(***************************************************************************)
(* Registration with two numbers and two codes.  Requests of one kind are  *)
(* interchangeable, and so are numbers, and so are codes.                  *)
(***************************************************************************)
EXTENDS Registration, TLC

Interchangeable ==
    Permutations(Sends) \cup Permutations(Creates) \cup Permutations(Phones)
        \cup Permutations(Codes)
=============================================================================
