------------------------------ MODULE MCSignIn ------------------------------
(***************************************************************************)
(* An instance of SignIn for TLC.  Requests are interchangeable.           *)
(***************************************************************************)
EXTENDS SignIn, TLC

Interchangeable == Permutations(Requests)
=============================================================================
