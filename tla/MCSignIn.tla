------------------------------ MODULE MCSignIn ------------------------------
(* One run and the three commands; a token lasts two units of 30 s.      *)
EXTENDS SignIn
=============================================================================
