------------------------------- MODULE MCDccm -------------------------------
(* Small instances of Dccm.                                                 *)
EXTENDS Dccm, TLC
===============================================================================
