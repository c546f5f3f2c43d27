------------------------------ MODULE MCHandle ------------------------------
(* The whole library on one opened context, for every run of Handle.         *)
EXTENDS Handle
=============================================================================
