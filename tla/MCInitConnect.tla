-------------------------- MODULE MCInitConnect --------------------------
(* Instances of InitConnect for TLC.                                       *)
EXTENDS InitConnect

===========================================================================
