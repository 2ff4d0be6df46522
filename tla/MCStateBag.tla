---------------------------- MODULE MCStateBag ----------------------------
(* Instances of StateBag for TLC.                                          *)
EXTENDS StateBag

===========================================================================
