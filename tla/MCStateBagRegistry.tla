------------------------ MODULE MCStateBagRegistry ------------------------
(* Instances of StateBagRegistry for TLC.                                  *)
EXTENDS StateBagRegistry

===========================================================================
