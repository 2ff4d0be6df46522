------------------------- MODULE MCClientSessions -------------------------
(* Instances of ClientSessions for TLC.                                    *)
EXTENDS ClientSessions, TLC

Symmetry == Permutations(Client)

===========================================================================
