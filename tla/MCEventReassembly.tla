------------------------ MODULE MCEventReassembly ------------------------
(* Instances of EventReassembly for TLC.                                   *)
EXTENDS EventReassembly

\* bound: the most fragments an event of Sizes has
CONSTANT MaxFragments

FairSpec == Spec /\ Fairness(MaxFragments)

===========================================================================
