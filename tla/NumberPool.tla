---------------------------- MODULE NumberPool ----------------------------
(***************************************************************************)
(* What the client registry promises of the numbers it gives to clients,   *)
(* slots and net ids alike: a number is taken only when it is free, by a   *)
(* client that has none or is no longer a member, and goes from one client *)
(* to the next only by being given back in between.                        *)
(***************************************************************************)
CONSTANTS Number, Client, None

VARIABLES
  owner,   \* whom each number belongs to
  members  \* the clients that are held to one number

Init == owner = [n \in Number |-> None]

Take(n, c) ==
  /\ owner[n] = None
  /\ c \in members => \A m \in Number : owner[m] # c
  /\ owner' = [owner EXCEPT ![n] = c]

Give(n) ==
  /\ owner[n] # None
  /\ owner' = [owner EXCEPT ![n] = None]

Next == \E n \in Number : Give(n) \/ \E c \in Client : Take(n, c)

Spec == Init /\ [][Next]_owner

===========================================================================
