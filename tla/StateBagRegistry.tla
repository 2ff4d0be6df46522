------------------------- MODULE StateBagRegistry -------------------------
(***************************************************************************)
(* One entry of the map from ids to state bags, and the bags that come and *)
(* go under that id: the id of an entity or a player that is used again    *)
(* (RegisterStateBag, UnregisterStateBag, PreCreateStateBag and the tick   *)
(* of StateBagComponentImpl in StateBagComponent.cpp).  The map has weak   *)
(* references; owners and, for bags made ahead of their entity by a packet *)
(* of the server, the component itself have strong ones.                   *)
(*                                                                         *)
(* On a client everything runs on one thread and packets make bags.  On a  *)
(* server scripts register bags on the main thread while the sync thread   *)
(* registers and releases those of players and entities, and no packet     *)
(* makes one.  A call gives way where it leaves a mutex.                   *)
(***************************************************************************)
EXTENDS FiniteSets

CONSTANTS
  Threads,    \* threads that use the component; "main" runs its tick
  Owner,      \* entities that have the id, one after the other or at once
  Bag,        \* bound: bag objects that can be made
  None,       \* no bag, no owner
  PreCreates  \* the id has a prefix that is safe to create

ASSUME ConstantsAssumption ==
  /\ "main" \in Threads
  /\ None \notin Bag
  /\ None \notin Owner
  /\ PreCreates \in BOOLEAN

VARIABLES
  entry,    \* the weak reference in m_stateBags
  used,     \* bags that were made
  holder,   \* holder[o]: the bag owner o holds
  pre,      \* m_preCreatedStateBags
  erasure,  \* the id is in m_erasureList
  pc,       \* where each thread is
  local,    \* the bag its call refers to
  caller    \* the owner its call registers for, None for a packet

refVars == <<holder, pre, local>>
vars == <<entry, used, refVars, erasure, pc, caller>>

Alive(b) ==
  \/ b \in pre
  \/ \E o \in Owner : holder[o] = b
  \/ \E th \in Threads : local[th] = b

Found == IF entry # None /\ Alive(entry) THEN entry ELSE None

Init ==
  /\ entry = None
  /\ used = {}
  /\ holder = [o \in Owner |-> None]
  /\ pre = {}
  /\ erasure = FALSE
  /\ pc = [th \in Threads |-> "idle"]
  /\ local = [th \in Threads |-> None]
  /\ caller = [th \in Threads |-> None]

At(th, label) == pc[th] = label
Goto(th, label) == pc' = [pc EXCEPT ![th] = label]

---------------------------------------------------------------------------
(* RegisterStateBag, for an owner or for PreCreateStateBag.                *)

\* Under the map mutex: the live bag of the id, or a new one.
LookUp(th, o) ==
  /\ At(th, "idle")
  /\ caller' = [caller EXCEPT ![th] = o]
  /\ \/ /\ Found # None
        /\ local' = [local EXCEPT ![th] = Found]
        /\ Goto(th, "disown")
        /\ UNCHANGED <<entry, used>>
     \/ /\ Found = None
        /\ \E b \in Bag \ used :
             /\ used' = used \union {b}
             /\ entry' = b
             /\ local' = [local EXCEPT ![th] = b]
        /\ Goto(th, "made")
  /\ UNCHANGED <<holder, pre, erasure>>

Register(th, o) ==
  /\ holder[o] = None
  /\ \A x \in Threads : caller[x] # o
  /\ LookUp(th, o)

\* HandlePacket makes the bag of a packet that comes before its entity.
PreCreate(th) ==
  /\ PreCreates
  /\ Found = None
  /\ LookUp(th, None)

\* A bag that was made ahead is the owner's from now on.
Disowned_Not(b) == pre
Disowned(b) == pre \ {b}

Disown(th) ==
  /\ At(th, "disown")
  /\ pre' = Disowned(local[th])
  /\ Goto(th, "return")
  /\ UNCHANGED <<entry, used, holder, erasure, local, caller>>

\* Under the erasure mutex: the id is not to be erased any more.
Spared_Not == erasure
Spared == FALSE

Spare(th) ==
  /\ At(th, "made")
  /\ erasure' = Spared
  /\ Goto(th, "return")
  /\ UNCHANGED <<entry, used, refVars, caller>>

\* The call's own reference ends with it.
Forget_Not(th) == local
Forget(th) == [local EXCEPT ![th] = None]

Return(th) ==
  /\ At(th, "return")
  /\ IF caller[th] = None
     THEN pre' = pre \union {local[th]} /\ holder' = holder
     ELSE holder' = [holder EXCEPT ![caller[th]] = local[th]] /\ pre' = pre
  /\ local' = Forget(th)
  /\ caller' = [caller EXCEPT ![th] = None]
  /\ Goto(th, "idle")
  /\ UNCHANGED <<entry, used, erasure>>

---------------------------------------------------------------------------
(* The end of a bag.                                                       *)

LastOwner(o) ==
  /\ holder[o] \notin pre
  /\ \A x \in Owner \ {o} : holder[x] # holder[o]
  /\ \A th \in Threads : local[th] # holder[o]

\* An owner lets go of its bag; the last reference runs the destructor.
Release(th, o) ==
  /\ At(th, "idle")
  /\ holder[o] # None
  /\ holder' = [holder EXCEPT ![o] = None]
  /\ Goto(th, IF LastOwner(o) THEN "dying" ELSE "idle")
  /\ UNCHANGED <<entry, used, pre, erasure, local, caller>>

\* UnregisterStateBag, of the destructor: the id, not the bag, is noted.
UnregisterStateBag(th) ==
  /\ At(th, "dying")
  /\ erasure' = TRUE
  /\ Goto(th, "idle")
  /\ UNCHANGED <<entry, used, refVars, caller>>

\* The tick takes the list ...
Tick ==
  /\ At("main", "idle")
  /\ erasure
  /\ erasure' = FALSE
  /\ Goto("main", "erase")
  /\ UNCHANGED <<entry, used, refVars, caller>>

\* ... and erases the entries, whatever they refer to.
Erased_Not == entry
Erased == None

Erase ==
  /\ At("main", "erase")
  /\ entry' = Erased
  /\ Goto("main", "idle")
  /\ UNCHANGED <<used, refVars, erasure, caller>>

---------------------------------------------------------------------------

Continue(th) == Disown(th) \/ Spare(th) \/ Return(th) \/ UnregisterStateBag(th)

Next ==
  \/ \E th \in Threads, o \in Owner : Register(th, o) \/ Release(th, o)
  \/ \E th \in Threads : PreCreate(th) \/ Continue(th)
  \/ Tick \/ Erase

Spec == Init /\ [][Next]_vars

\* Calls return, and the resource manager ticks.
Fairness ==
  /\ \A th \in Threads : WF_vars(Continue(th))
  /\ SF_vars(Tick)
  /\ WF_vars(Erase)

FairSpec == Spec /\ Fairness

---------------------------------------------------------------------------
(* Properties.                                                             *)

Labels == {"idle", "disown", "made", "return", "dying", "erase"}

\* Every variable has its type, and a thread refers to a bag just while it is
\* in RegisterStateBag.
TypeOK ==
  /\ entry \in Bag \union {None}
  /\ used \subseteq Bag
  /\ holder \in [Owner -> Bag \union {None}]
  /\ pre \subseteq Bag
  /\ erasure \in BOOLEAN
  /\ pc \in [Threads -> Labels]
  /\ local \in [Threads -> Bag \union {None}]
  /\ caller \in [Threads -> Owner \union {None}]
  /\ \A th \in Threads :
       local[th] # None <=> pc[th] \in {"disown", "made", "return"}

\* "otherwise we'll delete the existing bag": GetStateBag finds the bag an
\* owner holds, so that all owners of an id share one bag and scripts reach it,
\* also when the id is registered again before the tick.
LiveFound == \A o \in Owner : holder[o] # None => entry = holder[o]

\* "The pointer returned should be the *only* reference": the component does
\* not keep a bag alive that an owner has.
OnlyOwnersHold == \A o \in Owner : holder[o] \notin pre

\* A dead entry does not stay: it is erased, or the id is registered again.
DeadForgotten ==
  (entry # None /\ ~Alive(entry)) ~> (entry = None \/ Alive(entry))

===========================================================================
