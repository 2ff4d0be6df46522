----------------------------- MODULE StateBag -----------------------------
(***************************************************************************)
(* The replication of one key of one state bag to the clients of a server  *)
(* with OneSync (StateBagImpl and the targets of StateBagComponentImpl in  *)
(* StateBagComponent.cpp).  Two threads use it: the main thread sets the   *)
(* key, registers and unregisters targets and makes the bag of an entity;  *)
(* the sync thread and its workers, of which the mutex of the routing      *)
(* targets lets in one at a time, add and remove routing targets as        *)
(* entities come into and leave the scope of clients, and set the key when *)
(* a packet comes and no script has a change handler.  A call gives way    *)
(* wherever the code holds none of the two mutexes that the step needs.    *)
(*                                                                         *)
(* Slots go from client to client.  A worker knows the slot of its client  *)
(* only, which may have left, and the sync thread clears relevantTo of a   *)
(* client some time after it left: routed tells the clients that a bag was *)
(* routed to from those that stand in the slot of such a client.           *)
(*                                                                         *)
(* Packets are reliable and in order, so that the last one queued to a     *)
(* client is what the client ends with.  A value is named by the set call  *)
(* that made it, 0 when the key has none; a call that sets the value that  *)
(* the key has changes nothing, and is left out.                           *)
(***************************************************************************)
EXTENDS Integers

CONSTANTS
  Target,    \* slots of clients
  Self,      \* the target -1, which no client has
  MaxWrites  \* bound: how often the key is set

Threads == {"main", "sync"}

ASSUME ConstantsAssumption ==
  /\ Self \notin Target
  /\ MaxWrites \in Nat

VARIABLES
  scoped,   \* the bag is routed (an entity's), not sent to every target
  bag,      \* an entity's bag: not there, registered, or set as the entity's
  data,     \* m_data of the key: which set call it is from
  local,    \* the key was set without replication
  routing,  \* m_routingTargets
  peers,    \* the argument of SetRoutingTargets
  targets,  \* m_targets
  present,  \* slots that have a client
  got,      \* the last value queued to the client of a slot
  pc,       \* where each thread is
  lock,     \* the mutex each thread holds
  todo,     \* the targets its call has still to serve
  held,     \* the packet SendKey has written and not queued yet
  syncSet,  \* history: the sync thread has set the key
  routed,   \* history: slots whose client the bag was routed to
  stray,    \* history: other slots that were routed for an earlier client, or
            \* served before the routing targets were set
  stale,    \* slots that a worker is about to add for a client that has left
  early     \* history: threads whose SendKeyAll looked before they were set

bagVars    == <<scoped, bag, data, local, syncSet>>
targetVars == <<targets, present>>
routeVars  == <<routing, peers, routed, stray>>
vars == <<bagVars, targetVars, routeVars, stale, early, got, pc, lock, todo, held>>

Nothing == [target |-> Self, write |-> 0]

Init ==
  /\ scoped \in BOOLEAN
  /\ bag = IF scoped THEN "none" ELSE "set"
  /\ data = 0
  /\ local = FALSE
  /\ routing = {} /\ peers = {}
  /\ targets = {} /\ present = {}
  /\ syncSet = FALSE
  /\ routed = {} /\ stray = {} /\ stale = {} /\ early = {}
  /\ got = [t \in Target |-> 0]
  /\ pc = [th \in Threads |-> "idle"]
  /\ lock = [th \in Threads |-> "none"]
  /\ todo = [th \in Threads |-> {}]
  /\ held = [th \in Threads |-> Nothing]

---------------------------------------------------------------------------
(* m_mapMutex and m_routingTargetsMutex, both shared mutexes.              *)

Held == {lock[th] : th \in Threads}

MapShareable     == "map" \notin Held
MapFree          == Held \cap {"map", "mapShared"} = {}
RoutingShareable == "routing" \notin Held
RoutingFree      == Held \cap {"routing", "routingShared"} = {}

At(th, label) == pc[th] = label

Move(th, label, mutex, left) ==
  /\ pc' = [pc EXCEPT ![th] = label]
  /\ lock' = [lock EXCEPT ![th] = mutex]
  /\ todo' = [todo EXCEPT ![th] = left]

---------------------------------------------------------------------------
(* Setting and sending the key.                                            *)

\* SetKeyInternal with a new value, and with replicated ...
SetKey(th) ==
  /\ bag # "none"
  /\ At(th, "idle")
  /\ data < MaxWrites
  /\ data' = data + 1
  /\ syncSet' = (syncSet \/ th = "sync")
  /\ Move(th, "sendKeyAll", "none", {})
  /\ UNCHANGED <<scoped, bag, local, targetVars, routeVars, stale, early, got, held>>

\* ... and without it, which scripts on the main thread may leave out.
SetKeyLocal ==
  /\ bag # "none"
  /\ At("main", "idle")
  /\ data < MaxWrites
  /\ data' = data + 1
  /\ local' = TRUE
  /\ UNCHANGED <<scoped, bag, syncSet, targetVars, routeVars, stale, early, got, pc, lock,
                 todo, held>>

\* The bag of an entity is there without any routing targets, or they are moved.
Unsettled == bag = "registered" \/ At("main", "reroute")

\* SendKeyAll looks at the routing targets without their mutex.
SendKeyAll(th) ==
  /\ At(th, "sendKeyAll")
  /\ Move(th, IF routing = {} THEN "broadcast" ELSE "multicast", "none", {})
  /\ early' = IF Unsettled THEN early \union {th} ELSE early
  /\ UNCHANGED <<bagVars, targetVars, routeVars, stale, got, held>>

Broadcast(th) ==
  /\ At(th, "broadcast")
  /\ MapShareable
  /\ Move(th, "send", "mapShared", targets)
  /\ stray' = IF th \in early THEN stray \union (targets \ routed) ELSE stray
  /\ early' = early \ {th}
  /\ UNCHANGED <<bagVars, targetVars, routing, peers, routed, stale, got, held>>

\* Nothing is sent to the target -1.
Recipients_Self == routing
Recipients == routing \ {Self}

Multicast(th) ==
  /\ At(th, "multicast")
  /\ RoutingShareable
  /\ Move(th, "send", "routingShared", Recipients)
  /\ UNCHANGED <<bagVars, targetVars, routeVars, stale, early, got, held>>

\* SendKey reads the value it sends under the data mutex ...
SendKey(th, t) ==
  /\ At(th, "send")
  /\ held[th] = Nothing
  /\ t \in todo[th]
  /\ todo' = [todo EXCEPT ![th] = @ \ {t}]
  /\ held' = IF data = 0 THEN held
             ELSE [held EXCEPT ![th] = [target |-> t, write |-> data]]
  /\ UNCHANGED <<bagVars, targetVars, routeVars, stale, early, got, pc, lock>>

\* ... and queues it after that mutex was released.
QueueSend(th) ==
  /\ held[th] # Nothing
  /\ got' = IF held[th].target \in present
            THEN [got EXCEPT ![held[th].target] = held[th].write] ELSE got
  /\ held' = [held EXCEPT ![th] = Nothing]
  /\ UNCHANGED <<bagVars, targetVars, routeVars, stale, early, pc, lock, todo>>

Sent(th) ==
  /\ At(th, "send")
  /\ todo[th] = {}
  /\ held[th] = Nothing
  /\ Move(th, "idle", "none", {})
  /\ UNCHANGED <<bagVars, targetVars, routeVars, stale, early, got, held>>

---------------------------------------------------------------------------
(* Targets, on the main thread.                                            *)

\* A client takes a slot; that of a leaving client is free when it has left.
Join(t) ==
  /\ t \notin present
  /\ ~(At("main", "unregister") /\ t \in todo["main"])
  /\ present' = present \union {t}
  /\ UNCHANGED <<bagVars, targets, routeVars, stale, early, got, pc, lock, todo, held>>

RegisterTarget(t) ==
  /\ At("main", "idle")
  /\ t \in present \ targets
  /\ MapFree
  /\ targets' = targets \union {t}
  /\ Move("main", "registered", "none", {t})
  /\ UNCHANGED <<bagVars, present, routeVars, stale, early, got, held>>

\* A new target is told of the bags under the shared map mutex.
Registered ==
  /\ At("main", "registered")
  /\ MapShareable
  /\ Move("main", "sendAllInitial", "mapShared", todo["main"])
  /\ UNCHANGED <<bagVars, targetVars, routeVars, stale, early, got, held>>

\* SendAllInitial leaves out a client the bag is not routed to.
SendAllInitial ==
  /\ At("main", "sendAllInitial")
  /\ RoutingShareable
  /\ IF routing = {} \/ todo["main"] \subseteq routing
     THEN Move("main", "send", "mapShared", todo["main"])
     ELSE Move("main", "idle", "none", {})
  /\ UNCHANGED <<bagVars, targetVars, routeVars, stale, early, got, held>>

\* UnregisterTarget of a client that leaves keeps the map mutex while it waits
\* for that of the routing targets.  A worker that is about to add its slot does
\* not notice.
UnregisterTarget(t) ==
  /\ At("main", "idle")
  /\ t \in present
  /\ MapFree
  /\ targets' = targets \ {t}
  /\ present' = present \ {t}
  /\ got' = [got EXCEPT ![t] = 0]
  /\ stale' = IF At("sync", "add") THEN stale \union ({t} \cap todo["sync"]) ELSE stale
  /\ Move("main", "unregister", "map", {t})
  /\ UNCHANGED <<bagVars, routeVars, early, held>>

Unregistered ==
  /\ At("main", "unregister")
  /\ RoutingFree
  /\ routing' = routing \ todo["main"]
  /\ routed' = routed \ todo["main"]
  /\ stray' = stray \ todo["main"]
  /\ Move("main", "idle", "none", {})
  /\ UNCHANGED <<bagVars, targetVars, peers, stale, early, got, held>>

---------------------------------------------------------------------------
(* Routing targets.                                                        *)

\* ENSURE_ENTITY_STATE_BAG on the main thread: RegisterStateBag makes a bag that
\* has no routing targets yet, or finds that of an earlier entity with the same id.
EnsureStateBag ==
  /\ scoped
  /\ At("main", "idle")
  /\ bag' = IF bag = "none" THEN "registered" ELSE bag
  /\ Move("main", "ensure", "none", {})
  /\ UNCHANGED <<scoped, data, local, syncSet, targetVars, routeVars, stale, early, got, held>>

\* It puts -1 among the routing targets, since a bag without any is sent to all.
InitialRouting_Empty(ts) == ts
InitialRouting(ts) == {Self} \union ts

\* SetRoutingTargets, under the mutex of the routing targets, first moves the old
\* ones away; of the slots in relevantTo, those in rs are of clients that are there.
SetRoutingTargets(ts, rs) ==
  /\ At("main", "ensure")
  /\ RoutingFree
  /\ peers' = InitialRouting(ts)
  /\ routing' = {}
  /\ routed' = routed \union rs
  /\ stray' = (stray \union ts) \ routed'
  /\ Move("main", "reroute", "routing", ts \ routing)
  /\ UNCHANGED <<bagVars, targetVars, stale, early, got, held>>

\* Then it assigns the new ones, and sends everything to those that are new.
Reroute ==
  /\ At("main", "reroute")
  /\ routing' = peers
  /\ peers' = {}
  /\ bag' = "set"
  /\ Move("main", "send", "routing", todo["main"])
  /\ UNCHANGED <<scoped, data, local, syncSet, targetVars, routed, stray, stale, early, got,
                 held>>

\* A worker of the sync thread goes about a client it has found in its slot.
ScopeTo(t) ==
  /\ scoped
  /\ bag = "set"
  /\ At("sync", "idle")
  /\ t \in present
  /\ Move("sync", "add", "none", {t})
  /\ UNCHANGED <<bagVars, targetVars, routeVars, stale, early, got, held>>

AddRoutingTarget_Unlocked ==
  /\ At("sync", "add")
  /\ RoutingFree
  /\ routing' = routing \union todo["sync"]
  /\ routed' = routed \union (todo["sync"] \ stale)
  /\ stray' = (stray \union todo["sync"]) \ routed'
  /\ stale' = {}
  /\ Move("sync", "send", "none", todo["sync"] \ routing)
  /\ UNCHANGED <<bagVars, targetVars, peers, early, got, held>>

AddRoutingTarget_SendsAll ==
  /\ At("sync", "add")
  /\ RoutingFree
  /\ routing' = routing \union todo["sync"]
  /\ routed' = routed \union (todo["sync"] \ stale)
  /\ stray' = (stray \union todo["sync"]) \ routed'
  /\ stale' = {}
  /\ Move("sync", "broadcast", "routing", {})
  /\ UNCHANGED <<bagVars, targetVars, peers, early, got, held>>

AddRoutingTarget ==
  /\ At("sync", "add")
  /\ RoutingFree
  /\ routing' = routing \union todo["sync"]
  /\ routed' = routed \union (todo["sync"] \ stale)
  /\ stray' = (stray \union todo["sync"]) \ routed'
  /\ stale' = {}
  /\ Move("sync", "send", "routing", todo["sync"] \ routing)
  /\ UNCHANGED <<bagVars, targetVars, peers, early, got, held>>

RemoveRoutingTarget(t) ==
  /\ At("sync", "idle")
  /\ t \in routing \ {Self}
  /\ RoutingFree
  /\ routing' = routing \ {t}
  /\ UNCHANGED <<bagVars, targetVars, peers, routed, stray, stale, early, got, pc, lock,
                 todo, held>>

---------------------------------------------------------------------------

\* What a thread does to finish the call it is in.
Continue(th) ==
  \/ SendKeyAll(th) \/ Broadcast(th) \/ Multicast(th)
  \/ \E t \in Target : SendKey(th, t)
  \/ QueueSend(th) \/ Sent(th)

EnsureContinue ==
  \/ \E ts \in SUBSET Target, rs \in SUBSET present :
       rs \subseteq ts /\ SetRoutingTargets(ts, rs)
  \/ Reroute

MainContinue ==
  Continue("main") \/ Registered \/ SendAllInitial \/ Unregistered \/ EnsureContinue

SyncContinue == Continue("sync") \/ AddRoutingTarget

Next ==
  \/ \E th \in Threads : SetKey(th)
  \/ SetKeyLocal
  \/ \E t \in Target : Join(t) \/ RegisterTarget(t) \/ UnregisterTarget(t)
  \/ EnsureStateBag
  \/ \E t \in Target : ScopeTo(t) \/ RemoveRoutingTarget(t)
  \/ MainContinue
  \/ SyncContinue

Spec == Init /\ [][Next]_vars

\* Both threads are scheduled, and a mutex that is free again and again is got.
Fairness == SF_vars(MainContinue) /\ SF_vars(SyncContinue)

FairSpec == Spec /\ Fairness

---------------------------------------------------------------------------
(* Properties.                                                             *)

Labels == {"idle", "sendKeyAll", "broadcast", "multicast", "send",
           "registered", "sendAllInitial", "unregister", "add", "ensure", "reroute"}
Mutexes == {"none", "map", "mapShared", "routing", "routingShared"}

Packets == [target : Target \union {Self}, write : 0 .. MaxWrites]

\* Every variable has its type.
TypeOK ==
  /\ scoped \in BOOLEAN /\ local \in BOOLEAN /\ syncSet \in BOOLEAN
  /\ bag \in {"none", "registered", "set"}
  /\ data \in 0 .. MaxWrites
  /\ routing \subseteq Target \union {Self}
  /\ peers \subseteq Target \union {Self}
  /\ \A ts \in {targets, present, routed, stray, stale} : ts \subseteq Target
  /\ early \subseteq Threads
  /\ got \in [Target -> 0 .. MaxWrites]
  /\ pc \in [Threads -> Labels]
  /\ lock \in [Threads -> Mutexes]
  /\ todo \in [Threads -> SUBSET Target]
  /\ held \in [Threads -> Packets]

Quiet == \A th \in Threads : At(th, "idle")

Audience == IF routing = {} THEN targets ELSE targets \cap routing

\* Whenever no call is under way, every registered target that the bag is sent
\* to has the value of the server, although routing, registering and setting
\* interleave and values are read and queued in separate steps, as long as the
\* key is set by the main thread alone (as it is when a script has a change
\* handler), and always with replication.
Converged == Quiet /\ ~local /\ ~syncSet => \A t \in Audience : got[t] = data

\* The value of a routed bag goes only to clients it was routed to, but for three
\* windows, which stray tells slot by slot: the slot was routed for an earlier
\* client (by a worker, or from relevantTo), or it was a target when a SendKeyAll
\* broadcast that had looked at the routing targets before the first were set, or
\* while SetRoutingTargets had moved them.
RoutedOnly == scoped => \A t \in Target : got[t] # 0 => t \in routed \union stray

\* A client that stays never gets an older value after a newer one, although
\* SendKey queues a value that it read before it released the data mutex and
\* both threads send, as long as the key is set by the main thread alone.
OnlyForward ==
  [][~syncSet' => \A t \in Target : got'[t] >= got[t] \/ t \in present \ present']_vars

\* The mutexes that the next step of a call takes are free for it.
CanGoOn(th) ==
  /\ At(th, "broadcast") \/ At(th, "registered") => MapShareable
  /\ At(th, "multicast") \/ At(th, "sendAllInitial") => RoutingShareable
  /\ At(th, "add") \/ At(th, "unregister") \/ At(th, "ensure") => RoutingFree

\* The threads never wait for each other: of the calls under way, some of which
\* hold the map mutex while they wait for that of the routing targets, one has
\* the mutexes it needs.
NoDeadlock ==
  ~Quiet => \E th \in Threads : ~At(th, "idle") /\ CanGoOn(th)

\* No call blocks forever on the two mutexes: each thread is done with its call
\* again and again.
CallsReturn == \A th \in Threads : []<>At(th, "idle")

===========================================================================
