------------------------- MODULE StateBag_proofs -------------------------
(***************************************************************************)
(* Proofs about the replication of a key of a state bag, for every set of  *)
(* clients and any number of writes.                                       *)
(***************************************************************************)
EXTENDS StateBag, TLAPS

---------------------------------------------------------------------------
(* Types.                                                                  *)

LEMMA MoveTypes ==
  ASSUME TypeOK, NEW th \in Threads, NEW label \in Labels, NEW mutex \in Mutexes,
         NEW left \in SUBSET Target, Move(th, label, mutex, left)
  PROVE  /\ pc' \in [Threads -> Labels]
         /\ lock' \in [Threads -> Mutexes]
         /\ todo' \in [Threads -> SUBSET Target]
BY DEF TypeOK, Move

LEMMA TypesNext ==
  ASSUME TypeOK, [Next]_vars
  PROVE  TypeOK'
<1>0. /\ {"main", "sync"} = Threads
      /\ {"idle", "sendKeyAll", "broadcast", "multicast", "send", "registered",
          "sendAllInitial", "unregister", "add", "ensure", "reroute"} = Labels
      /\ {"none", "map", "mapShared", "routing", "routingShared"} = Mutexes
  BY DEF Threads, Labels, Mutexes
<1>s. MaxWrites \in Nat BY ConstantsAssumption
<1> USE DEF bagVars, targetVars, routeVars
<1>1. ASSUME NEW th \in Threads, SetKey(th) PROVE TypeOK'
  <2>1. Move(th, "sendKeyAll", "none", {}) BY <1>1 DEF SetKey
  <2>2. data' \in 0 .. MaxWrites BY <1>1, <1>s DEF SetKey, TypeOK
  <2>3. syncSet' \in BOOLEAN BY <1>1 DEF SetKey
  <2> QED BY <1>0, <1>1, <2>1, <2>2, <2>3 DEF Move, SetKey, TypeOK
<1>2. CASE SetKeyLocal
  <2>1. data' \in 0 .. MaxWrites BY <1>2, <1>s DEF SetKeyLocal, TypeOK
  <2> QED BY <1>2, <2>1 DEF SetKeyLocal, TypeOK
<1>3. ASSUME NEW t \in Target, Join(t) PROVE TypeOK'
  BY <1>3 DEF Join, TypeOK
<1>4. ASSUME NEW t \in Target, RegisterTarget(t) PROVE TypeOK'
  BY <1>0, <1>4 DEF Move, RegisterTarget, TypeOK
<1>5. ASSUME NEW t \in Target, UnregisterTarget(t) PROVE TypeOK'
  <2>1. got' \in [Target -> 0 .. MaxWrites]
    BY <1>5, <1>s DEF UnregisterTarget, TypeOK
  <2>2. /\ pc' \in [Threads -> Labels]
        /\ lock' \in [Threads -> Mutexes]
        /\ todo' \in [Threads -> SUBSET Target]
    <3>1. {t} \in SUBSET Target OBVIOUS
    <3> QED BY <1>0, <1>5, <3>1, MoveTypes DEF UnregisterTarget
  <2>3. stale' \subseteq Target BY <1>5 DEF UnregisterTarget, TypeOK
  <2> QED BY <1>5, <2>1, <2>2, <2>3 DEF UnregisterTarget, TypeOK
<1>6. CASE EnsureStateBag
  <2>1. Move("main", "ensure", "none", {}) BY <1>6 DEF EnsureStateBag
  <2>2. bag' \in {"none", "registered", "set"} BY <1>6 DEF EnsureStateBag, TypeOK
  <2> QED BY <1>0, <1>6, <2>1, <2>2 DEF Move, EnsureStateBag, TypeOK
<1>7. ASSUME NEW ts \in SUBSET Target, NEW rs \in SUBSET present, rs \subseteq ts,
             SetRoutingTargets(ts, rs)
      PROVE TypeOK'
  <2>1. Move("main", "reroute", "routing", ts \ routing) BY <1>7 DEF SetRoutingTargets
  <2>2. /\ pc' \in [Threads -> Labels]
        /\ lock' \in [Threads -> Mutexes]
        /\ todo' \in [Threads -> SUBSET Target]
    <3>1. ts \ routing \in SUBSET Target OBVIOUS
    <3> QED BY <1>0, <2>1, <3>1, MoveTypes
  <2> QED BY <1>7, <2>2 DEF SetRoutingTargets, InitialRouting, TypeOK
<1>8. CASE Reroute
  <2>1. todo["main"] \in SUBSET Target BY <1>0 DEF TypeOK
  <2>2. Move("main", "send", "routing", todo["main"]) BY <1>8 DEF Reroute
  <2> QED BY <1>0, <1>8, <2>1, <2>2 DEF Move, Reroute, TypeOK
<1>9. ASSUME NEW t \in Target, ScopeTo(t) PROVE TypeOK'
  BY <1>0, <1>9 DEF Move, ScopeTo, TypeOK
<1>10. ASSUME NEW t \in Target, RemoveRoutingTarget(t) PROVE TypeOK'
  BY <1>10 DEF RemoveRoutingTarget, TypeOK
<1>11. ASSUME NEW th \in Threads, SendKeyAll(th) PROVE TypeOK'
  <2>1. PICK label \in Labels : Move(th, label, "none", {}) BY <1>11, <1>0 DEF SendKeyAll
  <2>2. early' \subseteq Threads BY <1>11 DEF SendKeyAll, TypeOK
  <2> QED BY <1>0, <1>11, <2>1, <2>2 DEF Move, SendKeyAll, TypeOK
<1>12. ASSUME NEW th \in Threads, Broadcast(th) PROVE TypeOK'
  <2>1. targets \in SUBSET Target BY DEF TypeOK
  <2>2. stray' \subseteq Target /\ early' \subseteq Threads BY <1>12 DEF Broadcast, TypeOK
  <2>3. Move(th, "send", "mapShared", targets) BY <1>12 DEF Broadcast
  <2> QED BY <1>0, <1>12, <2>1, <2>2, <2>3 DEF Move, Broadcast, TypeOK
<1>13. ASSUME NEW th \in Threads, Multicast(th) PROVE TypeOK'
  <2>1. Recipients \in SUBSET Target BY DEF TypeOK, Recipients
  <2>2. Move(th, "send", "routingShared", Recipients) BY <1>13 DEF Multicast
  <2> QED BY <1>0, <1>13, <2>1, <2>2 DEF Move, Multicast, TypeOK
<1>14. ASSUME NEW th \in Threads, NEW t \in Target, SendKey(th, t) PROVE TypeOK'
  <2>1. held' \in [Threads -> Packets] BY <1>14 DEF SendKey, TypeOK, Packets
  <2>2. todo' \in [Threads -> SUBSET Target] BY <1>14 DEF SendKey, TypeOK
  <2> QED BY <1>14, <2>1, <2>2 DEF SendKey, TypeOK
<1>15. ASSUME NEW th \in Threads, QueueSend(th) PROVE TypeOK'
  <2>1. held[th] \in Packets BY DEF TypeOK
  <2>2. got' \in [Target -> 0 .. MaxWrites] BY <1>15, <2>1 DEF QueueSend, TypeOK, Packets
  <2>3. Nothing \in Packets BY <1>s DEF Nothing, Packets
  <2>4. held' \in [Threads -> Packets] BY <1>15, <2>3 DEF QueueSend, TypeOK
  <2> QED BY <1>15, <2>2, <2>4 DEF QueueSend, TypeOK
<1>16. ASSUME NEW th \in Threads, Sent(th) PROVE TypeOK'
  BY <1>0, <1>16 DEF Move, Sent, TypeOK
<1>17. CASE SendAllInitial
  <2>1. PICK label \in Labels, mutex \in Mutexes, left \in SUBSET Target :
          Move("main", label, mutex, left)
    <3>1. todo["main"] \in SUBSET Target BY <1>0 DEF TypeOK
    <3> QED BY <1>0, <1>17, <3>1 DEF SendAllInitial
  <2> QED BY <1>0, <1>17, <2>1 DEF Move, SendAllInitial, TypeOK
<1>18. CASE Unregistered
  BY <1>0, <1>18 DEF Move, Unregistered, TypeOK
<1>19. CASE AddRoutingTarget
  <2>1. todo["sync"] \in SUBSET Target BY <1>0 DEF TypeOK
  <2>2. todo["sync"] \ routing \in SUBSET Target BY <2>1
  <2>3. Move("sync", "send", "routing", todo["sync"] \ routing) BY <1>19 DEF AddRoutingTarget
  <2>4. /\ pc' \in [Threads -> Labels]
        /\ lock' \in [Threads -> Mutexes]
        /\ todo' \in [Threads -> SUBSET Target]
    BY <1>0, <2>2, <2>3, MoveTypes
  <2> QED BY <1>19, <2>1, <2>4 DEF AddRoutingTarget, TypeOK
<1>20. CASE Registered
  <2>1. todo["main"] \in SUBSET Target BY <1>0 DEF TypeOK
  <2> QED BY <1>0, <1>20, <2>1 DEF Move, Registered, TypeOK
<1>21. CASE UNCHANGED vars
  BY <1>21 DEF vars, TypeOK
<1> QED
  BY <1>0, <1>1, <1>2, <1>3, <1>4, <1>5, <1>6, <1>7, <1>8, <1>9, <1>10, <1>11, <1>12,
     <1>13, <1>14, <1>15, <1>16, <1>17, <1>18, <1>19, <1>20, <1>21
  DEF Next, MainContinue, SyncContinue, Continue, EnsureContinue

LEMMA TypesInit == Init => TypeOK
<1> SUFFICES ASSUME Init PROVE TypeOK OBVIOUS
<1>1. held \in [Threads -> Packets] BY ConstantsAssumption DEF Init, Nothing, Packets
<1>2. data \in 0 .. MaxWrites /\ got \in [Target -> 0 .. MaxWrites]
  BY ConstantsAssumption DEF Init
<1>3. /\ pc \in [Threads -> Labels]
      /\ lock \in [Threads -> Mutexes]
      /\ todo \in [Threads -> SUBSET Target]
  BY DEF Init, Labels, Mutexes
<1>4. bag \in {"none", "registered", "set"} BY DEF Init
<1> QED BY <1>1, <1>2, <1>3, <1>4 DEF Init, TypeOK

\* Every variable has its type, with one or both threads setting the key.
THEOREM TypeCorrect == Spec => []TypeOK
BY TypesInit, TypesNext, PTL DEF Spec

---------------------------------------------------------------------------
(* Whom the value of a routed bag reaches.                                 *)

\* The slots that the bag was routed to, or that one of the windows exposed.
Exposed == routed \union stray

\* A routed bag that is set as the entity's keeps the target -1, so that it never
\* looks like one without routing targets but while they are moved; who looks then,
\* or before, is early.
RoutingInv ==
  /\ ~scoped =>
       /\ bag = "set" /\ routing = {} /\ pc["sync"] # "add"
       /\ pc["main"] \notin {"ensure", "reroute"}
       /\ \A th \in Threads : pc[th] # "multicast"
  /\ scoped =>
       /\ routing \ {Self} \subseteq Exposed
       /\ bag = "set" /\ pc["main"] # "reroute" => Self \in routing
       /\ \A th \in Threads : pc[th] = "broadcast" => th \in early
  /\ bag = "none" =>
       /\ data = 0 /\ pc["sync"] = "idle"
       /\ pc["main"] \in {"idle", "registered", "sendAllInitial", "send", "unregister"}
  /\ bag = "registered" => pc["main"] \in {"ensure", "reroute"}
  /\ pc["main"] = "reroute" =>
       /\ Self \in peers /\ peers \ {Self} \subseteq Exposed
       /\ todo["main"] \subseteq Exposed

\* A call sends only to slots that are exposed.
SendsExposed ==
  \A th \in Threads :
    /\ held[th] # Nothing => pc[th] = "send"
    /\ bag = "none" => held[th] = Nothing
    /\ scoped /\ pc[th] = "send" /\ bag # "none" =>
         todo[th] \subseteq Exposed /\ held[th].target \in Exposed \union {Self}

\* The sync thread sends under a mutex that UnregisterTarget has to take, or takes
\* away before it forgets that the slot was routed.
SyncLocked ==
  /\ scoped /\ pc["sync"] = "send" => lock["sync"] \in {"routing", "routingShared", "mapShared"}
  /\ pc["main"] = "unregister" => lock["main"] = "map" /\ lock["sync"] # "mapShared"

\* Nothing is queued to a client between its leaving and the end of its routing.
LeavingInv ==
  pc["main"] = "unregister" => \A t \in todo["main"] : t \notin present /\ got[t] = 0

RouteInv ==
  /\ TypeOK
  /\ RoutingInv
  /\ SendsExposed
  /\ SyncLocked
  /\ LeavingInv
  /\ RoutedOnly

LEMMA RouteInit == Init => RouteInv
<1> SUFFICES ASSUME Init PROVE RouteInv OBVIOUS
<1>1. TypeOK BY TypesInit
<1>2. RoutingInv BY DEF Init, RoutingInv, Threads
<1>3. SendsExposed /\ SyncLocked /\ LeavingInv
  BY DEF Init, SendsExposed, SyncLocked, LeavingInv, Threads
<1>4. RoutedOnly BY DEF Init, RoutedOnly
<1> QED BY <1>1, <1>2, <1>3, <1>4 DEF RouteInv

LEMMA RouteNext ==
  ASSUME RouteInv, [Next]_vars
  PROVE  RouteInv'
<1>0. TypeOK /\ TypeOK' BY TypesNext DEF RouteInv
<1>s. Self \notin Target BY ConstantsAssumption
<1> SUFFICES RoutingInv' /\ SendsExposed' /\ SyncLocked' /\ LeavingInv' /\ RoutedOnly'
  BY <1>0 DEF RouteInv
<1> USE <1>0, <1>s DEF RouteInv, RoutingInv, SendsExposed, SyncLocked, LeavingInv,
        RoutedOnly, Exposed, TypeOK, Threads, Packets, Move, At, bagVars, targetVars, routeVars
<1> DEFINE Goal == RoutingInv' /\ SendsExposed' /\ SyncLocked' /\ LeavingInv' /\ RoutedOnly'
<1>1. ASSUME NEW th \in Threads, SetKey(th) PROVE Goal
  BY <1>1 DEF SetKey
<1>2. CASE SetKeyLocal
  BY <1>2 DEF SetKeyLocal
<1>3. ASSUME NEW t \in Target, Join(t) PROVE Goal
  BY <1>3 DEF Join
<1>4. ASSUME NEW t \in Target, RegisterTarget(t) PROVE Goal
  BY <1>4 DEF RegisterTarget
<1>5. ASSUME NEW t \in Target, UnregisterTarget(t) PROVE Goal
  BY <1>5 DEF UnregisterTarget, MapFree, Held
<1>6. CASE EnsureStateBag
  BY <1>6 DEF EnsureStateBag
<1>7. ASSUME NEW ts \in SUBSET Target, NEW rs \in SUBSET present, rs \subseteq ts,
             SetRoutingTargets(ts, rs)
      PROVE Goal
  BY <1>7 DEF SetRoutingTargets, InitialRouting, Nothing
<1>8. CASE Reroute
  BY <1>8 DEF Reroute, Nothing
<1>9. ASSUME NEW t \in Target, ScopeTo(t) PROVE Goal
  BY <1>9 DEF ScopeTo
<1>10. ASSUME NEW t \in Target, RemoveRoutingTarget(t) PROVE Goal
  BY <1>10 DEF RemoveRoutingTarget
<1>11. ASSUME NEW th \in Threads, SendKeyAll(th) PROVE Goal
  BY <1>11 DEF SendKeyAll, Unsettled
<1>12. ASSUME NEW th \in Threads, Broadcast(th) PROVE Goal
  BY <1>12 DEF Broadcast, MapShareable, Held, Nothing
<1>13. ASSUME NEW th \in Threads, Multicast(th) PROVE Goal
  BY <1>13 DEF Multicast, Recipients, Nothing
<1>14. ASSUME NEW th \in Threads, NEW t \in Target, SendKey(th, t) PROVE Goal
  BY <1>14 DEF SendKey
<1>15. ASSUME NEW th \in Threads, QueueSend(th) PROVE Goal
  BY <1>15 DEF QueueSend, Nothing
<1>16. ASSUME NEW th \in Threads, Sent(th) PROVE Goal
  BY <1>16 DEF Sent
<1>17. CASE SendAllInitial
  BY <1>17 DEF SendAllInitial, Nothing
<1>18. CASE Unregistered
  BY <1>18 DEF Unregistered, RoutingFree, Held
<1>19. CASE AddRoutingTarget
  BY <1>19 DEF AddRoutingTarget, Nothing
<1>20. CASE Registered
  BY <1>20 DEF Registered
<1>21. CASE UNCHANGED vars
  BY <1>21 DEF vars
<1> QED
  BY <1>1, <1>2, <1>3, <1>4, <1>5, <1>6, <1>7, <1>8, <1>9, <1>10, <1>11, <1>12,
     <1>13, <1>14, <1>15, <1>16, <1>17, <1>18, <1>19, <1>20, <1>21
  DEF Next, MainContinue, SyncContinue, Continue, EnsureContinue

\* The value of a routed bag reaches only clients it was routed to, with both
\* threads setting the key and however routing, leaving, registering and setting
\* interleave, but for the slots that one of the three windows exposed.
THEOREM RoutedReachesOnlyRouted == Spec => []RoutedOnly
<1>1. RouteInv => RoutedOnly BY DEF RouteInv
<1> QED BY <1>1, RouteInit, RouteNext, PTL DEF Spec

---------------------------------------------------------------------------
(* What holds while the main thread alone has set the key.                 *)

\* The sync thread only adds routing targets, and holds their mutex when it
\* sends; the main thread holds it while it moves them; no one looks early.
SyncOnlyAdds ==
  /\ pc["sync"] \in {"idle", "add", "send"}
  /\ ~scoped => pc["sync"] = "idle"
  /\ pc["sync"] = "send" => lock["sync"] = "routing"
  /\ pc["main"] = "reroute" => lock["main"] = "routing" /\ pc["sync"] # "send"
  /\ bag # "set" => data = 0
  /\ early = {}

\* The sync thread that has not set the key does not in such a step, either.
LEMMA SyncSetStays ==
  ASSUME TypeOK, [Next]_vars, ~syncSet'
  PROVE  ~syncSet /\ ~SetKey("sync")
<1>0. syncSet \in BOOLEAN /\ syncSet' \in BOOLEAN BY TypesNext DEF TypeOK
<1> USE <1>0 DEF bagVars
<1>1. ASSUME NEW th \in Threads, SetKey(th) PROVE ~syncSet /\ th # "sync"
  BY <1>1 DEF SetKey
<1>2. ASSUME SetKeyLocal PROVE ~syncSet
  BY <1>2 DEF SetKeyLocal
<1>3. ASSUME NEW t \in Target, Join(t) \/ RegisterTarget(t) \/ UnregisterTarget(t)
      PROVE ~syncSet
  BY <1>3 DEF Join, RegisterTarget, UnregisterTarget
<1>4. ASSUME EnsureStateBag \/ EnsureContinue PROVE ~syncSet
  BY <1>4 DEF EnsureStateBag, EnsureContinue, SetRoutingTargets, Reroute
<1>5. ASSUME NEW t \in Target, ScopeTo(t) \/ RemoveRoutingTarget(t) PROVE ~syncSet
  BY <1>5 DEF ScopeTo, RemoveRoutingTarget
<1>6. ASSUME NEW th \in Threads, Continue(th) PROVE ~syncSet
  BY <1>6 DEF Continue, SendKeyAll, Broadcast, Multicast, SendKey, QueueSend, Sent
<1>7. ASSUME Registered \/ SendAllInitial \/ Unregistered \/ AddRoutingTarget
      PROVE ~syncSet
  BY <1>7 DEF Registered, SendAllInitial, Unregistered, AddRoutingTarget
<1>8. ASSUME UNCHANGED vars PROVE ~syncSet
  BY <1>8 DEF vars
<1>9. ~syncSet
  BY <1>1, <1>2, <1>3, <1>4, <1>5, <1>6, <1>7, <1>8
  DEF Next, MainContinue, SyncContinue, Threads
<1>10. ~SetKey("sync") BY <1>1 DEF Threads
<1> QED BY <1>9, <1>10

LEMMA SyncOnlyAddsNext ==
  ASSUME RouteInv, SyncOnlyAdds, ~syncSet', [Next]_vars
  PROVE  SyncOnlyAdds'
<1>0. ~syncSet /\ ~SetKey("sync") BY SyncSetStays DEF RouteInv
<1> USE <1>0 DEF RouteInv, TypeOK, RoutingInv, SendsExposed, SyncOnlyAdds, Threads, Move, At,
        bagVars, targetVars, routeVars
<1>1. ASSUME NEW th \in Threads, SetKey(th) PROVE SyncOnlyAdds'
  BY <1>1 DEF SetKey
<1>2. ASSUME NEW th \in Threads, Continue(th) PROVE SyncOnlyAdds'
  BY <1>2 DEF Continue, SendKeyAll, Broadcast, Multicast, SendKey, QueueSend, Sent, Unsettled
<1>3. CASE \/ SetKeyLocal
           \/ \E t \in Target : Join(t) \/ RegisterTarget(t) \/ UnregisterTarget(t)
  BY <1>3 DEF SetKeyLocal, Join, RegisterTarget, UnregisterTarget
<1>4. CASE EnsureStateBag \/ EnsureContinue
  BY <1>4 DEF EnsureStateBag, EnsureContinue, SetRoutingTargets, Reroute, RoutingFree, Held
<1>5. CASE \E t \in Target : ScopeTo(t) \/ RemoveRoutingTarget(t)
  BY <1>5 DEF ScopeTo, RemoveRoutingTarget
<1>6. CASE Registered \/ SendAllInitial \/ Unregistered
  BY <1>6 DEF Registered, SendAllInitial, Unregistered
<1>7. CASE AddRoutingTarget
  BY <1>7 DEF AddRoutingTarget, RoutingFree, Held
<1>8. CASE UNCHANGED vars
  BY <1>8 DEF vars
<1> QED
  BY <1>1, <1>2, <1>3, <1>4, <1>5, <1>6, <1>7, <1>8 DEF Next, MainContinue, SyncContinue

---------------------------------------------------------------------------
(* Convergence.                                                            *)

TargetsPresent ==
  /\ targets \subseteq present
  /\ pc["main"] \in {"registered", "sendAllInitial"} => \A t, u \in todo["main"] : t = u

\* A packet that was written holds the value of the server, or the main thread
\* has still to get the mutex of the routing targets and to send that value.
HeldFresh ==
  /\ data = 0 =>
       /\ \A th \in Threads : held[th] = Nothing
       /\ \A t \in Target : got[t] = 0
  /\ held["main"] # Nothing => held["main"].write = data
  /\ held["sync"] # Nothing /\ ~local =>
       held["sync"].write = data \/ pc["main"] \in {"sendKeyAll", "multicast"}

\* Some call will still send the value to the client of t.
Pending(t) ==
  \/ pc["main"] \in {"sendKeyAll", "broadcast", "multicast"}
  \/ pc["main"] \in {"send", "registered", "sendAllInitial"} /\ t \in todo["main"]
  \/ pc["main"] = "send" /\ held["main"].target = t
  \/ pc["sync"] = "send" /\ t \in todo["sync"]
  \/ pc["sync"] = "send" /\ held["sync"].target = t /\ held["sync"].write = data

\* Those that the bag is sent to are served, or will be; while the routing targets
\* are moved, those that it will be sent to again.
Served ==
  ~local =>
    /\ pc["main"] # "reroute" => \A t \in Audience : got[t] = data \/ Pending(t)
    /\ pc["main"] = "reroute" =>
         \A t \in targets \intersect peers : got[t] = data \/ t \in todo["main"]

MainInv ==
  /\ SyncOnlyAdds
  /\ TargetsPresent
  /\ HeldFresh
  /\ Served

LEMMA MainInit == Init => MainInv
<1> SUFFICES ASSUME Init PROVE MainInv OBVIOUS
<1>1. SyncOnlyAdds /\ TargetsPresent /\ HeldFresh
  BY DEF Init, SyncOnlyAdds, TargetsPresent, HeldFresh, Threads
<1>2. Served BY DEF Init, Served, Audience, Threads
<1> QED BY <1>1, <1>2 DEF MainInv

LEMMA MainNext ==
  ASSUME RouteInv, MainInv, ~syncSet', [Next]_vars
  PROVE  MainInv'
<1>0. /\ TypeOK /\ TypeOK' /\ RoutingInv /\ RoutingInv' /\ SendsExposed
      /\ SyncOnlyAdds' /\ ~SetKey("sync")
  BY RouteNext, SyncOnlyAddsNext, SyncSetStays DEF MainInv, RouteInv
<1>s. Self \notin Target BY ConstantsAssumption
<1> SUFFICES TargetsPresent' /\ HeldFresh' /\ Served' BY <1>0 DEF MainInv
<1> USE <1>0, <1>s DEF MainInv, RoutingInv, SendsExposed, SyncOnlyAdds, TargetsPresent,
        HeldFresh, Served, Pending, Audience, TypeOK, Threads, Packets, Move, At, bagVars,
        targetVars, routeVars, Nothing
<1> DEFINE Goal == TargetsPresent' /\ HeldFresh' /\ Served'
<1>1. ASSUME NEW th \in Threads, SetKey(th) PROVE Goal
  BY <1>1 DEF SetKey
<1>2. CASE SetKeyLocal
  BY <1>2 DEF SetKeyLocal
<1>3. ASSUME NEW t \in Target, Join(t) PROVE Goal
  BY <1>3 DEF Join
<1>4. ASSUME NEW t \in Target, RegisterTarget(t) PROVE Goal
  BY <1>4 DEF RegisterTarget
<1>5. ASSUME NEW t \in Target, UnregisterTarget(t) PROVE Goal
  BY <1>5 DEF UnregisterTarget
<1>6. CASE EnsureStateBag
  BY <1>6 DEF EnsureStateBag
<1>7. ASSUME NEW ts \in SUBSET Target, NEW rs \in SUBSET present, rs \subseteq ts,
             SetRoutingTargets(ts, rs)
      PROVE Goal
  BY <1>7 DEF SetRoutingTargets, InitialRouting, RoutingFree, Held
<1>8. CASE Reroute
  BY <1>8 DEF Reroute
<1>9. ASSUME NEW t \in Target, ScopeTo(t) PROVE Goal
  BY <1>9 DEF ScopeTo
<1>10. ASSUME NEW t \in Target, RemoveRoutingTarget(t) PROVE Goal
  BY <1>10 DEF RemoveRoutingTarget, RoutingFree, Held
<1>11. ASSUME NEW th \in Threads, SendKeyAll(th) PROVE Goal
  BY <1>11 DEF SendKeyAll
<1>12. ASSUME NEW th \in Threads, Broadcast(th) PROVE Goal
  BY <1>12 DEF Broadcast
<1>13. ASSUME NEW th \in Threads, Multicast(th) PROVE Goal
  BY <1>13 DEF Multicast, Recipients, RoutingShareable, Held
<1>14. ASSUME NEW th \in Threads, NEW t \in Target, SendKey(th, t) PROVE Goal
  BY <1>14 DEF SendKey
<1>15. ASSUME NEW th \in Threads, QueueSend(th) PROVE Goal
  BY <1>15 DEF QueueSend
<1>16. ASSUME NEW th \in Threads, Sent(th) PROVE Goal
  BY <1>16 DEF Sent
<1>17. CASE SendAllInitial
  BY <1>17 DEF SendAllInitial
<1>18. CASE Unregistered
  BY <1>18 DEF Unregistered
<1>19. CASE AddRoutingTarget
  BY <1>19 DEF AddRoutingTarget
<1>20. CASE Registered
  BY <1>20 DEF Registered
<1>21. CASE UNCHANGED vars
  BY <1>21 DEF vars
<1> HIDE DEF MainInv, RoutingInv, SendsExposed, SyncOnlyAdds, TargetsPresent, HeldFresh,
             Served, Pending, Audience, TypeOK, Packets, Move, At, bagVars, targetVars,
             routeVars, Nothing
<1> QED
  BY <1>1, <1>2, <1>3, <1>4, <1>5, <1>6, <1>7, <1>8, <1>9, <1>10, <1>11, <1>12,
     <1>13, <1>14, <1>15, <1>16, <1>17, <1>18, <1>19, <1>20, <1>21
  DEF Next, MainContinue, SyncContinue, Continue, EnsureContinue

\* While the main thread alone has set the key, and always with replication, every
\* client the bag is sent to has the value of the server when no call is under
\* way.
THEOREM TargetsConverge == Spec => []Converged
<1> DEFINE Inv == RouteInv /\ (~syncSet => MainInv)
<1>1. Init => Inv BY RouteInit, MainInit
<1>2. Inv /\ [Next]_vars => Inv'
  <2> SUFFICES ASSUME Inv, [Next]_vars PROVE Inv' OBVIOUS
  <2>1. RouteInv' BY RouteNext
  <2>2. ASSUME ~syncSet' PROVE MainInv' BY <2>2, SyncSetStays, MainNext DEF RouteInv
  <2> QED BY <2>1, <2>2
<1>3. Inv => Converged
  BY DEF MainInv, Converged, Quiet, At, Served, Pending, Threads
<1> QED BY <1>1, <1>2, <1>3, PTL DEF Spec

---------------------------------------------------------------------------
(* Order of delivery.                                                      *)

\* What is written and not queued yet is at least as new as what its client
\* has.  While the main thread sends, nothing of the sync thread is older than
\* the last write: it came to send by a mutex that the sync thread did not hold.
HeldNewer ==
  /\ \A t \in Target : got[t] <= data
  /\ \A th \in Threads : held[th] # Nothing =>
       held[th].target \in Target /\ got[held[th].target] <= held[th].write
  /\ held["main"] # Nothing => held["main"].write = data
  /\ held["sync"] # Nothing => held["sync"].write <= data
  /\ held["sync"] # Nothing /\ pc["main"] = "send" => held["sync"].write = data

ForwardInv == SyncOnlyAdds /\ HeldNewer

LEMMA ForwardInit == Init => ForwardInv
BY DEF Init, ForwardInv, SyncOnlyAdds, HeldNewer, Threads

LEMMA ForwardNext ==
  ASSUME RouteInv, ForwardInv, ~syncSet', [Next]_vars
  PROVE  /\ ForwardInv'
         /\ \A t \in Target : got'[t] >= got[t] \/ t \in present \ present'
<1>0. /\ TypeOK /\ TypeOK' /\ RoutingInv /\ SendsExposed
      /\ SyncOnlyAdds' /\ ~SetKey("sync")
  BY RouteNext, SyncOnlyAddsNext, SyncSetStays DEF ForwardInv, RouteInv
<1>s. Self \notin Target /\ MaxWrites \in Nat BY ConstantsAssumption
<1> DEFINE Forward == \A t \in Target : got'[t] >= got[t] \/ t \in present \ present'
           Goal == HeldNewer' /\ Forward
<1> SUFFICES Goal BY <1>0 DEF ForwardInv
<1> USE <1>0, <1>s DEF ForwardInv, RoutingInv, SendsExposed, SyncOnlyAdds, HeldNewer,
        TypeOK, Threads, Packets, Move, At, bagVars, targetVars, routeVars, Nothing
<1>1. ASSUME NEW th \in Threads, SetKey(th) PROVE Goal
  BY <1>1 DEF SetKey
<1>2. CASE SetKeyLocal
  BY <1>2 DEF SetKeyLocal
<1>3. ASSUME NEW t \in Target, Join(t) PROVE Goal
  BY <1>3 DEF Join
<1>4. ASSUME NEW t \in Target, RegisterTarget(t) PROVE Goal
  BY <1>4 DEF RegisterTarget
<1>5. ASSUME NEW t \in Target, UnregisterTarget(t) PROVE Goal
  BY <1>5 DEF UnregisterTarget
<1>6. CASE EnsureStateBag
  BY <1>6 DEF EnsureStateBag
<1>7. ASSUME NEW ts \in SUBSET Target, NEW rs \in SUBSET present, rs \subseteq ts,
             SetRoutingTargets(ts, rs)
      PROVE Goal
  BY <1>7 DEF SetRoutingTargets
<1>8. CASE Reroute
  BY <1>8 DEF Reroute
<1>9. ASSUME NEW t \in Target, ScopeTo(t) PROVE Goal
  BY <1>9 DEF ScopeTo
<1>10. ASSUME NEW t \in Target, RemoveRoutingTarget(t) PROVE Goal
  BY <1>10 DEF RemoveRoutingTarget
<1>11. ASSUME NEW th \in Threads, SendKeyAll(th) PROVE Goal
  BY <1>11 DEF SendKeyAll
<1>12. ASSUME NEW th \in Threads, Broadcast(th) PROVE Goal
  BY <1>12 DEF Broadcast
<1>13. ASSUME NEW th \in Threads, Multicast(th) PROVE Goal
  BY <1>13 DEF Multicast, RoutingShareable, Held
<1>14. ASSUME NEW th \in Threads, NEW t \in Target, SendKey(th, t) PROVE Goal
  BY <1>14 DEF SendKey
<1>15. ASSUME NEW th \in Threads, QueueSend(th) PROVE Goal
  BY <1>15 DEF QueueSend
<1>16. ASSUME NEW th \in Threads, Sent(th) PROVE Goal
  BY <1>16 DEF Sent
<1>17. CASE SendAllInitial
  BY <1>17 DEF SendAllInitial, RoutingShareable, Held
<1>18. CASE Unregistered
  BY <1>18 DEF Unregistered
<1>19. CASE AddRoutingTarget
  BY <1>19 DEF AddRoutingTarget
<1>20. CASE Registered
  BY <1>20 DEF Registered
<1>21. CASE UNCHANGED vars
  BY <1>21 DEF vars
<1> QED
  BY <1>1, <1>2, <1>3, <1>4, <1>5, <1>6, <1>7, <1>8, <1>9, <1>10, <1>11, <1>12,
     <1>13, <1>14, <1>15, <1>16, <1>17, <1>18, <1>19, <1>20, <1>21
  DEF Next, MainContinue, SyncContinue, Continue, EnsureContinue

\* While the main thread alone has set the key, with or without replication, no
\* client that stays gets an older value after a newer one, although the sync
\* thread sends too and each value is read before it is queued.
THEOREM NeverOlder == Spec => OnlyForward
<1> DEFINE Inv == RouteInv /\ (~syncSet => ForwardInv)
<1>1. Init => Inv BY RouteInit, ForwardInit
<1>2. Inv /\ [Next]_vars =>
        /\ Inv'
        /\ ~syncSet' => \A t \in Target : got'[t] >= got[t] \/ t \in present \ present'
  <2> SUFFICES ASSUME Inv, [Next]_vars
               PROVE  /\ Inv'
                      /\ ~syncSet' => \A t \in Target :
                                        got'[t] >= got[t] \/ t \in present \ present'
    OBVIOUS
  <2>1. RouteInv' BY RouteNext
  <2>2. ASSUME ~syncSet'
        PROVE  /\ ForwardInv'
               /\ \A t \in Target : got'[t] >= got[t] \/ t \in present \ present'
    BY <2>2, SyncSetStays, ForwardNext DEF RouteInv
  <2> QED BY <2>1, <2>2
<1> QED BY <1>1, <1>2, PTL DEF Spec, OnlyForward

---------------------------------------------------------------------------
(* The two mutexes.                                                        *)

\* Where a call can be when it holds a mutex: only UnregisterTarget and
\* SendAllInitial hold one, that of the map, while they wait for the other.
LocksHeld ==
  \A th \in Threads :
    /\ lock[th] = "map" => pc[th] = "unregister"
    /\ lock[th] = "mapShared" => pc[th] \in {"send", "sendAllInitial"}
    /\ lock[th] \in {"routing", "routingShared"} => pc[th] \in {"send", "reroute"}

LEMMA LocksNext ==
  ASSUME TypeOK, LocksHeld, [Next]_vars
  PROVE  LocksHeld'
<1> USE DEF TypeOK, LocksHeld, Threads, Move, At
<1>1. ASSUME NEW th \in Threads, SetKey(th) PROVE LocksHeld'
  BY <1>1 DEF SetKey
<1>2. ASSUME NEW th \in Threads, Continue(th) PROVE LocksHeld'
  BY <1>2 DEF Continue, SendKeyAll, Broadcast, Multicast, SendKey, QueueSend, Sent
<1>3. CASE \/ SetKeyLocal
           \/ \E t \in Target : Join(t) \/ RegisterTarget(t) \/ UnregisterTarget(t)
  BY <1>3 DEF SetKeyLocal, Join, RegisterTarget, UnregisterTarget
<1>4. CASE \/ EnsureStateBag \/ EnsureContinue
           \/ \E t \in Target : ScopeTo(t) \/ RemoveRoutingTarget(t)
  BY <1>4 DEF EnsureStateBag, EnsureContinue, SetRoutingTargets, Reroute, ScopeTo,
              RemoveRoutingTarget
<1>5. CASE Registered \/ SendAllInitial \/ Unregistered
  BY <1>5 DEF Registered, SendAllInitial, Unregistered
<1>6. CASE AddRoutingTarget
  BY <1>6 DEF AddRoutingTarget
<1>7. CASE UNCHANGED vars
  BY <1>7 DEF vars
<1> QED
  BY <1>1, <1>2, <1>3, <1>4, <1>5, <1>6, <1>7 DEF Next, MainContinue, SyncContinue

\* A call that waits for the routing mutex waits for one that sends or moves the
\* routing targets; a call that waits for the map mutex waits for UnregisterTarget,
\* which waits at most for such a one.
LEMMA LocksLetOneGoOn ==
  ASSUME TypeOK, LocksHeld
  PROVE  NoDeadlock
<1> SUFFICES ASSUME ~Quiet
             PROVE  \E th \in Threads : ~At(th, "idle") /\ CanGoOn(th)
  BY DEF NoDeadlock
<1>1. CASE \E th \in Threads : At(th, "send") \/ At(th, "reroute")
  BY <1>1 DEF At, CanGoOn
<1>2. CASE ~\E th \in Threads : At(th, "send") \/ At(th, "reroute")
  <2>1. RoutingFree
    BY <1>2 DEF LocksHeld, RoutingFree, Held, At
  <2>2. CASE \E th \in Threads : At(th, "unregister")
    BY <2>1, <2>2 DEF At, CanGoOn
  <2>3. CASE ~\E th \in Threads : At(th, "unregister")
    <3>1. MapShareable BY <2>3 DEF LocksHeld, MapShareable, Held, At
    <3> QED BY <2>1, <3>1 DEF Quiet, At, CanGoOn, RoutingShareable, RoutingFree
  <2> QED BY <2>2, <2>3
<1> QED BY <1>1, <1>2

\* The threads never wait for each other on the map mutex and the mutex of the
\* routing targets.
THEOREM NeverDeadlocked == Spec => []NoDeadlock
<1>1. Init => LocksHeld BY DEF Init, LocksHeld
<1>2. TypeOK /\ LocksHeld /\ [Next]_vars => LocksHeld' BY LocksNext
<1>3. TypeOK /\ LocksHeld => NoDeadlock BY LocksLetOneGoOn
<1> QED BY <1>1, <1>2, <1>3, TypeCorrect, PTL DEF Spec

===========================================================================
