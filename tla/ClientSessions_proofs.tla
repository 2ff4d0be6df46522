---------------------- MODULE ClientSessions_proofs ----------------------
(***************************************************************************)
(* Proofs about the client registry, for every set of clients, every       *)
(* number of slots and net ids, with and without OneSync.                  *)
(***************************************************************************)
EXTENDS ClientSessions, FiniteSetTheorems, SequenceTheorems, WellFoundedInduction, TLAPS

---------------------------------------------------------------------------
(* The choices of a slot and of a net id.                                  *)

LEMMA LeastExists ==
  ASSUME NEW S, S \subseteq Nat, S # {}
  PROVE  \E x \in S : \A y \in S : x <= y
<1> DEFINE R == OpToRel(<, Nat)
<1>1. PICK x \in S : \A y \in S : ~(<<y, x>> \in R)
  <2>1. IsWellFoundedOn(R, Nat) BY NatLessThanWellFounded
  <2> HIDE DEF R
  <2> QED BY <2>1, WFMin
<1>2. ASSUME NEW y \in S PROVE x <= y
  <2>1. ~(<<y, x>> \in R) BY <1>1
  <2>2. x \in Nat /\ y \in Nat OBVIOUS
  <2>3. ~(y < x) BY <2>1, <2>2 DEF OpToRel
  <2> QED BY <2>2, <2>3
<1> QED BY <1>2

LEMMA GreatestExists ==
  ASSUME NEW n \in Nat, NEW S, S \subseteq 0 .. n - 1, S # {}
  PROVE  \E x \in S : \A y \in S : y <= x
<1> DEFINE T == {i \in Nat : \E s \in S : i = n - s}
<1>1. T # {}
  <2>1. PICK s \in S : TRUE OBVIOUS
  <2>2. n - s \in T BY <2>1
  <2> QED BY <2>2
<1>2. PICK i \in T : \A j \in T : i <= j BY <1>1, LeastExists
<1>3. PICK x \in S : i = n - x BY <1>2
<1>4. ASSUME NEW y \in S PROVE y <= x
  <2>1. n - y \in T OBVIOUS
  <2>2. n - x <= n - y BY <1>2, <1>3, <2>1
  <2>3. x \in 0 .. n - 1 /\ y \in 0 .. n - 1 OBVIOUS
  <2> QED BY <2>2, <2>3
<1> QED BY <1>4

\* The slot OnAssignPeer gives is a free one.
LEMMA HighestSlotIs ==
  ASSUME FreeSlots # {}
  PROVE  HighestSlot \in FreeSlots
<1>1. FreeSlots \subseteq 0 .. NumSlots - 1 BY DEF FreeSlots, Slot
<1>2. \E s \in FreeSlots : \A r \in FreeSlots : r <= s
  BY <1>1, GreatestExists, ConstantsAssumption
<1> QED BY <1>2 DEF HighestSlot

\* The net id HandleConnectingClient finds is a free one.
LEMMA FirstFreeIdIs ==
  ASSUME FreeIds # {}
  PROVE  FirstFreeId \in FreeIds
<1> DEFINE ahead == {i \in FreeIds : i >= curNetId}
           pool  == IF ahead # {} THEN ahead ELSE FreeIds
<1>1. pool # {} /\ pool \subseteq FreeIds OBVIOUS
<1>2. pool \subseteq Nat BY <1>1, ConstantsAssumption DEF FreeIds, NetId
<1>3. \E i \in pool : \A j \in pool : i <= j BY <1>1, <1>2, LeastExists
<1>4. FirstFreeId = CHOOSE i \in pool : \A j \in pool : i <= j
  BY DEF FirstFreeId
<1> QED BY <1>1, <1>3, <1>4

---------------------------------------------------------------------------
(* Types.                                                                  *)

Types ==
  /\ made \subseteq Client /\ registered \subseteq Client
  /\ validated \subseteq Client /\ dropping \subseteq Client
  /\ connected \subseteq Client /\ peered \subseteq Client
  /\ dropQueue \subseteq Client /\ missed \subseteq Client
  /\ netId \in [Client -> NetId \union {0}]
  /\ byNetId \in [NetId -> Client \union {None}]
  /\ curNetId \in NetId
  /\ slot \in [Client -> Slot \union {-1}]
  /\ bySlot \in [Slot -> Client \union {None}]
  /\ targetOf \in [Slot -> Client \union {None}]
  /\ at \in [Thread -> Stage]
  /\ hand \in [Thread -> Client \union {None}]
  /\ netQueue \in Seq(Callback)
  /\ joins \in [Client -> Nat]
  /\ again \in BOOLEAN

LEMMA TypesIsTypeOK == Types <=> TypeOK
  BY DEF Types, TypeOK

LEMMA TypesInit == Init => Types
<1> SUFFICES ASSUME Init PROVE Types OBVIOUS
<1>1. 1 \in NetId BY ConstantsAssumption DEF NetId
<1>2. netQueue \in Seq(Callback) BY DEF Init
<1>3. at \in [Thread -> Stage] BY DEF Init, Stage
<1> QED BY <1>1, <1>2, <1>3 DEF Init, Types

\* What Goto does to the threads.
LEMMA GotoIs ==
  ASSUME Types, NEW t \in Thread, NEW c, NEW stage, Goto(t, c, stage)
  PROVE  /\ at'[t] = stage /\ hand'[t] = c
         /\ \A u \in Thread \ {t} : at'[u] = at[u] /\ hand'[u] = hand[u]
  BY DEF Types, Goto

LEMMA GotoTypes ==
  ASSUME Types, NEW t \in Thread, NEW c \in Client \union {None},
         NEW stage \in Stage, Goto(t, c, stage)
  PROVE  at' \in [Thread -> Stage] /\ hand' \in [Thread -> Client \union {None}]
  BY DEF Types, Goto

\* What a removal that begins does to them and to the history of removals.
LEMMA RemoveIs ==
  ASSUME NEW t, NEW c, NEW stage, Remove(t, c, stage)
  PROVE  /\ Goto(t, c, stage)
         /\ again' \in BOOLEAN
         /\ ~again' => ~again /\ c \in registered /\ ~Removing(c)
  BY Zenon DEF Remove

LEMMA RemoveTypes ==
  ASSUME Types, NEW t \in Thread, NEW c \in Client, NEW stage \in Removal,
         Remove(t, c, stage)
  PROVE  /\ at' \in [Thread -> Stage] /\ hand' \in [Thread -> Client \union {None}]
         /\ again' \in BOOLEAN
<1>1. stage \in Stage BY DEF Stage
<1> QED BY <1>1, RemoveIs, GotoTypes

LEMMA OnDropTypes ==
  ASSUME Types, NEW c \in Client, OnDrop(c)
  PROVE  targetOf' \in [Slot -> Client \union {None}]
  BY DEF Types, OnDrop

LEMMA HandleConnectingTypes ==
  ASSUME Types, NEW c \in Client, HandleConnectingClient(c)
  PROVE  /\ netId' \in [Client -> NetId \union {0}]
         /\ byNetId' \in [NetId -> Client \union {None}]
         /\ curNetId' \in NetId
<1>1. FirstFreeId \in NetId
  BY FirstFreeIdIs DEF HandleConnectingClient, FreeIds
<1>2. IncrementId(FirstFreeId) \in NetId
  BY <1>1, ConstantsAssumption DEF IncrementId, NetId
<1> QED BY <1>1, <1>2 DEF Types, HandleConnectingClient

LEMMA TakeTypes ==
  ASSUME Types, NEW what, Take(what)
  PROVE  Head(netQueue) \in Callback /\ netQueue' \in Seq(Callback)
  BY HeadTailProperties DEF Types, Take

LEMMA HeadIsClient ==
  ASSUME Types, NEW what, Take(what)
  PROVE  Head(netQueue).client \in Client
  BY TakeTypes DEF Callback

LEMMA AnnounceTypes ==
  ASSUME Types, NEW c \in Client, Announce(c)
  PROVE  joins' \in [Client -> Nat]
  BY DEF Announce, Types

\* A thread that is not idle is busy with a client that has been made.
ThreadInv == \A t \in Thread : at[t] # "idle" => hand[t] \in made

LEMMA HandIsClient ==
  ASSUME Types, ThreadInv, NEW t \in Thread, at[t] # "idle"
  PROVE  hand[t] \in Client /\ hand[t] \in made
  BY DEF Types, ThreadInv

LEMMA RemovalTypes ==
  ASSUME Types, ThreadInv, RemovalNext
  PROVE  Types'
<1>1. PICK t \in Thread :
        RemoveDrop(t) \/ RemoveIds(t) \/ RemoveSlot(t) \/ RemoveGuid(t) \/ RemoveEnd(t)
  BY DEF RemovalNext
<1>2. at[t] # "idle" BY <1>1 DEF RemoveDrop, RemoveIds, RemoveSlot, RemoveGuid, RemoveEnd
<1>3. hand[t] \in Client BY <1>2, HandIsClient
<1>4. /\ {"idle", "ids", "slot", "guid", "unassign"} \subseteq Stage
  BY DEF Stage, Removal
<1>5. CASE RemoveDrop(t)
  <2>1. targetOf' \in [Slot -> Client \union {None}]
    BY <1>3, <1>5, OnDropTypes DEF RemoveDrop, Types
  <2>2. missed' \subseteq Client BY <1>3, <1>5 DEF RemoveDrop, Types
  <2>3. again' \in BOOLEAN BY <1>5 DEF RemoveDrop, Types
  <2>4. Goto(t, hand[t], "ids") BY <1>5 DEF RemoveDrop
  <2>5. at' \in [Thread -> Stage] /\ hand' \in [Thread -> Client \union {None}]
    BY <1>3, <1>4, <2>4, GotoTypes
  <2> QED BY <1>5, <2>1, <2>2, <2>3, <2>5
          DEF RemoveDrop, Types, setVars, indexVars, queueVars
<1>6. CASE RemoveIds(t)
  <2>1. Goto(t, hand[t], "slot") BY <1>6 DEF RemoveIds
  <2>2. at' \in [Thread -> Stage] /\ hand' \in [Thread -> Client \union {None}]
    BY <1>3, <1>4, <2>1, GotoTypes
  <2> QED BY <1>6, <2>2 DEF RemoveIds, Types, setVars, queueVars, targetVars
<1>7. CASE RemoveSlot(t)
  <2>1. Goto(t, hand[t], "guid") BY <1>7 DEF RemoveSlot
  <2>2. at' \in [Thread -> Stage] /\ hand' \in [Thread -> Client \union {None}]
    BY <1>3, <1>4, <2>1, GotoTypes
  <2> QED BY <1>7, <2>2 DEF RemoveSlot, Types, setVars, queueVars, targetVars
<1>8. CASE RemoveGuid(t)
  <2>1. Goto(t, hand[t], "unassign") BY <1>8 DEF RemoveGuid
  <2>2. at' \in [Thread -> Stage] /\ hand' \in [Thread -> Client \union {None}]
    BY <1>3, <1>4, <2>1, GotoTypes
  <2> QED BY <1>8, <2>2 DEF RemoveGuid, Remaining, Types, setVars, queueVars, targetVars
<1>9. CASE RemoveEnd(t)
  <2>1. Goto(t, None, "idle") BY <1>9 DEF RemoveEnd, Finish
  <2>2. at' \in [Thread -> Stage] /\ hand' \in [Thread -> Client \union {None}]
    BY <1>4, <2>1, GotoTypes
  <2>3. slot' \in [Client -> Slot \union {-1}] BY <1>9 DEF RemoveEnd, Types
  <2> QED BY <1>9, <2>2, <2>3 DEF RemoveEnd, Types, setVars, queueVars, targetVars
<1> QED BY <1>1, <1>5, <1>6, <1>7, <1>8, <1>9

LEMMA ConnectionTypes ==
  ASSUME Types, ConnectionNext
  PROVE  Types'
<1>1. PICK c \in Client : MakeClient(c) \/ AllowClient(c) \/ RejectClient(c)
  BY DEF ConnectionNext
<1>2. CASE MakeClient(c)
  BY <1>2 DEF MakeClient, Types, threadVars, queueVars, targetVars
<1>3. CASE AllowClient(c)
  BY <1>3 DEF AllowClient, Types, indexVars, threadVars, queueVars, targetVars
<1>4. CASE RejectClient(c)
  <2>1. Remove("other", c, "drop") BY <1>4 DEF RejectClient
  <2>2. /\ at' \in [Thread -> Stage] /\ hand' \in [Thread -> Client \union {None}]
        /\ again' \in BOOLEAN
    BY <2>1, RemoveTypes DEF Thread, Removal
  <2> QED BY <1>4, <2>2 DEF RejectClient, Types, setVars, indexVars, queueVars
<1> QED BY <1>1, <1>2, <1>3, <1>4

LEMMA NetTypes ==
  ASSUME Types, ThreadInv, NetNext
  PROVE  Types'
<1> DEFINE ThreadTypes ==
      /\ at' \in [Thread -> Stage] /\ hand' \in [Thread -> Client \union {None}]
      /\ again' \in BOOLEAN
<1>1. "net" \in Thread BY DEF Thread
<1>2. {"idle", "assign", "pick", "check"} \subseteq Stage BY DEF Stage
<1>3. ASSUME NEW c \in Client, Remove("net", c, "drop") PROVE ThreadTypes
  BY <1>1, <1>3, RemoveTypes DEF Removal
<1>4. ASSUME NEW c \in Client \union {None}, again' = again,
             NEW stage \in {"idle", "assign", "pick", "check"}, Goto("net", c, stage)
      PROVE  ThreadTypes
  <2>1. stage \in Stage BY <1>2
  <2> QED BY <1>1, <1>4, <2>1, GotoTypes DEF Types
<1>5. at["net"] # "idle" => hand["net"] \in Client BY <1>1, HandIsClient
<1> HIDE DEF ThreadTypes
<1>6. ASSUME NEW c \in Client, HandshakeRefused(c) PROVE Types'
  <2>1. ThreadTypes BY <1>3, <1>6 DEF HandshakeRefused
  <2> QED BY <1>6, <2>1
          DEF HandshakeRefused, ThreadTypes, Types, setVars, indexVars, queueVars
<1>7. ASSUME NEW c \in Client, HandshakeAccepted(c) PROVE Types'
  <2>1. ThreadTypes BY <1>4, <1>7 DEF HandshakeAccepted, targetVars
  <2> QED BY <1>7, <2>1
      DEF HandshakeAccepted, ThreadTypes, Types, setVars, indexVars, queueVars, targetVars
<1>8. ASSUME NEW c \in Client, IQuit(c) PROVE Types'
  <2>1. [do |-> "quit", client |-> c] \in Callback BY DEF Callback
  <2>2. netQueue' \in Seq(Callback) BY <1>8, <2>1, AppendProperties DEF IQuit, Types
  <2> QED BY <1>8, <2>2
          DEF IQuit, Types, setVars, indexVars, threadVars, targetVars
<1>9. CASE AssignPeer
  <2>1. hand["net"] \in Client BY <1>5, <1>9 DEF AssignPeer
  <2>2. (IF NeedsSlot(hand["net"]) THEN "pick" ELSE "check") \in {"pick", "check"}
    OBVIOUS
  <2>3. ThreadTypes BY <1>4, <1>9, <2>1, <2>2 DEF AssignPeer, targetVars
  <2> QED BY <1>9, <2>1, <2>3
          DEF AssignPeer, ThreadTypes, Types, setVars, queueVars, targetVars
<1>10. CASE AssignSlot
  <2>1. hand["net"] \in Client BY <1>5, <1>10 DEF AssignSlot
  <2>2. ThreadTypes BY <1>4, <1>10, <2>1 DEF AssignSlot, targetVars
  <2>3. slot' \in [Client -> Slot \union {-1}] /\ bySlot' \in [Slot -> Client \union {None}]
    <3>1. FreeSlots # {} => HighestSlot \in Slot BY HighestSlotIs DEF FreeSlots
    <3> QED BY <1>10, <2>1, <3>1 DEF AssignSlot, Types
  <2> QED BY <1>10, <2>2, <2>3
          DEF AssignSlot, ThreadTypes, Types, setVars, queueVars, targetVars
<1>11. CASE HandshakeNoSlot
  <2>1. hand["net"] \in Client BY <1>5, <1>11 DEF HandshakeNoSlot
  <2>2. ThreadTypes BY <1>3, <1>11, <2>1 DEF HandshakeNoSlot
  <2> QED BY <1>11, <2>2
          DEF HandshakeNoSlot, ThreadTypes, Types, setVars, indexVars, queueVars
<1>12. CASE HandshakeNew
  <2> DEFINE c == hand["net"]
  <2>1. c \in Client BY <1>5, <1>12 DEF HandshakeNew
  <2>2. ThreadTypes BY <1>4, <1>12 DEF HandshakeNew, Finish, targetVars
  <2>3. [do |-> "connected", client |-> c] \in Callback BY <2>1 DEF Callback
  <2>4. netQueue' \in Seq(Callback)
    BY <1>12, <2>3, AppendProperties DEF HandshakeNew, Types
  <2>5. HandleConnectingClient(c) BY <1>12 DEF HandshakeNew
  <2> QED BY <1>12, <2>1, <2>2, <2>4, <2>5, HandleConnectingTypes
          DEF HandshakeNew, ThreadTypes, Types, setVars, targetVars
<1>13. CASE HandshakeAgain
  <2>1. ThreadTypes BY <1>4, <1>13 DEF HandshakeAgain, Finish, targetVars
  <2> QED BY <1>13, <2>1
      DEF HandshakeAgain, ThreadTypes, Types, setVars, indexVars, queueVars, targetVars
<1> QED BY <1>6, <1>7, <1>8, <1>9, <1>10, <1>11, <1>12, <1>13 DEF NetNext

LEMMA DropTypes ==
  ASSUME Types, ThreadInv, DropNext
  PROVE  Types'
<1>1. "main" \in Thread /\ {"net", "other"} \subseteq Thread BY DEF Thread
<1>2. "signal" \in Removal /\ {"ask", "ids", "idle"} \subseteq Stage BY DEF Removal, Stage
<1>3. ASSUME NEW c \in Client, Remove("main", c, "signal")
      PROVE  /\ at' \in [Thread -> Stage] /\ hand' \in [Thread -> Client \union {None}]
             /\ again' \in BOOLEAN
  BY <1>1, <1>2, <1>3, RemoveTypes
<1>4. ASSUME NEW c \in Client, DropOnMain(c) PROVE Types'
  BY <1>3, <1>4 DEF DropOnMain, DropHere, Types, indexVars, queueVars
<1>5. ASSUME NEW c \in Client, RunDrop(c) PROVE Types'
  BY <1>3, <1>5 DEF RunDrop, Types, setVars, indexVars
<1>6. ASSUME NEW t \in Thread, NEW c \in Client, DropAsked(t, c) PROVE Types'
  <2>1. at' \in [Thread -> Stage] /\ hand' \in [Thread -> Client \union {None}]
    BY <1>2, <1>6, GotoTypes DEF DropAsked
  <2> QED BY <1>6, <2>1 DEF DropAsked, Types, setVars, indexVars, queueVars, targetVars
<1>7. ASSUME NEW t \in Thread, DropQueued(t) PROVE Types'
  <2>1. hand[t] \in Client BY <1>7, HandIsClient DEF DropQueued
  <2>2. at' \in [Thread -> Stage] /\ hand' \in [Thread -> Client \union {None}]
    BY <1>2, <1>7, GotoTypes DEF DropQueued, Finish
  <2> QED BY <1>7, <2>1, <2>2 DEF DropQueued, Types, indexVars, targetVars
<1>8. CASE DropClientInternal
  <2>1. hand["main"] \in Client BY <1>1, <1>8, HandIsClient DEF DropClientInternal
  <2>2. at' \in [Thread -> Stage] /\ hand' \in [Thread -> Client \union {None}]
    BY <1>1, <1>2, <1>8, <2>1, GotoTypes DEF DropClientInternal
  <2>3. targetOf' \in [Slot -> Client \union {None}]
    BY <1>8, <2>1, OnDropTypes DEF DropClientInternal
  <2> QED BY <1>8, <2>2, <2>3
          DEF DropClientInternal, Types, setVars, indexVars, queueVars
<1> QED BY <1>1, <1>4, <1>5, <1>6, <1>7, <1>8 DEF DropNext

LEMMA CallbackTypes ==
  ASSUME Types, ThreadInv, CallbackNext
  PROVE  Types'
<1>1. "main" \in Thread BY DEF Thread
<1>2. "signal" \in Removal /\ {"register", "connect", "idle"} \subseteq Stage
  BY DEF Removal, Stage
<1>3. ASSUME NEW c \in Client, Remove("main", c, "signal")
      PROVE  /\ at' \in [Thread -> Stage] /\ hand' \in [Thread -> Client \union {None}]
             /\ again' \in BOOLEAN
  BY <1>1, <1>2, <1>3, RemoveTypes
<1> DEFINE head == Head(netQueue).client
<1>4. CASE RunQuit
  <2>1. head \in Client /\ netQueue' \in Seq(Callback)
    BY <1>4, TakeTypes, HeadIsClient DEF RunQuit
  <2>2. CASE head \in dropping
    BY <1>4, <2>1, <2>2 DEF RunQuit, Types, indexVars, threadVars
  <2>3. CASE head \notin dropping
    BY <1>3, <1>4, <2>1, <2>3 DEF RunQuit, DropHere, Types, indexVars
  <2> QED BY <2>2, <2>3
<1>5. CASE HandleConnectedClient
  <2>1. head \in Client /\ netQueue' \in Seq(Callback)
    BY <1>5, TakeTypes, HeadIsClient DEF HandleConnectedClient
  <2>2. joins' \in [Client -> Nat]
    BY <1>5, <2>1, AnnounceTypes DEF HandleConnectedClient
  <2>3. at' \in [Thread -> Stage] /\ hand' \in [Thread -> Client \union {None}]
    BY <1>1, <1>2, <1>5, <2>1, GotoTypes DEF HandleConnectedClient, threadVars, Types
  <2> QED BY <1>5, <2>1, <2>2, <2>3
          DEF HandleConnectedClient, Types, setVars, indexVars, targetVars
<1>6. CASE HandleConnectedDropped
  <2>1. head \in Client /\ netQueue' \in Seq(Callback)
    BY <1>6, TakeTypes, HeadIsClient DEF HandleConnectedDropped
  <2>2. joins' \in [Client -> Nat]
    BY <1>6, <2>1, AnnounceTypes DEF HandleConnectedDropped
  <2> QED BY <1>3, <1>6, <2>1, <2>2 DEF HandleConnectedDropped, DropHere, Types, indexVars
<1>7. CASE RegisterTarget
  <2>1. hand["main"] \in Client BY <1>1, <1>7, HandIsClient DEF RegisterTarget
  <2>2. at' \in [Thread -> Stage] /\ hand' \in [Thread -> Client \union {None}]
    BY <1>1, <1>2, <1>7, <2>1, GotoTypes DEF RegisterTarget
  <2>3. targetOf' \in [Slot -> Client \union {None}]
    BY <1>7, <2>1 DEF RegisterTarget, Types
  <2> QED BY <1>7, <2>2, <2>3 DEF RegisterTarget, Types, setVars, indexVars, queueVars
<1>8. CASE ConnectOnDrop
  <2>1. hand["main"] \in Client BY <1>1, <1>8, HandIsClient DEF ConnectOnDrop
  <2>2. at' \in [Thread -> Stage] /\ hand' \in [Thread -> Client \union {None}]
    BY <1>1, <1>2, <1>8, GotoTypes DEF ConnectOnDrop, Finish
  <2> QED BY <1>8, <2>1, <2>2
          DEF ConnectOnDrop, Types, indexVars, queueVars, targetVars
<1> QED BY <1>4, <1>5, <1>6, <1>7, <1>8 DEF CallbackNext

LEMMA TypesNext ==
  ASSUME Types, ThreadInv, [Next]_vars
  PROVE  Types'
<1>1. CASE UNCHANGED vars
  BY <1>1 DEF vars, Types, setVars, indexVars, threadVars, queueVars, targetVars
<1> QED
  BY <1>1, ConnectionTypes, RemovalTypes, NetTypes, DropTypes, CallbackTypes DEF Next

---------------------------------------------------------------------------
(* Whoever the registry knows of has been made.                            *)

SetsMade ==
  /\ registered \subseteq made /\ dropping \subseteq made /\ connected \subseteq made
  /\ dropQueue \subseteq made /\ peered \subseteq made

TablesMade ==
  /\ \A c \in Client : netId[c] # 0 => c \in made
  /\ \A s \in Slot : bySlot[s] # None => bySlot[s] \in made

QueueMade == \A i \in 1 .. Len(netQueue) : netQueue[i].client \in made

MadeInv == ThreadInv /\ SetsMade /\ TablesMade /\ QueueMade

\* What an addition to the queue and its head leave in it.
LEMMA QueueAppended ==
  ASSUME Types, NEW k \in Callback, netQueue' = Append(netQueue, k)
  PROVE  /\ Len(netQueue') = Len(netQueue) + 1
         /\ \A i \in 1 .. Len(netQueue') :
              IF i = Len(netQueue) + 1 THEN netQueue'[i] = k
              ELSE i \in 1 .. Len(netQueue) /\ netQueue'[i] = netQueue[i]
  BY AppendProperties DEF Types

LEMMA QueueTaken ==
  ASSUME Types, NEW what, Take(what)
  PROVE  /\ Len(netQueue) > 0
         /\ netQueue[1] = Head(netQueue)
         /\ Len(netQueue') = Len(netQueue) - 1
         /\ \A i \in 1 .. Len(netQueue') :
              i + 1 \in 1 .. Len(netQueue) /\ netQueue'[i] = netQueue[i + 1]
<1>1. netQueue \in Seq(Callback) /\ netQueue # <<>> /\ netQueue' = Tail(netQueue)
  BY DEF Take, Types
<1>2. Len(netQueue) \in Nat /\ Len(netQueue) > 0 BY <1>1, EmptySeq, LenProperties
<1>3. netQueue[1] = Head(netQueue) BY <1>1, <1>2
<1>4. Len(netQueue') = Len(netQueue) - 1 BY <1>1, HeadTailProperties
<1>5. \A i \in 1 .. Len(netQueue') : netQueue'[i] = netQueue[i + 1]
  BY <1>1, HeadTailProperties
<1> QED BY <1>2, <1>3, <1>4, <1>5

LEMMA HeadMade ==
  ASSUME Types, QueueMade, NEW what, Take(what)
  PROVE  /\ Head(netQueue).client \in made
         /\ made' = made => QueueMade'
<1>1. Len(netQueue) \in Nat /\ Len(netQueue) > 0
  BY QueueTaken, LenProperties DEF Types
<1>2. Head(netQueue).client \in made BY <1>1, QueueTaken DEF QueueMade
<1> QED BY <1>2, QueueTaken DEF QueueMade

LEMMA ThreadMade ==
  ASSUME Types, ThreadInv, NEW t \in Thread, NEW c, NEW stage, Goto(t, c, stage),
         c \in made \/ stage = "idle", made' = made
  PROVE  ThreadInv'
  BY GotoIs DEF ThreadInv

LEMMA MadeNext ==
  ASSUME Types, MadeInv, [Next]_vars
  PROVE  MadeInv'
<1> USE DEF SetsMade, TablesMade
<1>1. "main" \in Thread /\ "net" \in Thread /\ "other" \in Thread BY DEF Thread
<1>2. ASSUME NEW t \in Thread, NEW c \in made, NEW stage, Remove(t, c, stage),
             made' = made
      PROVE  ThreadInv'
  BY <1>2, RemoveIs, ThreadMade DEF MadeInv
<1>3. ASSUME netQueue' = netQueue, made \subseteq made' PROVE QueueMade'
  BY <1>3 DEF QueueMade, MadeInv
<1>4. ConnectionNext => MadeInv'
  <2>1. ASSUME NEW c \in Client, MakeClient(c) PROVE MadeInv'
    BY <1>3, <2>1
    DEF MadeInv, ThreadInv, MakeClient, threadVars, queueVars
  <2>2. ASSUME NEW c \in Client, AllowClient(c) PROVE MadeInv'
    BY <1>3, <2>2
    DEF MadeInv, ThreadInv, AllowClient, indexVars, threadVars, queueVars
  <2>3. ASSUME NEW c \in Client, RejectClient(c) PROVE MadeInv'
    BY <1>1, <1>2, <1>3, <2>3 DEF MadeInv, RejectClient, setVars, indexVars, queueVars
  <2> QED BY <2>1, <2>2, <2>3 DEF ConnectionNext
<1>5. RemovalNext => MadeInv'
  <2> SUFFICES ASSUME NEW t \in Thread,
                      RemoveDrop(t) \/ RemoveIds(t) \/ RemoveSlot(t) \/ RemoveGuid(t)
                        \/ RemoveEnd(t)
               PROVE  MadeInv'
    BY DEF RemovalNext
  <2>1. CASE RemoveDrop(t)
    <3>1. hand[t] \in made BY <2>1, HandIsClient DEF RemoveDrop, MadeInv
    <3> QED BY <1>3, <2>1, <3>1, ThreadMade
            DEF MadeInv, RemoveDrop, setVars, indexVars, queueVars
  <2>2. CASE RemoveIds(t)
    <3>1. hand[t] \in made BY <2>2, HandIsClient DEF RemoveIds, MadeInv
    <3> QED BY <1>3, <2>2, <3>1, ThreadMade
            DEF MadeInv, RemoveIds, setVars, queueVars
  <2>3. CASE RemoveSlot(t)
    <3>1. hand[t] \in made BY <2>3, HandIsClient DEF RemoveSlot, MadeInv
    <3> QED BY <1>3, <2>3, <3>1, ThreadMade
            DEF MadeInv, RemoveSlot, setVars, queueVars
  <2>4. CASE RemoveGuid(t)
    <3>1. hand[t] \in made BY <2>4, HandIsClient DEF RemoveGuid, MadeInv
    <3> QED BY <1>3, <2>4, <3>1, ThreadMade
            DEF MadeInv, RemoveGuid, Remaining, setVars, queueVars
  <2>5. CASE RemoveEnd(t)
    BY <1>3, <2>5, ThreadMade DEF MadeInv, RemoveEnd, Finish, setVars, queueVars
  <2> QED BY <2>1, <2>2, <2>3, <2>4, <2>5
<1>6. NetNext => MadeInv'
  <2>0. at["net"] # "idle" => hand["net"] \in made /\ hand["net"] \in Client
    BY <1>1, HandIsClient DEF MadeInv
  <2>1. ASSUME NEW c \in Client, HandshakeRefused(c) PROVE MadeInv'
    BY <1>1, <1>2, <1>3, <2>1
    DEF MadeInv, HandshakeRefused, setVars, indexVars, queueVars
  <2>2. ASSUME NEW c \in Client, HandshakeAccepted(c) PROVE MadeInv'
    BY <1>1, <1>3, <2>2, ThreadMade
    DEF MadeInv, HandshakeAccepted, setVars, indexVars, queueVars
  <2>3. ASSUME NEW c \in Client, IQuit(c) PROVE MadeInv'
    <3> DEFINE k == [do |-> "quit", client |-> c]
    <3>1. k \in Callback /\ k.client = c BY DEF Callback
    <3>2. netQueue' = Append(netQueue, k) /\ made' = made /\ c \in made
      BY <2>3 DEF IQuit, setVars, MadeInv
    <3> HIDE DEF k
    <3>3. QueueMade' BY <3>1, <3>2, QueueAppended DEF QueueMade, MadeInv
    <3> QED BY <2>3, <3>3 DEF MadeInv, ThreadInv, IQuit, setVars, indexVars, threadVars
  <2>4. CASE AssignPeer
    BY <1>1, <1>3, <2>0, <2>4, ThreadMade
    DEF MadeInv, AssignPeer, setVars, queueVars
  <2>5. CASE AssignSlot
    <3>1. \A s \in Slot : bySlot'[s] # None => bySlot'[s] \in made
      BY <2>0, <2>5 DEF AssignSlot, Types, MadeInv
    <3> QED BY <1>1, <1>3, <2>0, <2>5, <3>1, ThreadMade
            DEF MadeInv, AssignSlot, setVars, queueVars
  <2>6. CASE HandshakeNoSlot
    BY <1>1, <1>2, <1>3, <2>0, <2>6
    DEF MadeInv, HandshakeNoSlot, setVars, indexVars, queueVars
  <2>7. CASE HandshakeNew
    <3> DEFINE k == [do |-> "connected", client |-> hand["net"]]
    <3>1. hand["net"] \in made /\ hand["net"] \in Client BY <2>0, <2>7 DEF HandshakeNew
    <3>2. k \in Callback /\ k.client \in made BY <3>1 DEF Callback
    <3>3. netQueue' = Append(netQueue, k) /\ made' = made BY <2>7 DEF HandshakeNew, setVars
    <3> HIDE DEF k
    <3>4. QueueMade' BY <3>2, <3>3, QueueAppended DEF QueueMade, MadeInv
    <3>5. \A c \in Client : netId'[c] # 0 => netId[c] # 0 \/ c = hand["net"]
      BY <2>7, <3>1 DEF HandshakeNew, HandleConnectingClient, Types
    <3> QED BY <1>1, <2>7, <3>1, <3>4, <3>5, ThreadMade
            DEF MadeInv, HandshakeNew, HandleConnectingClient, Finish, setVars
  <2>8. CASE HandshakeAgain
    BY <1>1, <1>3, <2>8, ThreadMade
    DEF MadeInv, HandshakeAgain, Finish, setVars, indexVars, queueVars
  <2> QED BY <2>1, <2>2, <2>3, <2>4, <2>5, <2>6, <2>7, <2>8 DEF NetNext
<1>7. DropNext => MadeInv'
  <2>1. ASSUME NEW c \in Client, DropOnMain(c) PROVE MadeInv'
    BY <1>1, <1>2, <1>3, <2>1
    DEF MadeInv, DropOnMain, DropHere, indexVars, queueVars
  <2>2. ASSUME NEW c \in Client, RunDrop(c) PROVE MadeInv'
    BY <1>1, <1>2, <1>3, <2>2 DEF MadeInv, RunDrop, setVars, indexVars
  <2>3. ASSUME NEW t \in Thread, NEW c \in Client, DropAsked(t, c) PROVE MadeInv'
    BY <1>3, <2>3, ThreadMade DEF MadeInv, DropAsked, setVars, indexVars, queueVars
  <2>4. ASSUME NEW t \in Thread, DropQueued(t) PROVE MadeInv'
    <3>1. hand[t] \in made BY <2>4, HandIsClient DEF DropQueued, MadeInv
    <3> QED BY <1>3, <2>4, <3>1, ThreadMade DEF MadeInv, DropQueued, Finish, indexVars
  <2>5. CASE DropClientInternal
    <3>1. hand["main"] \in made BY <1>1, <2>5, HandIsClient DEF DropClientInternal, MadeInv
    <3> QED BY <1>1, <1>3, <2>5, <3>1, ThreadMade
            DEF MadeInv, DropClientInternal, setVars, indexVars, queueVars
  <2> QED BY <1>1, <2>1, <2>2, <2>3, <2>4, <2>5 DEF DropNext
<1>8. RegisterTarget \/ ConnectOnDrop => MadeInv'
  <2>1. at["main"] # "idle" => hand["main"] \in made BY <1>1, HandIsClient DEF MadeInv
  <2>2. CASE RegisterTarget
    BY <1>1, <1>3, <2>1, <2>2, ThreadMade
    DEF MadeInv, RegisterTarget, setVars, indexVars, queueVars
  <2>3. CASE ConnectOnDrop
    BY <1>1, <1>3, <2>1, <2>3, ThreadMade
    DEF MadeInv, ConnectOnDrop, Finish, indexVars, queueVars
  <2> QED BY <2>2, <2>3
<1>9. RunQuit => MadeInv'
  <2> SUFFICES ASSUME RunQuit PROVE MadeInv' OBVIOUS
  <2> DEFINE c == Head(netQueue).client
  <2>1. c \in made /\ QueueMade' BY HeadMade DEF RunQuit, MadeInv
  <2>2. CASE c \in dropping
    BY <2>1, <2>2 DEF MadeInv, ThreadInv, RunQuit, indexVars, threadVars
  <2>3. CASE c \notin dropping
    <3>1. ThreadInv' BY <1>1, <1>2, <2>1, <2>3 DEF RunQuit, DropHere
    <3> QED BY <2>1, <2>3, <3>1 DEF MadeInv, RunQuit, DropHere, indexVars
  <2> QED BY <2>2, <2>3
<1>10. HandleConnectedClient => MadeInv'
  <2> SUFFICES ASSUME HandleConnectedClient PROVE MadeInv' OBVIOUS
  <2> DEFINE c == Head(netQueue).client
  <2>1. c \in made /\ QueueMade'
    BY HeadMade DEF HandleConnectedClient, MadeInv, setVars
  <2>2. CASE Goto("main", c, "register")
    BY <1>1, <2>1, <2>2, ThreadMade
    DEF MadeInv, HandleConnectedClient, setVars, indexVars
  <2>3. CASE UNCHANGED threadVars
    BY <2>1, <2>3
    DEF MadeInv, ThreadInv, HandleConnectedClient, setVars, indexVars, threadVars
  <2> QED BY <2>2, <2>3 DEF HandleConnectedClient
<1>11. HandleConnectedDropped => MadeInv'
  <2> SUFFICES ASSUME HandleConnectedDropped PROVE MadeInv' OBVIOUS
  <2> DEFINE c == Head(netQueue).client
  <2>1. c \in made /\ QueueMade' BY HeadMade DEF HandleConnectedDropped, MadeInv
  <2>2. ThreadInv' BY <1>1, <1>2, <2>1 DEF HandleConnectedDropped, DropHere
  <2> QED BY <2>1, <2>2 DEF MadeInv, HandleConnectedDropped, DropHere, indexVars
<1>12. CASE UNCHANGED vars
  BY <1>3, <1>12
  DEF MadeInv, ThreadInv, vars, setVars, indexVars, threadVars, queueVars
<1> QED
  BY <1>4, <1>5, <1>6, <1>7, <1>8, <1>9, <1>10, <1>11, <1>12 DEF Next, CallbackNext

---------------------------------------------------------------------------
(* Removals.  A client that loses its slot id has left the registry; and   *)
(* as long as none was removed again, a client is removed by one thread,   *)
(* and is in the registry until that thread takes it out.                  *)

RemovalInv ==
  /\ \A t \in Thread : at[t] = "unassign" => hand[t] \notin registered
  /\ ~again =>
       \A t \in Thread :
         /\ at[t] \in Removal \ {"unassign"} => hand[t] \in registered
         /\ \A u \in Thread \ {t} :
              at[t] \in Removal /\ at[u] \in Removal => hand[t] # hand[u]

LEMMA RemovalInvNext ==
  ASSUME Types, MadeInv, RemovalInv, [Next]_vars
  PROVE  RemovalInv'
<1>1. "main" \in Thread /\ "net" \in Thread /\ "other" \in Thread BY DEF Thread
<1>2. ASSUME NEW t \in Thread, NEW c, NEW stage, Goto(t, c, stage),
             stage \notin Removal, UNCHANGED <<registered, again>>
      PROVE  RemovalInv'
  BY <1>2, GotoIs DEF RemovalInv, Removal
<1>3. ASSUME NEW t \in Thread, NEW c \in Client, NEW stage \in {"signal", "drop"},
             Remove(t, c, stage), registered' = registered
      PROVE  RemovalInv'
  <2>1. Goto(t, c, stage) BY <1>3, RemoveIs
  <2>2. \A u \in Thread \ {t} : at'[u] = at[u] /\ hand'[u] = hand[u]
    BY <2>1, GotoIs
  <2>3. at'[t] = stage /\ hand'[t] = c BY <2>1, GotoIs
  <2>4. ~again' => ~again /\ c \in registered /\ ~Removing(c) BY <1>3, RemoveIs
  <2> QED BY <1>3, <2>2, <2>3, <2>4 DEF RemovalInv, Removing, Removal
<1>4. ASSUME NEW t \in Thread, NEW stage \in Removal, Goto(t, hand[t], stage),
             at[t] \in Removal \ {"unassign"}, ~again' => ~again,
             IF stage = "unassign" THEN registered' = registered \ {hand[t]}
             ELSE registered' = registered
      PROVE  RemovalInv'
  <2>1. \A u \in Thread \ {t} : at'[u] = at[u] /\ hand'[u] = hand[u]
    BY <1>4, GotoIs
  <2>2. at'[t] = stage /\ hand'[t] = hand[t] BY <1>4, GotoIs
  <2>3. registered' \subseteq registered BY <1>4
  <2>4. \A u \in Thread : at'[u] = "unassign" => hand'[u] \notin registered'
    BY <1>4, <2>1, <2>2, <2>3 DEF RemovalInv
  <2>5. ASSUME ~again'
        PROVE  \A v \in Thread : \A u \in Thread \ {v} :
                 at'[v] \in Removal /\ at'[u] \in Removal => hand'[v] # hand'[u]
    BY <1>4, <2>1, <2>2, <2>5 DEF RemovalInv
  <2>6. ASSUME ~again', NEW u \in Thread, at'[u] \in Removal \ {"unassign"}
        PROVE  hand'[u] \in registered'
    <3>1. CASE u = t BY <1>4, <2>2, <2>6, <3>1 DEF RemovalInv
    <3>2. CASE u # t
      <4>1. hand[u] \in registered /\ hand[u] # hand[t]
        BY <1>4, <2>1, <2>6, <3>2 DEF RemovalInv
      <4> QED BY <1>4, <2>1, <3>2, <4>1
    <3> QED BY <3>1, <3>2
  <2> QED BY <2>4, <2>5, <2>6 DEF RemovalInv
<1>5. CASE UNCHANGED <<at, hand, registered, again>> BY <1>5 DEF RemovalInv
<1>6. ConnectionNext => RemovalInv'
  <2>1. ASSUME NEW c \in Client, MakeClient(c) PROVE RemovalInv'
    <3>1. /\ UNCHANGED <<at, hand, again>>
          /\ registered' = registered \union {c} /\ c \notin made
      BY <2>1 DEF MakeClient, threadVars, targetVars
    <3>2. \A t \in Thread : at[t] = "unassign" => hand[t] # c
      BY <3>1 DEF MadeInv, ThreadInv
    <3> QED BY <3>1, <3>2 DEF RemovalInv
  <2>2. ASSUME NEW c \in Client, AllowClient(c) PROVE RemovalInv'
    BY <1>5, <2>2 DEF AllowClient, indexVars, threadVars, targetVars
  <2>3. ASSUME NEW c \in Client, RejectClient(c) PROVE RemovalInv'
    BY <1>1, <1>3, <2>3 DEF RejectClient, indexVars
  <2> QED BY <2>1, <2>2, <2>3 DEF ConnectionNext
<1>7. RemovalNext => RemovalInv'
  <2> SUFFICES ASSUME NEW t \in Thread,
                      RemoveDrop(t) \/ RemoveIds(t) \/ RemoveSlot(t) \/ RemoveGuid(t)
                        \/ RemoveEnd(t)
               PROVE  RemovalInv'
    BY DEF RemovalNext
  <2>1. CASE RemoveDrop(t)
    <3>1. ~again' => ~again BY <2>1 DEF RemoveDrop
    <3> QED BY <1>4, <2>1, <3>1 DEF RemoveDrop, Removal, indexVars
  <2>2. CASE RemoveIds(t) BY <1>4, <2>2 DEF RemoveIds, Removal, targetVars
  <2>3. CASE RemoveSlot(t) BY <1>4, <2>3 DEF RemoveSlot, Removal, targetVars
  <2>4. CASE RemoveGuid(t)
    BY <1>4, <2>4 DEF RemoveGuid, Remaining, Removal, targetVars
  <2>5. CASE RemoveEnd(t) BY <1>2, <2>5 DEF RemoveEnd, Finish, Removal, targetVars
  <2> QED BY <2>1, <2>2, <2>3, <2>4, <2>5
<1>8. NetNext => RemovalInv'
  <2>0. at["net"] # "idle" => hand["net"] \in Client
    BY <1>1, HandIsClient DEF MadeInv
  <2>1. ASSUME NEW c \in Client, HandshakeRefused(c) PROVE RemovalInv'
    BY <1>1, <1>3, <2>1 DEF HandshakeRefused, indexVars
  <2>2. ASSUME NEW c \in Client, HandshakeAccepted(c) PROVE RemovalInv'
    BY <1>1, <1>2, <2>2 DEF HandshakeAccepted, Removal, indexVars, targetVars
  <2>3. ASSUME NEW c \in Client, IQuit(c) PROVE RemovalInv'
    BY <1>5, <2>3 DEF IQuit, indexVars, threadVars, targetVars
  <2>4. CASE AssignPeer
    <3>1. (IF NeedsSlot(hand["net"]) THEN "pick" ELSE "check") \notin Removal
      BY DEF Removal
    <3> QED BY <1>1, <1>2, <2>4, <3>1 DEF AssignPeer, targetVars
  <2>5. CASE AssignSlot BY <1>1, <1>2, <2>5 DEF AssignSlot, Removal, targetVars
  <2>6. CASE HandshakeNoSlot
    BY <1>1, <1>3, <2>0, <2>6 DEF HandshakeNoSlot, indexVars
  <2>7. CASE HandshakeNew
    BY <1>1, <1>2, <2>7 DEF HandshakeNew, Finish, Removal, targetVars
  <2>8. CASE HandshakeAgain
    BY <1>1, <1>2, <2>8 DEF HandshakeAgain, Finish, Removal, indexVars, targetVars
  <2> QED BY <2>1, <2>2, <2>3, <2>4, <2>5, <2>6, <2>7, <2>8 DEF NetNext
<1>9. DropNext => RemovalInv'
  <2>1. ASSUME NEW c \in Client, DropOnMain(c) PROVE RemovalInv'
    BY <1>1, <1>3, <2>1 DEF DropOnMain, DropHere, indexVars
  <2>2. ASSUME NEW c \in Client, RunDrop(c) PROVE RemovalInv'
    BY <1>1, <1>3, <2>2 DEF RunDrop, indexVars
  <2>3. ASSUME NEW t \in Thread, NEW c \in Client, DropAsked(t, c) PROVE RemovalInv'
    BY <1>2, <2>3 DEF DropAsked, Removal, indexVars, targetVars
  <2>4. ASSUME NEW t \in Thread, DropQueued(t) PROVE RemovalInv'
    BY <1>2, <2>4 DEF DropQueued, Finish, Removal, indexVars, targetVars
  <2>5. CASE DropClientInternal
    <3>1. at["main"] \in Removal \ {"unassign"} /\ "ids" \in Removal /\ "ids" # "unassign"
      BY <2>5 DEF DropClientInternal, Removal
    <3>2. Goto("main", hand["main"], "ids") /\ UNCHANGED <<registered, again>>
      BY <2>5 DEF DropClientInternal, indexVars
    <3> QED BY <1>1, <1>4, <3>1, <3>2
  <2> QED BY <1>1, <2>1, <2>2, <2>3, <2>4, <2>5 DEF DropNext
<1>10. CallbackNext => RemovalInv'
  <2> DEFINE c == Head(netQueue).client
  <2>1. CASE RunQuit
    <3>1. c \in Client BY <2>1, HeadIsClient DEF RunQuit
    <3>2. CASE c \in dropping
      BY <1>5, <2>1, <3>2 DEF RunQuit, indexVars, threadVars
    <3>3. CASE c \notin dropping
      BY <1>1, <1>3, <2>1, <3>1, <3>3 DEF RunQuit, DropHere, indexVars
    <3> QED BY <3>2, <3>3
  <2>2. CASE HandleConnectedClient
    <3>1. CASE Goto("main", c, "register")
      BY <1>1, <1>2, <2>2, <3>1
      DEF HandleConnectedClient, Removal, indexVars, targetVars
    <3>2. CASE UNCHANGED threadVars
      BY <1>5, <2>2, <3>2 DEF HandleConnectedClient, indexVars, threadVars, targetVars
    <3> QED BY <2>2, <3>1, <3>2 DEF HandleConnectedClient
  <2>3. CASE HandleConnectedDropped
    <3>1. c \in Client BY <2>3, HeadIsClient DEF HandleConnectedDropped
    <3> QED BY <1>1, <1>3, <2>3, <3>1 DEF HandleConnectedDropped, DropHere, indexVars
  <2>4. CASE RegisterTarget
    BY <1>1, <1>2, <2>4 DEF RegisterTarget, Removal, indexVars
  <2>5. CASE ConnectOnDrop
    BY <1>1, <1>2, <2>5 DEF ConnectOnDrop, Finish, Removal, indexVars, targetVars
  <2> QED BY <2>1, <2>2, <2>3, <2>4, <2>5 DEF CallbackNext
<1>11. CASE UNCHANGED vars
  BY <1>5, <1>11 DEF vars, indexVars, threadVars, targetVars
<1> QED BY <1>6, <1>7, <1>8, <1>9, <1>10, <1>11 DEF Next

---------------------------------------------------------------------------
(* Slots.                                                                  *)

Emptied == {"guid", "unassign"}

\* The net thread looks for a slot for a client that has none.
PickInv == at["net"] = "pick" => slot[hand["net"]] = -1

SlotsInv == SlotsOwned /\ PickInv

\* A thread goes on, and empties no entry.
LEMMA SlotsStay ==
  ASSUME Types, SlotsInv, NEW t \in Thread, NEW c, NEW stage, Goto(t, c, stage),
         at[t] \in Emptied => stage \in Emptied /\ c = hand[t],
         stage = "pick" => slot[c] = -1,
         UNCHANGED <<slot, bySlot>>, registered' \subseteq registered,
         ~again' => ~again
  PROVE  SlotsInv'
<1>1. at'[t] = stage /\ hand'[t] = c BY GotoIs
<1>2. \A u \in Thread \ {t} : at'[u] = at[u] /\ hand'[u] = hand[u] BY GotoIs
<1>3. PickInv'
  <2>1. "net" \in Thread BY DEF Thread
  <2> QED BY <1>1, <1>2, <2>1 DEF SlotsInv, PickInv
<1>4. \A s \in Slot : bySlot'[s] \in registered' => slot'[bySlot'[s]] = s
  BY DEF SlotsInv, SlotsOwned
<1>5. ASSUME NEW d \in Client, Past(d, Emptied) PROVE Past(d, Emptied)'
  <2>1. PICK u \in Thread : hand[u] = d /\ at[u] \in Emptied BY <1>5 DEF Past
  <2>2. hand'[u] = d /\ at'[u] \in Emptied BY <1>1, <1>2, <2>1
  <2> QED BY <2>2 DEF Past
<1>6. ASSUME ~again', NEW d \in Client, slot'[d] # -1, ~Past(d, Emptied)'
      PROVE  bySlot'[slot'[d]] = d
  <2>1. ~Past(d, Emptied) BY <1>5, <1>6
  <2> QED BY <1>6, <2>1 DEF SlotsInv, SlotsOwned, Emptied
<1> QED BY <1>3, <1>4, <1>6 DEF SlotsInv, SlotsOwned, Emptied

LEMMA SlotsReset ==
  ASSUME Types, MadeInv, RemovalInv, SlotsInv, NEW t \in Thread, RemoveSlot(t)
  PROVE  SlotsInv'
<1> DEFINE c == hand[t]
<1>1. c \in Client BY HandIsClient DEF RemoveSlot, MadeInv
<1>2. at'[t] = "guid" /\ hand'[t] = c BY GotoIs DEF RemoveSlot
<1>3. \A u \in Thread \ {t} : at'[u] = at[u] /\ hand'[u] = hand[u]
  BY GotoIs DEF RemoveSlot
<1>4. /\ bySlot' = [s \in Slot |-> IF s = slot[c] THEN None ELSE bySlot[s]]
      /\ UNCHANGED <<slot, registered, again>> /\ at[t] = "slot"
  BY DEF RemoveSlot, targetVars
<1>5. PickInv'
  <2>1. "net" \in Thread BY DEF Thread
  <2> QED BY <1>2, <1>3, <1>4, <2>1 DEF SlotsInv, PickInv
<1>6. \A s \in Slot : bySlot'[s] \in registered' => slot'[bySlot'[s]] = s
  <2>1. None \notin registered BY ConstantsAssumption DEF Types
  <2> QED BY <1>4, <2>1 DEF SlotsInv, SlotsOwned
<1>7. ASSUME ~again', NEW d \in Client, slot'[d] # -1, ~Past(d, Emptied)'
      PROVE  bySlot'[slot'[d]] = d
  <2>1. d # c
    <3>1. d = c => Past(d, Emptied)' BY <1>2 DEF Past, Emptied
    <3> QED BY <1>7, <3>1
  <2>2. ~Past(d, Emptied)
    <3> SUFFICES ASSUME NEW u \in Thread, hand[u] = d, at[u] \in Emptied PROVE FALSE
      BY DEF Past
    <3>1. hand'[u] = d /\ at'[u] \in Emptied BY <1>3, <1>4 DEF Emptied
    <3> QED BY <1>7, <3>1 DEF Past
  <2>3. bySlot[slot[d]] = d /\ slot[d] \in Slot
    BY <1>4, <1>7, <2>2 DEF SlotsInv, SlotsOwned, Emptied, Types
  <2>4. slot[d] # slot[c]
    <3> SUFFICES ASSUME slot[d] = slot[c] PROVE FALSE OBVIOUS
    <3>1. ~Past(c, Emptied)
      <4> SUFFICES ASSUME NEW u \in Thread, hand[u] = c, at[u] \in Emptied PROVE FALSE
        BY DEF Past
      <4>1. u # t BY <1>4 DEF Emptied
      <4>2. at[t] \in Removal /\ at[u] \in Removal BY <1>4 DEF Emptied, Removal
      <4> QED BY <1>4, <1>7, <4>1, <4>2 DEF RemovalInv
    <3>2. bySlot[slot[c]] = c
      BY <1>1, <1>4, <1>7, <3>1 DEF SlotsInv, SlotsOwned, Emptied
    <3> QED BY <2>1, <2>3, <3>2
  <2> QED BY <1>4, <2>3, <2>4
<1> QED BY <1>5, <1>6, <1>7 DEF SlotsInv, SlotsOwned, Emptied

LEMMA SlotsUnassigned ==
  ASSUME Types, MadeInv, RemovalInv, SlotsInv, NEW t \in Thread, RemoveEnd(t)
  PROVE  SlotsInv'
<1> DEFINE c == hand[t]
<1>1. c \in Client BY HandIsClient DEF RemoveEnd, MadeInv
<1>2. at'[t] = "idle" /\ hand'[t] = None BY GotoIs DEF RemoveEnd, Finish
<1>3. \A u \in Thread \ {t} : at'[u] = at[u] /\ hand'[u] = hand[u]
  BY GotoIs DEF RemoveEnd, Finish
<1>4. /\ slot' = [slot EXCEPT ![c] = -1]
      /\ UNCHANGED <<bySlot, registered, again>> /\ at[t] = "unassign"
  BY DEF RemoveEnd, targetVars
<1>5. \A d \in Client : slot'[d] = IF d = c THEN -1 ELSE slot[d]
  BY <1>1, <1>4 DEF Types
<1>6. PickInv'
  <2>1. "net" \in Thread BY DEF Thread
  <2>2. at["net"] = "pick" => hand["net"] \in Client
    BY <2>1, HandIsClient DEF MadeInv
  <2> QED BY <1>2, <1>3, <1>5, <2>1, <2>2 DEF SlotsInv, PickInv
<1>7. \A s \in Slot : bySlot'[s] \in registered' => slot'[bySlot'[s]] = s
  <2>1. c \notin registered BY <1>4 DEF RemovalInv
  <2> QED BY <1>4, <1>5, <2>1 DEF SlotsInv, SlotsOwned, Types
<1>8. ASSUME ~again', NEW d \in Client, slot'[d] # -1, ~Past(d, Emptied)'
      PROVE  bySlot'[slot'[d]] = d
  <2>1. d # c BY <1>5, <1>8
  <2>2. ~Past(d, Emptied)
    <3> SUFFICES ASSUME NEW u \in Thread, hand[u] = d, at[u] \in Emptied PROVE FALSE
      BY DEF Past
    <3>1. hand'[u] = d /\ at'[u] \in Emptied BY <1>3, <2>1
    <3> QED BY <1>8, <3>1 DEF Past
  <2> QED BY <1>4, <1>5, <1>8, <2>1, <2>2 DEF SlotsInv, SlotsOwned, Emptied
<1> QED BY <1>6, <1>7, <1>8 DEF SlotsInv, SlotsOwned, Emptied

LEMMA SlotsAssigned ==
  ASSUME Types, MadeInv, SlotsInv, AssignSlot
  PROVE  SlotsInv'
<1> DEFINE c == hand["net"]
           h == HighestSlot
<1>1. "net" \in Thread /\ at["net"] = "pick" /\ Goto("net", c, "check")
  BY DEF Thread, AssignSlot
<1>2. c \in Client BY <1>1, HandIsClient DEF MadeInv
<1>3. CASE FreeSlots = {}
  BY <1>1, <1>3, SlotsStay DEF AssignSlot, Emptied, targetVars
<1>4. CASE FreeSlots # {}
  <2>1. h \in Slot /\ bySlot[h] = None BY <1>4, HighestSlotIs DEF FreeSlots
  <2>2. /\ slot' = [slot EXCEPT ![c] = h] /\ bySlot' = [bySlot EXCEPT ![h] = c]
        /\ UNCHANGED <<registered, again>>
    BY <1>4 DEF AssignSlot, targetVars
  <2> HIDE DEF h
  <2>3. \A d \in Client : slot'[d] = IF d = c THEN h ELSE slot[d]
    BY <1>2, <2>2 DEF Types
  <2>4. \A s \in Slot : bySlot'[s] = IF s = h THEN c ELSE bySlot[s]
    BY <2>1, <2>2 DEF Types
  <2>5. at'["net"] = "check" /\ hand'["net"] = c BY <1>1, GotoIs
  <2>6. \A u \in Thread \ {"net"} : at'[u] = at[u] /\ hand'[u] = hand[u]
    BY <1>1, GotoIs
  <2>7. PickInv' BY <2>5 DEF PickInv
  <2>8. slot[c] = -1 BY <1>1 DEF SlotsInv, PickInv
  <2>9. ASSUME NEW s \in Slot, bySlot'[s] \in registered' PROVE slot'[bySlot'[s]] = s
    <3>1. CASE s = h BY <1>2, <2>3, <2>4, <3>1
    <3>2. CASE s # h
      <4>1. bySlot[s] \in registered /\ bySlot'[s] = bySlot[s]
        BY <2>2, <2>4, <2>9, <3>2
      <4>2. slot[bySlot[s]] = s BY <4>1 DEF SlotsInv, SlotsOwned
      <4>3. s # -1 /\ bySlot[s] \in Client
        BY <4>1, ConstantsAssumption DEF Slot, Types
      <4>4. bySlot[s] # c BY <2>8, <4>2, <4>3
      <4> QED BY <2>3, <4>1, <4>2, <4>3, <4>4
    <3> QED BY <3>1, <3>2
  <2>10. ASSUME ~again', NEW d \in Client, slot'[d] # -1, ~Past(d, Emptied)'
         PROVE  bySlot'[slot'[d]] = d
    <3>1. CASE d = c BY <2>1, <2>3, <2>4, <3>1
    <3>2. CASE d # c
      <4>1. ~Past(d, Emptied)
        <5> SUFFICES ASSUME NEW u \in Thread, hand[u] = d, at[u] \in Emptied PROVE FALSE
          BY DEF Past
        <5>1. hand'[u] = d /\ at'[u] \in Emptied BY <1>1, <2>6 DEF Emptied
        <5> QED BY <2>10, <5>1 DEF Past
      <4>2. slot'[d] = slot[d] /\ slot[d] \in Slot BY <2>3, <2>10, <3>2 DEF Types
      <4>3. bySlot[slot[d]] = d
        BY <2>2, <2>10, <4>1, <4>2 DEF SlotsInv, SlotsOwned, Emptied
      <4>4. slot[d] # h BY <2>1, <4>3, ConstantsAssumption
      <4> QED BY <2>4, <4>2, <4>3, <4>4
    <3> QED BY <3>1, <3>2
  <2> QED BY <2>7, <2>9, <2>10 DEF SlotsInv, SlotsOwned, Emptied
<1> QED BY <1>3, <1>4

LEMMA SlotsNext ==
  ASSUME Types, MadeInv, RemovalInv, SlotsInv, [Next]_vars
  PROVE  SlotsInv'
<1>1. "main" \in Thread /\ "net" \in Thread /\ "other" \in Thread BY DEF Thread
<1>2. CASE /\ UNCHANGED <<at, hand, slot, bySlot, again>>
           /\ \A s \in Slot : bySlot[s] \in registered' => bySlot[s] \in registered
  BY <1>2 DEF SlotsInv, SlotsOwned, PickInv, Past
<1>3. ASSUME NEW t \in Thread, NEW c, NEW stage \in {"signal", "drop"},
             Remove(t, c, stage), UNCHANGED <<registered, slot, bySlot>>,
             at[t] \notin Emptied
      PROVE  SlotsInv'
  <2>1. Goto(t, c, stage) /\ (~again' => ~again) BY <1>3, RemoveIs
  <2>2. stage # "pick" BY <1>3
  <2>3. registered' \subseteq registered BY <1>3
  <2> QED BY <1>3, <2>1, <2>2, <2>3, SlotsStay
<1>4. ASSUME NEW t \in Thread, NEW c, NEW stage, Goto(t, c, stage),
             UNCHANGED <<registered, slot, bySlot, again>>,
             at[t] \notin Emptied, stage = "pick" => slot[c] = -1
      PROVE  SlotsInv'
  <2>1. registered' \subseteq registered BY <1>4
  <2> QED BY <1>4, <2>1, SlotsStay
<1>5. ConnectionNext => SlotsInv'
  <2>1. ASSUME NEW c \in Client, MakeClient(c) PROVE SlotsInv'
    <3>1. \A s \in Slot : bySlot[s] # c
      BY <2>1, ConstantsAssumption DEF MakeClient, MadeInv, TablesMade
    <3> QED BY <1>2, <2>1, <3>1 DEF MakeClient, threadVars, targetVars
  <2>2. ASSUME NEW c \in Client, AllowClient(c) PROVE SlotsInv'
    BY <1>2, <2>2 DEF AllowClient, indexVars, threadVars, targetVars
  <2>3. ASSUME NEW c \in Client, RejectClient(c) PROVE SlotsInv'
    BY <1>1, <1>3, <2>3 DEF RejectClient, Idle, Emptied, indexVars
  <2> QED BY <2>1, <2>2, <2>3 DEF ConnectionNext
<1>6. RemovalNext => SlotsInv'
  <2> SUFFICES ASSUME NEW t \in Thread,
                      RemoveDrop(t) \/ RemoveIds(t) \/ RemoveSlot(t) \/ RemoveGuid(t)
                        \/ RemoveEnd(t)
               PROVE  SlotsInv'
    BY DEF RemovalNext
  <2>1. CASE RemoveDrop(t)
    <3>1. ~again' => ~again BY <2>1 DEF RemoveDrop
    <3> QED BY <2>1, <3>1, SlotsStay DEF RemoveDrop, Emptied, indexVars
  <2>2. CASE RemoveIds(t) BY <1>4, <2>2 DEF RemoveIds, Emptied, targetVars
  <2>3. CASE RemoveGuid(t)
    <3>1. registered' \subseteq registered BY <2>3 DEF RemoveGuid, Remaining
    <3> QED BY <2>3, <3>1, SlotsStay DEF RemoveGuid, Emptied, targetVars
  <2> QED BY <2>1, <2>2, <2>3, SlotsReset, SlotsUnassigned
<1>7. NetNext => SlotsInv'
  <2>1. ASSUME NEW c \in Client, HandshakeRefused(c) PROVE SlotsInv'
    BY <1>1, <1>3, <2>1 DEF HandshakeRefused, Idle, Emptied, indexVars
  <2>2. ASSUME NEW c \in Client, HandshakeAccepted(c) PROVE SlotsInv'
    BY <1>1, <1>4, <2>2 DEF HandshakeAccepted, Idle, Emptied, indexVars, targetVars
  <2>3. ASSUME NEW c \in Client, IQuit(c) PROVE SlotsInv'
    BY <1>2, <2>3 DEF IQuit, indexVars, threadVars, targetVars
  <2>4. CASE AssignPeer
    BY <1>1, <1>4, <2>4 DEF AssignPeer, NeedsSlot, Emptied, targetVars
  <2>5. CASE HandshakeNoSlot
    BY <1>1, <1>3, <2>5 DEF HandshakeNoSlot, Emptied, indexVars
  <2>6. CASE HandshakeNew
    BY <1>1, <1>4, <2>6 DEF HandshakeNew, Finish, Emptied, targetVars
  <2>7. CASE HandshakeAgain
    BY <1>1, <1>4, <2>7 DEF HandshakeAgain, Finish, Emptied, indexVars, targetVars
  <2> QED BY <2>1, <2>2, <2>3, <2>4, <2>5, <2>6, <2>7, SlotsAssigned DEF NetNext
<1>8. DropNext => SlotsInv'
  <2>1. ASSUME NEW c \in Client, DropOnMain(c) PROVE SlotsInv'
    BY <1>1, <1>3, <2>1 DEF DropOnMain, DropHere, Idle, Emptied, indexVars
  <2>2. ASSUME NEW c \in Client, RunDrop(c) PROVE SlotsInv'
    BY <1>1, <1>3, <2>2 DEF RunDrop, Idle, Emptied, indexVars
  <2>3. ASSUME NEW t \in Thread, NEW c \in Client, DropAsked(t, c) PROVE SlotsInv'
    BY <1>4, <2>3 DEF DropAsked, Idle, Emptied, indexVars, targetVars
  <2>4. ASSUME NEW t \in Thread, DropQueued(t) PROVE SlotsInv'
    BY <1>4, <2>4 DEF DropQueued, Finish, Emptied, indexVars, targetVars
  <2>5. CASE DropClientInternal
    BY <1>1, <1>4, <2>5 DEF DropClientInternal, Emptied, indexVars
  <2> QED BY <1>1, <2>1, <2>2, <2>3, <2>4, <2>5 DEF DropNext
<1>9. CallbackNext => SlotsInv'
  <2> DEFINE c == Head(netQueue).client
  <2>1. CASE RunQuit
    <3>1. CASE c \in dropping
      BY <1>2, <2>1, <3>1 DEF RunQuit, indexVars, threadVars
    <3>2. CASE c \notin dropping
      BY <1>1, <1>3, <2>1, <3>2 DEF RunQuit, DropHere, Take, Idle, Emptied, indexVars
    <3> QED BY <3>1, <3>2
  <2>2. CASE HandleConnectedClient
    <3>1. CASE Goto("main", c, "register")
      BY <1>1, <1>4, <2>2, <3>1
      DEF HandleConnectedClient, Take, Idle, Emptied, indexVars, targetVars
    <3>2. CASE UNCHANGED threadVars
      BY <1>2, <2>2, <3>2 DEF HandleConnectedClient, indexVars, threadVars, targetVars
    <3> QED BY <2>2, <3>1, <3>2 DEF HandleConnectedClient
  <2>3. CASE HandleConnectedDropped
    BY <1>1, <1>3, <2>3
    DEF HandleConnectedDropped, DropHere, Take, Idle, Emptied, indexVars
  <2>4. CASE RegisterTarget
    BY <1>1, <1>4, <2>4 DEF RegisterTarget, Emptied, indexVars
  <2>5. CASE ConnectOnDrop
    BY <1>1, <1>4, <2>5 DEF ConnectOnDrop, Finish, Emptied, indexVars, targetVars
  <2> QED BY <2>1, <2>2, <2>3, <2>4, <2>5 DEF CallbackNext
<1>10. CASE UNCHANGED vars
  BY <1>2, <1>10 DEF vars, indexVars, threadVars, targetVars
<1> QED BY <1>5, <1>6, <1>7, <1>8, <1>9, <1>10 DEF Next

---------------------------------------------------------------------------
(* Net ids.                                                                *)

NetIdsStep == {"slot", "guid", "unassign"}

\* A thread goes on, and resets no net id.
LEMMA NetIdsStay ==
  ASSUME Types, NetIdsOwned, NEW t \in Thread, NEW c, NEW stage, Goto(t, c, stage),
         at[t] \in NetIdsStep => stage \in NetIdsStep /\ c = hand[t],
         UNCHANGED <<netId, byNetId>>, registered' \subseteq registered,
         ~again' => ~again
  PROVE  NetIdsOwned'
<1>1. at'[t] = stage /\ hand'[t] = c BY GotoIs
<1>2. \A u \in Thread \ {t} : at'[u] = at[u] /\ hand'[u] = hand[u] BY GotoIs
<1>3. ASSUME NEW d \in Client, Past(d, NetIdsStep) PROVE Past(d, NetIdsStep)'
  <2>1. PICK u \in Thread : hand[u] = d /\ at[u] \in NetIdsStep BY <1>3 DEF Past
  <2>2. hand'[u] = d /\ at'[u] \in NetIdsStep BY <1>1, <1>2, <2>1
  <2> QED BY <2>2 DEF Past
<1>4. ASSUME ~again', NEW d \in registered', netId'[d] # 0, ~Past(d, NetIdsStep)'
      PROVE  byNetId'[netId'[d]] = d
  <2>1. ~Past(d, NetIdsStep) BY <1>3, <1>4 DEF Types
  <2> QED BY <1>4, <2>1 DEF NetIdsOwned, NetIdsStep
<1> QED BY <1>4 DEF NetIdsOwned, NetIdsStep

LEMMA NetIdsReset ==
  ASSUME Types, MadeInv, RemovalInv, NetIdsOwned, NEW t \in Thread, RemoveIds(t)
  PROVE  NetIdsOwned'
<1> DEFINE c == hand[t]
<1>1. c \in Client BY HandIsClient DEF RemoveIds, MadeInv
<1>2. at'[t] = "slot" /\ hand'[t] = c BY GotoIs DEF RemoveIds
<1>3. \A u \in Thread \ {t} : at'[u] = at[u] /\ hand'[u] = hand[u]
  BY GotoIs DEF RemoveIds
<1>4. /\ byNetId' = [i \in NetId |-> IF i = netId[c] THEN None ELSE byNetId[i]]
      /\ UNCHANGED <<netId, registered, again>> /\ at[t] = "ids"
  BY DEF RemoveIds, targetVars
<1>5. ASSUME ~again', NEW d \in registered', netId'[d] # 0, ~Past(d, NetIdsStep)'
      PROVE  byNetId'[netId'[d]] = d
  <2>1. d # c
    <3>1. d = c => Past(d, NetIdsStep)' BY <1>2 DEF Past, NetIdsStep
    <3> QED BY <1>5, <3>1
  <2>2. ~Past(d, NetIdsStep)
    <3> SUFFICES ASSUME NEW u \in Thread, hand[u] = d, at[u] \in NetIdsStep PROVE FALSE
      BY DEF Past
    <3>1. hand'[u] = d /\ at'[u] \in NetIdsStep BY <1>3, <1>4 DEF NetIdsStep
    <3> QED BY <1>5, <3>1 DEF Past
  <2>3. byNetId[netId[d]] = d /\ netId[d] \in NetId
    BY <1>4, <1>5, <2>2 DEF NetIdsOwned, NetIdsStep, Types
  <2>4. netId[d] # netId[c]
    <3> SUFFICES ASSUME netId[d] = netId[c] PROVE FALSE OBVIOUS
    <3>1. ~Past(c, NetIdsStep)
      <4> SUFFICES ASSUME NEW u \in Thread, hand[u] = c, at[u] \in NetIdsStep PROVE FALSE
        BY DEF Past
      <4>1. u # t BY <1>4 DEF NetIdsStep
      <4>2. at[t] \in Removal /\ at[u] \in Removal BY <1>4 DEF NetIdsStep, Removal
      <4> QED BY <1>4, <1>5, <4>1, <4>2 DEF RemovalInv
    <3>2. c \in registered BY <1>4, <1>5 DEF RemovalInv, Removal
    <3>3. byNetId[netId[c]] = c
      BY <1>4, <1>5, <3>1, <3>2 DEF NetIdsOwned, NetIdsStep
    <3> QED BY <2>1, <2>3, <3>3
  <2> QED BY <1>4, <2>3, <2>4
<1> QED BY <1>5 DEF NetIdsOwned, NetIdsStep

LEMMA NetIdsGiven ==
  ASSUME Types, MadeInv, NetIdsOwned, HandshakeNew
  PROVE  NetIdsOwned'
<1> DEFINE c == hand["net"]
           id == FirstFreeId
<1>1. "net" \in Thread /\ at["net"] = "check" /\ Goto("net", None, "idle")
  BY DEF Thread, HandshakeNew, Finish
<1>2. c \in Client BY <1>1, HandIsClient DEF MadeInv
<1>3. id \in NetId /\ byNetId[id] = None
  BY FirstFreeIdIs DEF HandshakeNew, HandleConnectingClient, FreeIds
<1>4. /\ netId' = [netId EXCEPT ![c] = id] /\ byNetId' = [byNetId EXCEPT ![id] = c]
      /\ UNCHANGED <<registered, again>>
  BY DEF HandshakeNew, HandleConnectingClient, targetVars
<1> HIDE DEF id
<1>5. \A u \in Thread \ {"net"} : at'[u] = at[u] /\ hand'[u] = hand[u]
  BY <1>1, GotoIs
<1>6. ASSUME ~again', NEW d \in registered', netId'[d] # 0, ~Past(d, NetIdsStep)'
      PROVE  byNetId'[netId'[d]] = d
  <2>1. CASE d = c BY <1>2, <1>3, <1>4, <2>1 DEF Types
  <2>2. CASE d # c
    <3>1. d \in Client /\ netId'[d] = netId[d] BY <1>2, <1>4, <2>2 DEF Types
    <3>2. ~Past(d, NetIdsStep)
      <4> SUFFICES ASSUME NEW u \in Thread, hand[u] = d, at[u] \in NetIdsStep PROVE FALSE
        BY DEF Past
      <4>1. hand'[u] = d /\ at'[u] \in NetIdsStep BY <1>1, <1>5 DEF NetIdsStep
      <4> QED BY <1>6, <4>1 DEF Past
    <3>3. byNetId[netId[d]] = d
      BY <1>4, <1>6, <3>1, <3>2 DEF NetIdsOwned, NetIdsStep
    <3>4. netId[d] # id BY <1>3, <3>1, <3>3, ConstantsAssumption
    <3> QED BY <1>4, <3>1, <3>3, <3>4 DEF Types
  <2> QED BY <2>1, <2>2
<1> QED BY <1>6 DEF NetIdsOwned, NetIdsStep

LEMMA NetIdsNext ==
  ASSUME Types, MadeInv, RemovalInv, NetIdsOwned, [Next]_vars
  PROVE  NetIdsOwned'
<1>1. "main" \in Thread /\ "net" \in Thread /\ "other" \in Thread BY DEF Thread
<1>2. CASE /\ UNCHANGED <<at, hand, netId, byNetId, again>>
           /\ \A c \in registered' : c \in registered \/ netId[c] = 0
  BY <1>2 DEF NetIdsOwned, Past
<1>3. ASSUME NEW t \in Thread, NEW c, NEW stage, Remove(t, c, stage),
             UNCHANGED <<registered, netId, byNetId>>, at[t] \notin NetIdsStep
      PROVE  NetIdsOwned'
  <2>1. Goto(t, c, stage) /\ (~again' => ~again) BY <1>3, RemoveIs
  <2>2. registered' \subseteq registered BY <1>3
  <2> QED BY <1>3, <2>1, <2>2, NetIdsStay
<1>4. ASSUME NEW t \in Thread, NEW c, NEW stage, Goto(t, c, stage),
             UNCHANGED <<registered, netId, byNetId, again>>, at[t] \notin NetIdsStep
      PROVE  NetIdsOwned'
  <2>1. registered' \subseteq registered BY <1>4
  <2> QED BY <1>4, <2>1, NetIdsStay
<1>5. ConnectionNext => NetIdsOwned'
  <2>1. ASSUME NEW c \in Client, MakeClient(c) PROVE NetIdsOwned'
    BY <1>2, <2>1 DEF MakeClient, MadeInv, TablesMade, threadVars, targetVars
  <2>2. ASSUME NEW c \in Client, AllowClient(c) PROVE NetIdsOwned'
    BY <1>2, <2>2 DEF AllowClient, indexVars, threadVars, targetVars
  <2>3. ASSUME NEW c \in Client, RejectClient(c) PROVE NetIdsOwned'
    BY <1>1, <1>3, <2>3 DEF RejectClient, Idle, NetIdsStep, indexVars
  <2> QED BY <2>1, <2>2, <2>3 DEF ConnectionNext
<1>6. RemovalNext => NetIdsOwned'
  <2> SUFFICES ASSUME NEW t \in Thread,
                      RemoveDrop(t) \/ RemoveIds(t) \/ RemoveSlot(t) \/ RemoveGuid(t)
                        \/ RemoveEnd(t)
               PROVE  NetIdsOwned'
    BY DEF RemovalNext
  <2>1. CASE RemoveDrop(t)
    <3>1. ~again' => ~again BY <2>1 DEF RemoveDrop
    <3> QED BY <2>1, <3>1, NetIdsStay DEF RemoveDrop, NetIdsStep, indexVars
  <2>2. CASE RemoveSlot(t)
    BY <2>2, NetIdsStay DEF RemoveSlot, NetIdsStep, targetVars
  <2>3. CASE RemoveGuid(t)
    <3>1. registered' \subseteq registered BY <2>3 DEF RemoveGuid, Remaining
    <3> QED BY <2>3, <3>1, NetIdsStay DEF RemoveGuid, NetIdsStep, targetVars
  <2>4. CASE RemoveEnd(t)
    <3>1. hand[t] \notin registered BY <2>4 DEF RemoveEnd, RemovalInv
    <3>2. UNCHANGED <<registered, netId, byNetId, again>>
      BY <2>4 DEF RemoveEnd, targetVars
    <3>3. \A u \in Thread \ {t} : at'[u] = at[u] /\ hand'[u] = hand[u]
      BY <2>4, GotoIs DEF RemoveEnd, Finish
    <3>4. ASSUME NEW d \in registered, ~Past(d, NetIdsStep)' PROVE ~Past(d, NetIdsStep)
      <4> SUFFICES ASSUME NEW u \in Thread, hand[u] = d, at[u] \in NetIdsStep PROVE FALSE
        BY DEF Past
      <4>1. hand'[u] = d /\ at'[u] \in NetIdsStep BY <3>1, <3>3
      <4> QED BY <3>4, <4>1 DEF Past
    <3> QED BY <3>2, <3>4 DEF NetIdsOwned, NetIdsStep
  <2> QED BY <2>1, <2>2, <2>3, <2>4, NetIdsReset
<1>7. NetNext => NetIdsOwned'
  <2>1. ASSUME NEW c \in Client, HandshakeRefused(c) PROVE NetIdsOwned'
    BY <1>1, <1>3, <2>1 DEF HandshakeRefused, Idle, NetIdsStep, indexVars
  <2>2. ASSUME NEW c \in Client, HandshakeAccepted(c) PROVE NetIdsOwned'
    BY <1>1, <1>4, <2>2 DEF HandshakeAccepted, Idle, NetIdsStep, indexVars, targetVars
  <2>3. ASSUME NEW c \in Client, IQuit(c) PROVE NetIdsOwned'
    BY <1>2, <2>3 DEF IQuit, indexVars, threadVars, targetVars
  <2>4. CASE AssignPeer BY <1>1, <1>4, <2>4 DEF AssignPeer, NetIdsStep, targetVars
  <2>5. CASE AssignSlot BY <1>1, <1>4, <2>5 DEF AssignSlot, NetIdsStep, targetVars
  <2>6. CASE HandshakeNoSlot
    BY <1>1, <1>3, <2>6 DEF HandshakeNoSlot, NetIdsStep, indexVars
  <2>7. CASE HandshakeAgain
    BY <1>1, <1>4, <2>7 DEF HandshakeAgain, Finish, NetIdsStep, indexVars, targetVars
  <2> QED BY <2>1, <2>2, <2>3, <2>4, <2>5, <2>6, <2>7, NetIdsGiven DEF NetNext
<1>8. DropNext => NetIdsOwned'
  <2>1. ASSUME NEW c \in Client, DropOnMain(c) PROVE NetIdsOwned'
    BY <1>1, <1>3, <2>1 DEF DropOnMain, DropHere, Idle, NetIdsStep, indexVars
  <2>2. ASSUME NEW c \in Client, RunDrop(c) PROVE NetIdsOwned'
    BY <1>1, <1>3, <2>2 DEF RunDrop, Idle, NetIdsStep, indexVars
  <2>3. ASSUME NEW t \in Thread, NEW c \in Client, DropAsked(t, c) PROVE NetIdsOwned'
    BY <1>4, <2>3 DEF DropAsked, Idle, NetIdsStep, indexVars, targetVars
  <2>4. ASSUME NEW t \in Thread, DropQueued(t) PROVE NetIdsOwned'
    BY <1>4, <2>4 DEF DropQueued, Finish, NetIdsStep, indexVars, targetVars
  <2>5. CASE DropClientInternal
    BY <1>1, <1>4, <2>5 DEF DropClientInternal, NetIdsStep, indexVars
  <2> QED BY <1>1, <2>1, <2>2, <2>3, <2>4, <2>5 DEF DropNext
<1>9. CallbackNext => NetIdsOwned'
  <2> DEFINE c == Head(netQueue).client
  <2>1. CASE RunQuit
    <3>1. CASE c \in dropping
      BY <1>2, <2>1, <3>1 DEF RunQuit, indexVars, threadVars
    <3>2. CASE c \notin dropping
      BY <1>1, <1>3, <2>1, <3>2 DEF RunQuit, DropHere, Take, Idle, NetIdsStep, indexVars
    <3> QED BY <3>1, <3>2
  <2>2. CASE HandleConnectedClient
    <3>1. CASE Goto("main", c, "register")
      BY <1>1, <1>4, <2>2, <3>1
      DEF HandleConnectedClient, Take, Idle, NetIdsStep, indexVars, targetVars
    <3>2. CASE UNCHANGED threadVars
      BY <1>2, <2>2, <3>2 DEF HandleConnectedClient, indexVars, threadVars, targetVars
    <3> QED BY <2>2, <3>1, <3>2 DEF HandleConnectedClient
  <2>3. CASE HandleConnectedDropped
    BY <1>1, <1>3, <2>3
    DEF HandleConnectedDropped, DropHere, Take, Idle, NetIdsStep, indexVars
  <2>4. CASE RegisterTarget
    BY <1>1, <1>4, <2>4 DEF RegisterTarget, NetIdsStep, indexVars
  <2>5. CASE ConnectOnDrop
    BY <1>1, <1>4, <2>5 DEF ConnectOnDrop, Finish, NetIdsStep, indexVars, targetVars
  <2> QED BY <2>1, <2>2, <2>3, <2>4, <2>5 DEF CallbackNext
<1>10. CASE UNCHANGED vars
  BY <1>2, <1>10 DEF vars, indexVars, threadVars, targetVars
<1> QED BY <1>5, <1>6, <1>7, <1>8, <1>9, <1>10 DEF Next

---------------------------------------------------------------------------
(* Announcements.                                                          *)

\* AnnouncedOnce without counting.
AnnouncedInv ==
  \A c \in Client :
    \/ netId[c] = 0 /\ joins[c] = 0 /\ Announcements(c) = {}
    \/ netId[c] # 0 /\ joins[c] = 1 /\ Announcements(c) = {}
    \/ netId[c] # 0 /\ joins[c] = 0 /\ \E i : Announcements(c) = {i}

LEMMA AnnouncedCount == AnnouncedInv => AnnouncedOnce
<1> SUFFICES ASSUME AnnouncedInv, NEW c \in Client
             PROVE  joins[c] + Cardinality(Announcements(c))
                      = IF netId[c] = 0 THEN 0 ELSE 1
  BY DEF AnnouncedOnce
<1>1. CASE Announcements(c) = {}
  <2>1. Cardinality(Announcements(c)) = 0 BY <1>1, FS_EmptySet
  <2>2. \/ netId[c] = 0 /\ joins[c] = 0
        \/ netId[c] # 0 /\ joins[c] = 1
    BY <1>1 DEF AnnouncedInv
  <2> QED BY <2>1, <2>2
<1>2. CASE Announcements(c) # {}
  <2>1. PICK i : Announcements(c) = {i} BY <1>2 DEF AnnouncedInv
  <2>2. Cardinality(Announcements(c)) = 1 BY <2>1, FS_Singleton
  <2>3. netId[c] # 0 /\ joins[c] = 0 BY <1>2 DEF AnnouncedInv
  <2> QED BY <2>2, <2>3
<1> QED BY <1>1, <1>2

Joining(c) == [do |-> "connected", client |-> c]

LEMMA AnnouncementsAppended ==
  ASSUME Types, NEW k \in Callback, netQueue' = Append(netQueue, k), NEW c
  PROVE  Announcements(c)'
           = IF k = Joining(c) THEN Announcements(c) \union {Len(netQueue) + 1}
             ELSE Announcements(c)
<1>1. Len(netQueue) \in Nat BY LenProperties DEF Types
<1>2. Announcements(c)' = {i \in 1 .. Len(netQueue') : netQueue'[i] = Joining(c)}
  BY DEF Announcements, Joining
<1>3. Announcements(c) = {i \in 1 .. Len(netQueue) : netQueue[i] = Joining(c)}
  BY DEF Announcements, Joining
<1>4. /\ Len(netQueue') = Len(netQueue) + 1
      /\ \A i \in 1 .. Len(netQueue) : netQueue'[i] = netQueue[i]
      /\ netQueue'[Len(netQueue) + 1] = k
  BY AppendProperties DEF Types
<1> QED BY <1>1, <1>2, <1>3, <1>4

LEMMA AnnouncementsTaken ==
  ASSUME Types, NEW what, Take(what), NEW c
  PROVE  /\ \A i \in Announcements(c)' : i \in Nat /\ i >= 1 /\ i + 1 \in Announcements(c)
         /\ \A i \in Announcements(c) : i = 1 \/ i - 1 \in Announcements(c)'
         /\ \A i \in Announcements(c) : i \in Nat
         /\ 1 \in Announcements(c) <=> Head(netQueue) = Joining(c)
<1>1. Len(netQueue) \in Nat /\ Len(netQueue') \in Nat
  BY TakeTypes, LenProperties DEF Types
<1>2. Announcements(c)' = {i \in 1 .. Len(netQueue') : netQueue'[i] = Joining(c)}
  BY DEF Announcements, Joining
<1>3. Announcements(c) = {i \in 1 .. Len(netQueue) : netQueue[i] = Joining(c)}
  BY DEF Announcements, Joining
<1> QED BY <1>1, <1>2, <1>3, QueueTaken

LEMMA AnnouncedTake ==
  ASSUME Types, AnnouncedInv, NEW what, Take(what), netId' = netId,
         NEW c \in Client, c = Head(netQueue).client,
         joins' = IF what = "connected" THEN [joins EXCEPT ![c] = @ + 1] ELSE joins
  PROVE  AnnouncedInv'
<1> SUFFICES ASSUME NEW d \in Client
             PROVE  \/ netId[d] = 0 /\ joins'[d] = 0 /\ Announcements(d)' = {}
                    \/ netId[d] # 0 /\ joins'[d] = 1 /\ Announcements(d)' = {}
                    \/ netId[d] # 0 /\ joins'[d] = 0 /\ \E i : Announcements(d)' = {i}
  BY DEF AnnouncedInv
<1>1. Head(netQueue) = Joining(d) <=> what = "connected" /\ d = c
  BY TakeTypes DEF Take, Callback, Joining
<1>2. CASE what = "connected" /\ d = c
  <2>1. 1 \in Announcements(d) BY <1>1, <1>2, AnnouncementsTaken
  <2>2. netId[d] # 0 /\ joins[d] = 0 /\ Announcements(d) = {1}
    BY <2>1 DEF AnnouncedInv
  <2>3. Announcements(d)' = {} BY <2>2, AnnouncementsTaken
  <2>4. joins'[d] = 1 BY <1>2, <2>2 DEF Types
  <2> QED BY <2>2, <2>3, <2>4
<1>3. CASE ~(what = "connected" /\ d = c)
  <2>1. 1 \notin Announcements(d) BY <1>1, <1>3, AnnouncementsTaken
  <2>2. joins'[d] = joins[d] BY <1>3 DEF Types
  <2>3. CASE Announcements(d) = {}
    <3>1. Announcements(d)' = {} BY <2>3, AnnouncementsTaken
    <3> QED BY <2>2, <2>3, <3>1 DEF AnnouncedInv
  <2>4. CASE Announcements(d) # {}
    <3>1. PICK i : Announcements(d) = {i} BY <2>4 DEF AnnouncedInv
    <3>2. i \in Nat /\ i # 1 /\ i - 1 \in Announcements(d)'
      BY <2>1, <3>1, AnnouncementsTaken
    <3>3. \A j \in Announcements(d)' : j = i - 1 BY <3>1, <3>2, AnnouncementsTaken
    <3>4. Announcements(d)' = {i - 1} BY <3>2, <3>3
    <3> QED BY <2>2, <2>4, <3>4 DEF AnnouncedInv
  <2> QED BY <2>3, <2>4
<1> QED BY <1>2, <1>3

\* The callback that is run finds the client not announced before.
LEMMA NotAnnounced ==
  ASSUME Types, AnnouncedInv, Take("connected")
  PROVE  joins[Head(netQueue).client] = 0
<1> DEFINE c == Head(netQueue).client
<1>1. Head(netQueue) = Joining(c) BY TakeTypes DEF Take, Callback, Joining
<1>2. 1 \in Announcements(c) BY <1>1, AnnouncementsTaken
<1> QED BY <1>2, HeadIsClient DEF AnnouncedInv

LEMMA AnnouncedNext ==
  ASSUME Types, ThreadInv, AnnouncedInv, [Next]_vars
  PROVE  AnnouncedInv'
<1>1. CASE UNCHANGED <<netQueue, netId, joins>>
  BY <1>1 DEF AnnouncedInv, Announcements
<1>2. ASSUME NEW c \in Client, IQuit(c) PROVE AnnouncedInv'
  <2> DEFINE k == [do |-> "quit", client |-> c]
  <2>1. k \in Callback /\ netQueue' = Append(netQueue, k) BY <1>2 DEF IQuit, Callback
  <2>2. \A d : k # Joining(d) BY DEF Joining
  <2>3. UNCHANGED <<netId, joins>> BY <1>2 DEF IQuit, indexVars
  <2> HIDE DEF k
  <2>4. \A d : Announcements(d)' = Announcements(d) BY <2>1, <2>2, AnnouncementsAppended
  <2> QED BY <2>3, <2>4 DEF AnnouncedInv
<1>3. CASE HandshakeNew
  <2> DEFINE h == hand["net"]
             k == Joining(h)
  <2>1. h \in Client BY <1>3, HandIsClient DEF HandshakeNew, Thread
  <2>2. k \in Callback /\ netQueue' = Append(netQueue, k)
    BY <1>3, <2>1 DEF HandshakeNew, Callback, Joining
  <2>3. \A d : k = Joining(d) => d = h BY DEF Joining
  <2>4. FirstFreeId # 0
    BY <1>3, FirstFreeIdIs
    DEF HandshakeNew, HandleConnectingClient, FreeIds, NetId
  <2>5. /\ netId' = [netId EXCEPT ![h] = FirstFreeId]
        /\ netId[h] = 0 /\ joins' = joins
    BY <1>3 DEF HandshakeNew, HandleConnectingClient
  <2> HIDE DEF k
  <2> SUFFICES ASSUME NEW d \in Client
               PROVE  \/ netId'[d] = 0 /\ joins'[d] = 0 /\ Announcements(d)' = {}
                      \/ netId'[d] # 0 /\ joins'[d] = 1 /\ Announcements(d)' = {}
                      \/ netId'[d] # 0 /\ joins'[d] = 0 /\ \E i : Announcements(d)' = {i}
    BY DEF AnnouncedInv
  <2>6. CASE d = h
    <3>1. joins[d] = 0 /\ Announcements(d) = {} BY <2>5, <2>6 DEF AnnouncedInv
    <3>2. Announcements(d)' = {Len(netQueue) + 1}
      BY <2>2, <2>6, <3>1, AnnouncementsAppended DEF k
    <3>3. netId'[d] # 0 BY <2>1, <2>4, <2>5, <2>6 DEF Types
    <3> QED BY <2>5, <3>1, <3>2, <3>3
  <2>7. CASE d # h
    <3>1. Announcements(d)' = Announcements(d)
      BY <2>2, <2>3, <2>7, AnnouncementsAppended
    <3>2. netId'[d] = netId[d] BY <2>1, <2>5, <2>7 DEF Types
    <3> QED BY <2>5, <3>1, <3>2 DEF AnnouncedInv
  <2> QED BY <2>6, <2>7
<1>4. CASE RunQuit
  <2>1. Take("quit") BY <1>4 DEF RunQuit
  <2>2. UNCHANGED <<netId, joins>> BY <1>4 DEF RunQuit, indexVars
  <2> QED BY <2>1, <2>2, HeadIsClient, AnnouncedTake
<1>5. CASE HandleConnectedClient
  <2>1. Take("connected") BY <1>5 DEF HandleConnectedClient
  <2>2. netId' = netId BY <1>5 DEF HandleConnectedClient, indexVars
  <2>3. joins' = [joins EXCEPT ![Head(netQueue).client] = @ + 1]
    BY <1>5 DEF HandleConnectedClient, Announce
  <2> QED BY <2>1, <2>2, <2>3, HeadIsClient, AnnouncedTake
<1>6. CASE HandleConnectedDropped
  <2>1. Take("connected") BY <1>6 DEF HandleConnectedDropped
  <2>2. netId' = netId BY <1>6 DEF HandleConnectedDropped, indexVars
  <2>3. joins' = [joins EXCEPT ![Head(netQueue).client] = @ + 1]
    BY <1>6 DEF HandleConnectedDropped, Announce
  <2> QED BY <2>1, <2>2, <2>3, HeadIsClient, AnnouncedTake
<1>7. ConnectionNext => AnnouncedInv'
  BY <1>1
  DEF ConnectionNext, MakeClient, AllowClient, RejectClient, indexVars, queueVars
<1>8. RemovalNext => AnnouncedInv'
  BY <1>1
  DEF RemovalNext, RemoveDrop, RemoveIds, RemoveSlot, RemoveGuid, RemoveEnd, indexVars,
      queueVars
<1>9. NetNext => AnnouncedInv'
  BY <1>1, <1>2, <1>3
  DEF NetNext, HandshakeRefused, HandshakeAccepted, AssignPeer, AssignSlot,
      HandshakeNoSlot, HandshakeAgain, indexVars, queueVars
<1>10. DropNext => AnnouncedInv'
  BY <1>1
  DEF DropNext, DropOnMain, RunDrop, DropAsked, DropQueued, DropClientInternal,
      indexVars, queueVars
<1>11. RegisterTarget \/ ConnectOnDrop => AnnouncedInv'
  BY <1>1 DEF RegisterTarget, ConnectOnDrop, indexVars, queueVars
<1> QED
  BY <1>1, <1>4, <1>5, <1>6, <1>7, <1>8, <1>9, <1>10, <1>11
  DEF Next, CallbackNext, vars, indexVars, queueVars

---------------------------------------------------------------------------
(* The connection handlers: each client reaches them once.                 *)

Handled(c) == hand["main"] = c /\ at["main"] \in {"register", "connect"}

HandledInv ==
  /\ \A c \in connected : joins[c] = 1
  /\ \A c \in Client : Handled(c) => c \notin connected /\ joins[c] = 1

LEMMA HandledNext ==
  ASSUME Types, ThreadInv, AnnouncedInv, HandledInv, [Next]_vars
  PROVE  HandledInv'
<1>1. "main" \in Thread /\ "net" \in Thread /\ "other" \in Thread BY DEF Thread
<1>2. CASE UNCHANGED <<connected, joins, at, hand>>
  BY <1>2 DEF HandledInv, Handled
<1>3. ASSUME UNCHANGED <<connected, joins>>, NEW t \in Thread, NEW c, NEW stage,
             Goto(t, c, stage), t # "main" \/ stage \notin {"register", "connect"}
      PROVE  HandledInv'
  BY <1>1, <1>3, GotoIs DEF HandledInv, Handled
<1>4. ASSUME UNCHANGED <<connected, joins>>, NEW t \in Thread, NEW c,
             NEW stage \in {"signal", "drop"}, Remove(t, c, stage)
      PROVE  HandledInv'
  <2>1. Goto(t, c, stage) BY <1>4, RemoveIs
  <2>2. stage \notin {"register", "connect"} OBVIOUS
  <2> QED BY <1>3, <1>4, <2>1, <2>2
<1>5. CASE RunQuit
  BY <1>1, <1>2, <1>4, <1>5 DEF RunQuit, DropHere, threadVars
<1>6. ASSUME Take("connected"), Announce(Head(netQueue).client), connected' = connected,
             \/ Goto("main", Head(netQueue).client, "register")
             \/ UNCHANGED threadVars
             \/ Remove("main", Head(netQueue).client, "signal")
      PROVE  HandledInv'
  <2> DEFINE c == Head(netQueue).client
  <2>1. c \in Client /\ joins[c] = 0 BY <1>6, HeadIsClient, NotAnnounced
  <2>2. at["main"] = "idle" BY <1>6 DEF Take, Idle
  <2>3. joins' = [joins EXCEPT ![c] = @ + 1] BY <1>6 DEF Announce
  <2> HIDE DEF c
  <2>4. joins'[c] = 1 /\ \A d \in Client \ {c} : joins'[d] = joins[d]
    BY <2>1, <2>3 DEF Types
  <2>5. c \notin connected BY <2>1 DEF HandledInv
  <2>6. \A d \in connected' : joins'[d] = 1
    BY <1>6, <2>4, <2>5 DEF HandledInv, Types
  <2>7. \A d \in Client : Handled(d)' => d = c
    <3>1. CASE Goto("main", c, "register") BY <1>1, <3>1, GotoIs DEF Handled
    <3>2. CASE UNCHANGED threadVars BY <2>2, <3>2 DEF Handled, threadVars
    <3>3. CASE Remove("main", c, "signal")
      <4>1. at'["main"] = "signal" BY <1>1, <3>3, RemoveIs, GotoIs
      <4> QED BY <4>1 DEF Handled
    <3> QED BY <1>6, <3>1, <3>2, <3>3 DEF c
  <2> QED BY <1>6, <2>4, <2>5, <2>6, <2>7 DEF HandledInv
<1>7. CASE HandleConnectedClient
  <2>1. \/ Goto("main", Head(netQueue).client, "register")
        \/ UNCHANGED threadVars
    BY <1>7 DEF HandleConnectedClient
  <2> QED BY <1>6, <1>7, <2>1 DEF HandleConnectedClient, setVars
<1>8. CASE HandleConnectedDropped
  BY <1>6, <1>8 DEF HandleConnectedDropped, DropHere
<1>9. CASE RegisterTarget
  <2>1. at'["main"] = "connect" /\ hand'["main"] = hand["main"]
    BY <1>1, <1>9, GotoIs DEF RegisterTarget
  <2>2. at["main"] = "register" /\ UNCHANGED <<connected, joins>>
    BY <1>9 DEF RegisterTarget, setVars, queueVars
  <2> QED BY <2>1, <2>2 DEF HandledInv, Handled
<1>10. CASE ConnectOnDrop
  <2>1. at'["main"] = "idle" BY <1>1, <1>10, GotoIs DEF ConnectOnDrop, Finish
  <2>2. /\ at["main"] = "connect" /\ joins' = joins
        /\ connected' = connected \union {hand["main"]}
    BY <1>10 DEF ConnectOnDrop, queueVars
  <2>3. hand["main"] \in Client BY <1>1, <2>2, HandIsClient
  <2> QED BY <2>1, <2>2, <2>3 DEF HandledInv, Handled
<1>11. ConnectionNext => HandledInv'
  BY <1>1, <1>2, <1>4
  DEF ConnectionNext, MakeClient, AllowClient, RejectClient, setVars, queueVars,
      threadVars
<1>12. RemovalNext => HandledInv'
  BY <1>3
  DEF RemovalNext, RemoveDrop, RemoveIds, RemoveSlot, RemoveGuid, RemoveEnd, Finish,
      setVars, queueVars
<1>13. NetNext => HandledInv'
  <2>1. ASSUME NEW c \in Client, HandshakeRefused(c) \/ HandshakeAccepted(c) \/ IQuit(c)
        PROVE  HandledInv'
    BY <1>1, <1>2, <1>3, <1>4, <2>1
    DEF HandshakeRefused, HandshakeAccepted, IQuit, setVars, queueVars, threadVars
  <2>2. CASE AssignPeer \/ AssignSlot \/ HandshakeNew \/ HandshakeAgain
    BY <1>1, <1>3, <2>2
    DEF AssignPeer, AssignSlot, HandshakeNew, HandshakeAgain, Finish, setVars, queueVars
  <2>3. CASE HandshakeNoSlot
    BY <1>1, <1>4, <2>3 DEF HandshakeNoSlot, setVars, queueVars
  <2> QED BY <2>1, <2>2, <2>3 DEF NetNext
<1>14. DropNext => HandledInv'
  <2>1. ASSUME NEW c \in Client, DropOnMain(c) \/ RunDrop(c) PROVE HandledInv'
    BY <1>1, <1>4, <2>1 DEF DropOnMain, RunDrop, DropHere, setVars, queueVars
  <2>2. ASSUME NEW t \in Thread, DropQueued(t) \/ \E c \in Client : DropAsked(t, c)
        PROVE  HandledInv'
    BY <1>3, <2>2 DEF DropAsked, DropQueued, Finish, setVars, queueVars
  <2>3. CASE DropClientInternal
    BY <1>1, <1>3, <2>3 DEF DropClientInternal, setVars, queueVars
  <2> QED BY <1>1, <2>1, <2>2, <2>3 DEF DropNext
<1> QED
  BY <1>2, <1>5, <1>7, <1>8, <1>9, <1>10, <1>11, <1>12, <1>13, <1>14
  DEF Next, CallbackNext, vars, setVars, queueVars, threadVars

---------------------------------------------------------------------------
(* Drops.                                                                  *)

DropsInv ==
  /\ at["main"] \in Removal => hand["main"] \in dropping
  /\ dropQueue \subseteq dropping
  /\ DroppingHasDrop

LEMMA DropsNext ==
  ASSUME Types, MadeInv, RemovalInv, DropsInv, [Next]_vars
  PROVE  DropsInv'
<1> USE DEF DroppingHasDrop
<1>1. "main" \in Thread /\ "net" \in Thread /\ "other" \in Thread BY DEF Thread
<1>2. ASSUME at'["main"] = at["main"], hand'["main"] = hand["main"],
             dropping \subseteq dropping', dropQueue \subseteq dropQueue',
             dropQueue' \subseteq dropping',
             \A c \in dropping' \cap registered' :
               c \in dropping \cap registered \/ c \in dropQueue'
      PROVE  DropsInv'
  BY <1>2 DEF DropsInv
<1>3. ASSUME UNCHANGED <<dropping, dropQueue>>,
             registered' \subseteq registered,
             NEW t \in Thread \ {"main"}, NEW c, NEW stage,
             Goto(t, c, stage) \/ Remove(t, c, stage)
      PROVE  DropsInv'
  <2>1. Goto(t, c, stage) BY <1>3, RemoveIs
  <2>2. at'["main"] = at["main"] /\ hand'["main"] = hand["main"]
    BY <1>1, <1>3, <2>1, GotoIs
  <2> QED BY <1>2, <1>3, <2>2 DEF DropsInv
<1>4. ASSUME NEW c, Remove("main", c, "signal"), registered' = registered,
             dropping' = dropping \union {c}, at["main"] \notin Removal,
             dropQueue' \subseteq dropQueue, dropQueue \subseteq dropQueue' \union {c}
      PROVE  DropsInv'
  <2>1. at'["main"] = "signal" /\ hand'["main"] = c
    BY <1>1, <1>4, RemoveIs, GotoIs
  <2> QED BY <1>4, <2>1 DEF DropsInv, Removal
<1>5. ASSUME NEW stage \in Removal, Goto("main", hand["main"], stage),
             at["main"] \in Removal, UNCHANGED <<dropping, dropQueue>>,
             registered' \subseteq registered
      PROVE  DropsInv'
  <2>1. at'["main"] = stage /\ hand'["main"] = hand["main"] BY <1>1, <1>5, GotoIs
  <2> QED BY <1>5, <2>1 DEF DropsInv
<1>6. ASSUME NEW c, NEW stage, Goto("main", c, stage), stage \notin Removal,
             at["main"] \in Removal => hand["main"] \notin registered,
             UNCHANGED <<registered, dropping, dropQueue>>
      PROVE  DropsInv'
  <2>1. at'["main"] = stage BY <1>1, <1>6, GotoIs
  <2> QED BY <1>6, <2>1 DEF DropsInv
<1>7. ConnectionNext => DropsInv'
  <2>1. ASSUME NEW c \in Client, MakeClient(c) PROVE DropsInv'
    BY <1>2, <2>1 DEF DropsInv, MakeClient, MadeInv, SetsMade, setVars, threadVars, queueVars
  <2>2. ASSUME NEW c \in Client, AllowClient(c) PROVE DropsInv'
    BY <1>2, <2>2 DEF DropsInv, AllowClient, indexVars, threadVars, queueVars
  <2>3. ASSUME NEW c \in Client, RejectClient(c) PROVE DropsInv'
    <3>1. "other" \in Thread \ {"main"} BY DEF Thread
    <3>2. UNCHANGED <<dropping, dropQueue>> /\ registered' \subseteq registered
      BY <2>3 DEF RejectClient, setVars, indexVars, queueVars
    <3> QED BY <1>3, <2>3, <3>1, <3>2 DEF RejectClient
  <2> QED BY <2>1, <2>2, <2>3 DEF ConnectionNext
<1>8. RemovalNext => DropsInv'
  <2> SUFFICES ASSUME NEW t \in Thread,
                      RemoveDrop(t) \/ RemoveIds(t) \/ RemoveSlot(t) \/ RemoveGuid(t)
                        \/ RemoveEnd(t)
               PROVE  DropsInv'
    BY DEF RemovalNext
  <2>1. /\ UNCHANGED <<dropping, dropQueue>> /\ registered' \subseteq registered
        /\ \/ /\ at[t] \in Removal
              /\ \E stage \in Removal : Goto(t, hand[t], stage)
           \/ RemoveEnd(t)
    BY DEF RemoveDrop, RemoveIds, RemoveSlot, RemoveGuid, RemoveEnd, Remaining,
           Removal, setVars, indexVars, queueVars
  <2>2. CASE t # "main"
    <3>1. \E c, stage : Goto(t, c, stage) BY <2>1 DEF RemoveEnd, Finish
    <3> QED BY <1>3, <2>1, <2>2, <3>1
  <2>3. CASE t = "main" /\ RemoveEnd(t)
    <3>1. hand["main"] \notin registered BY <1>1, <2>3 DEF RemoveEnd, RemovalInv
    <3>2. UNCHANGED <<registered, dropping, dropQueue>>
      BY <2>3 DEF RemoveEnd, setVars, queueVars
    <3>3. Goto("main", None, "idle") /\ "idle" \notin Removal
      BY <2>3 DEF RemoveEnd, Finish, Removal
    <3> QED BY <1>6, <3>1, <3>2, <3>3
  <2>4. CASE t = "main" /\ ~RemoveEnd(t) BY <1>5, <2>1, <2>4
  <2> QED BY <2>2, <2>3, <2>4
<1>9. NetNext => DropsInv'
  <2> SUFFICES ASSUME NetNext PROVE DropsInv' OBVIOUS
  <2>1. UNCHANGED <<registered, dropping, dropQueue>>
    BY DEF NetNext, HandshakeRefused, HandshakeAccepted, IQuit, AssignPeer, AssignSlot,
           HandshakeNoSlot, HandshakeNew, HandshakeAgain, setVars, indexVars, queueVars
  <2>2. \/ \E c, stage : Goto("net", c, stage) \/ Remove("net", c, stage)
        \/ UNCHANGED threadVars
    BY DEF NetNext, HandshakeRefused, HandshakeAccepted, IQuit, AssignPeer, AssignSlot,
           HandshakeNoSlot, HandshakeNew, HandshakeAgain, Finish
  <2>3. registered' \subseteq registered /\ "net" \in Thread \ {"main"}
    BY <2>1 DEF Thread
  <2>4. CASE UNCHANGED threadVars BY <1>2, <2>1, <2>4 DEF DropsInv, threadVars
  <2> QED BY <1>3, <2>1, <2>2, <2>3, <2>4
<1>10. DropNext => DropsInv'
  <2>1. ASSUME NEW c \in Client, DropOnMain(c) PROVE DropsInv'
    BY <1>4, <2>1 DEF DropOnMain, DropHere, Idle, Removal, indexVars, queueVars
  <2>2. ASSUME NEW c \in Client, RunDrop(c) PROVE DropsInv'
    <3>1. /\ dropQueue' = dropQueue \ {c} /\ UNCHANGED <<registered, dropping>>
          /\ at["main"] = "idle" /\ c \in dropQueue
      BY <2>2 DEF RunDrop, Idle, setVars, indexVars
    <3>2. dropping' = dropping \union {c} BY <3>1 DEF DropsInv
    <3> QED BY <1>4, <2>2, <3>1, <3>2 DEF RunDrop, Removal
  <2>3. ASSUME NEW t \in {"net", "other"}, NEW c \in Client, DropAsked(t, c)
        PROVE  DropsInv'
    <3>1. t \in Thread \ {"main"} BY DEF Thread
    <3>2. UNCHANGED <<dropping, dropQueue>> /\ registered' \subseteq registered
      BY <2>3 DEF DropAsked, setVars, indexVars, queueVars
    <3> QED BY <1>3, <2>3, <3>1, <3>2 DEF DropAsked
  <2>4. ASSUME NEW t \in {"net", "other"}, DropQueued(t) PROVE DropsInv'
    <3>1. t \in Thread \ {"main"} BY DEF Thread
    <3>2. at'["main"] = at["main"] /\ hand'["main"] = hand["main"]
      BY <1>1, <2>4, <3>1, GotoIs DEF DropQueued, Finish
    <3>3. dropping \subseteq dropping' /\ dropQueue \subseteq dropQueue'
      BY <2>4 DEF DropQueued
    <3>4. \A c \in dropping' \cap registered' :
            c \in dropping \cap registered \/ c \in dropQueue'
      BY <2>4 DEF DropQueued, indexVars
    <3>5. dropQueue' \subseteq dropping' BY <2>4 DEF DropsInv, DropQueued
    <3> QED BY <1>2, <3>2, <3>3, <3>4, <3>5
  <2>5. CASE DropClientInternal
    <3>1. registered' \subseteq registered /\ UNCHANGED <<dropping, dropQueue>>
      BY <2>5 DEF DropClientInternal, setVars, indexVars, queueVars
    <3> QED BY <1>5, <2>5, <3>1 DEF DropClientInternal, Removal
  <2> QED BY <2>1, <2>2, <2>3, <2>4, <2>5 DEF DropNext
<1>11. CallbackNext => DropsInv'
  <2> DEFINE c == Head(netQueue).client
  <2>1. CASE RunQuit
    <3>1. CASE c \in dropping
      BY <1>2, <2>1, <3>1 DEF DropsInv, RunQuit, indexVars, threadVars
    <3>2. CASE c \notin dropping
      BY <1>4, <2>1, <3>2 DEF RunQuit, DropHere, Take, Idle, Removal, indexVars
    <3> QED BY <3>1, <3>2
  <2>2. CASE HandleConnectedClient
    <3>1. CASE Goto("main", c, "register")
      BY <1>6, <2>2, <3>1
      DEF HandleConnectedClient, Take, Idle, Removal, setVars, indexVars
    <3>2. CASE UNCHANGED threadVars
      BY <1>2, <2>2, <3>2
      DEF DropsInv, HandleConnectedClient, setVars, indexVars, threadVars
    <3> QED BY <2>2, <3>1, <3>2 DEF HandleConnectedClient
  <2>3. CASE HandleConnectedDropped
    BY <1>4, <2>3 DEF HandleConnectedDropped, DropHere, Take, Idle, Removal, indexVars
  <2>4. CASE RegisterTarget
    BY <1>6, <2>4 DEF RegisterTarget, Removal, setVars, indexVars, queueVars
  <2>5. CASE ConnectOnDrop
    BY <1>6, <2>5 DEF ConnectOnDrop, Finish, Removal, indexVars, queueVars
  <2> QED BY <2>1, <2>2, <2>3, <2>4, <2>5 DEF CallbackNext
<1>12. CASE UNCHANGED vars
  BY <1>2, <1>12 DEF DropsInv, vars, setVars, indexVars, threadVars, queueVars
<1> QED BY <1>7, <1>8, <1>9, <1>10, <1>11, <1>12 DEF Next

---------------------------------------------------------------------------
(* Targets.                                                                *)

PastDrop == {"ids", "slot", "guid", "unassign"}

\* A removal that has passed OnDrop has raised it, or left it to the drop, or is
\* noted as having missed the handler; and it has missed a handler that is running.
Signalled ==
  \A t \in Thread : at[t] \in PastDrop =>
    /\ hand[t] \in connected \union dropping \union missed
    /\ Handled(hand[t]) => hand[t] \in missed

\* A target is the slot of its client, whose removal has not passed OnDrop.
Holds(s, c) ==
  /\ c \in connected \/ (hand["main"] = c /\ at["main"] = "connect")
  /\ slot[c] = s
  /\ \A t \in Thread : at[t] \in PastDrop => hand[t] # c

TargetsHeld == \A s \in Slot : targetOf[s] \notin missed \union {None} => Holds(s, targetOf[s])

TargetsInv ==
  /\ OneSync \/ \A s \in Slot : targetOf[s] = None
  /\ ~again => Signalled /\ TargetsHeld

LEMMA TargetsAre ==
  ASSUME Types, SlotsInv, TargetsInv
  PROVE  TargetsOwned
<1> SUFFICES ASSUME ~again, NEW s \in Slot, targetOf[s] \notin missed \union {None}
             PROVE  bySlot[s] = targetOf[s]
  BY DEF TargetsOwned
<1> DEFINE c == targetOf[s]
<1>1. c \in Client BY DEF Types
<1>2. Holds(s, c) BY DEF TargetsInv, TargetsHeld
<1>3. ~Past(c, {"guid", "unassign"}) BY <1>2 DEF Holds, Past, PastDrop
<1>4. s # -1 BY ConstantsAssumption DEF Slot
<1> QED BY <1>1, <1>2, <1>3, <1>4 DEF Holds, SlotsInv, SlotsOwned

\* A thread goes on, not past OnDrop, and not into the handler or out of it.
LEMMA TargetsStay ==
  ASSUME Types, TargetsInv, NEW t \in Thread, NEW c, NEW stage, Goto(t, c, stage),
         stage \in PastDrop => at[t] \in PastDrop /\ c = hand[t],
         t = "main" => at[t] # "connect" /\ stage \notin {"register", "connect"},
         UNCHANGED <<slot, targetOf, missed, connected>>, dropping \subseteq dropping',
         ~again' => ~again
  PROVE  TargetsInv'
<1>1. at'[t] = stage /\ hand'[t] = c BY GotoIs
<1>2. \A u \in Thread \ {t} : at'[u] = at[u] /\ hand'[u] = hand[u] BY GotoIs
<1>3. "main" \in Thread BY DEF Thread
<1>4. \A u \in Thread : at'[u] \in PastDrop => at[u] \in PastDrop /\ hand'[u] = hand[u]
  BY <1>1, <1>2
<1>5. \A d : Handled(d)' => Handled(d) BY <1>1, <1>2, <1>3 DEF Handled
<1>6. ~again' => Signalled' BY <1>4, <1>5 DEF TargetsInv, Signalled
<1>7. ASSUME ~again', NEW s \in Slot, targetOf'[s] \notin missed' \union {None}
      PROVE  Holds(s, targetOf[s])'
  <2>1. Holds(s, targetOf[s]) BY <1>7 DEF TargetsInv, TargetsHeld
  <2> QED BY <1>1, <1>2, <1>3, <1>4, <2>1 DEF Holds
<1> QED BY <1>6, <1>7 DEF TargetsInv, TargetsHeld

LEMMA TargetsSignalled ==
  ASSUME Types, MadeInv, HandledInv, TargetsInv, NEW t \in Thread, RemoveDrop(t)
  PROVE  TargetsInv'
<1> DEFINE c == hand[t]
<1>1. c \in Client /\ at[t] = "drop" BY HandIsClient DEF RemoveDrop, MadeInv
<1>2. at'[t] = "ids" /\ hand'[t] = c BY GotoIs DEF RemoveDrop
<1>3. \A u \in Thread \ {t} : at'[u] = at[u] /\ hand'[u] = hand[u]
  BY GotoIs DEF RemoveDrop
<1>4. UNCHANGED <<slot, connected, dropping>> BY DEF RemoveDrop, setVars, indexVars
<1>5. "main" \in Thread BY DEF Thread
<1>6. CASE c \in dropping
  BY <1>6 DEF RemoveDrop, TargetsInv
<1>7. CASE c \notin dropping
  <2>1. OnDrop(c) /\ again' = again BY <1>7 DEF RemoveDrop
  <2>2. missed' = IF c \in connected THEN missed ELSE missed \union {c}
    BY <1>7 DEF RemoveDrop
  <2>3. \A s \in Slot :
          targetOf'[s] = IF OneSync /\ c \in connected /\ s = slot[c] THEN None
                         ELSE targetOf[s]
    BY <2>1 DEF OnDrop, Types
  <2>4. \A d : Handled(d)' => Handled(d)
    BY <1>1, <1>2, <1>3, <1>5 DEF Handled
  <2>5. ASSUME ~again', NEW u \in Thread, at'[u] \in PastDrop
        PROVE  /\ hand'[u] \in connected' \union dropping' \union missed'
               /\ Handled(hand[u])' => hand'[u] \in missed'
    <3>1. CASE u = t
      <4>1. Handled(c) => c \notin connected BY <1>1 DEF HandledInv
      <4> QED BY <1>2, <1>4, <2>2, <2>4, <3>1, <4>1
    <3>2. CASE u # t
      <4>1. /\ hand[u] \in connected \union dropping \union missed
            /\ Handled(hand[u]) => hand[u] \in missed
        BY <1>3, <2>1, <2>5, <3>2 DEF TargetsInv, Signalled
      <4>2. hand'[u] = hand[u] BY <1>3, <3>2
      <4> QED BY <1>4, <2>2, <2>4, <4>1, <4>2
    <3> QED BY <3>1, <3>2
  <2>6. ASSUME ~again', NEW s \in Slot, targetOf'[s] \notin missed' \union {None}
        PROVE  Holds(s, targetOf[s])'
    <3>1. targetOf'[s] = targetOf[s] /\ targetOf[s] \notin missed \union {None}
      BY <2>2, <2>3, <2>6
    <3>2. Holds(s, targetOf[s]) BY <2>1, <2>6, <3>1 DEF TargetsInv, TargetsHeld
    <3>3. targetOf[s] # c
      <4> SUFFICES ASSUME targetOf[s] = c PROVE FALSE OBVIOUS
      <4>1. c \in connected BY <2>2, <2>6, <3>1
      <4>2. OneSync BY <3>1 DEF TargetsInv
      <4> QED BY <2>3, <2>6, <3>2, <4>1, <4>2 DEF Holds
    <3> QED BY <1>1, <1>2, <1>3, <1>4, <1>5, <3>1, <3>2, <3>3 DEF Holds
  <2>7. OneSync \/ \A s \in Slot : targetOf'[s] = None BY <2>3 DEF TargetsInv
  <2> QED BY <2>5, <2>6, <2>7 DEF TargetsInv, Signalled, TargetsHeld
<1> QED BY <1>6, <1>7

LEMMA TargetsDropped ==
  ASSUME Types, MadeInv, DropsInv, TargetsInv, DropClientInternal
  PROVE  TargetsInv'
<1> DEFINE c == hand["main"]
<1>1. "main" \in Thread /\ at["main"] = "signal" BY DEF Thread, DropClientInternal
<1>2. c \in Client /\ c \in dropping
  BY <1>1, HandIsClient DEF MadeInv, DropsInv, Removal
<1>3. at'["main"] = "ids" /\ hand'["main"] = c BY <1>1, GotoIs DEF DropClientInternal
<1>4. \A u \in Thread \ {"main"} : at'[u] = at[u] /\ hand'[u] = hand[u]
  BY <1>1, GotoIs DEF DropClientInternal
<1>5. UNCHANGED <<slot, connected, dropping, missed, again>>
  BY DEF DropClientInternal, setVars, indexVars
<1>6. \A s \in Slot :
        targetOf'[s] = IF OneSync /\ c \in connected /\ s = slot[c] THEN None
                       ELSE targetOf[s]
  BY DEF DropClientInternal, OnDrop, Types
<1>7. \A d : ~Handled(d)' BY <1>3 DEF Handled
<1>8. ~again' => Signalled'
  BY <1>2, <1>3, <1>4, <1>5, <1>7 DEF TargetsInv, Signalled
<1>9. ASSUME ~again', NEW s \in Slot, targetOf'[s] \notin missed' \union {None}
      PROVE  Holds(s, targetOf[s])'
  <2>1. targetOf'[s] = targetOf[s] /\ targetOf[s] \notin missed \union {None}
    BY <1>5, <1>6, <1>9
  <2>2. Holds(s, targetOf[s]) BY <1>5, <1>9, <2>1 DEF TargetsInv, TargetsHeld
  <2>3. targetOf[s] \in connected BY <1>1, <2>2 DEF Holds
  <2>4. OneSync BY <2>1 DEF TargetsInv
  <2>5. targetOf[s] # c BY <1>6, <1>9, <2>2, <2>3, <2>4 DEF Holds
  <2> QED BY <1>3, <1>4, <1>5, <2>1, <2>2, <2>3, <2>5 DEF Holds
<1>10. OneSync \/ \A s \in Slot : targetOf'[s] = None BY <1>6 DEF TargetsInv
<1> QED BY <1>8, <1>9, <1>10 DEF TargetsInv, TargetsHeld

LEMMA TargetsRegistered ==
  ASSUME Types, MadeInv, TargetsInv, RegisterTarget
  PROVE  TargetsInv'
<1> DEFINE c == hand["main"]
<1>1. "main" \in Thread /\ at["main"] = "register" BY DEF Thread, RegisterTarget
<1>2. c \in Client BY <1>1, HandIsClient DEF MadeInv
<1>3. at'["main"] = "connect" /\ hand'["main"] = c BY <1>1, GotoIs DEF RegisterTarget
<1>4. \A u \in Thread \ {"main"} : at'[u] = at[u] /\ hand'[u] = hand[u]
  BY <1>1, GotoIs DEF RegisterTarget
<1>5. UNCHANGED <<slot, connected, dropping, missed, again>>
  BY DEF RegisterTarget, setVars, indexVars
<1>6. \A s \in Slot :
        targetOf'[s] = IF OneSync /\ s = slot[c] THEN c ELSE targetOf[s]
  BY DEF RegisterTarget, Types
<1>7. \A d : Handled(d)' => Handled(d) BY <1>1, <1>3 DEF Handled
<1>8. \A u \in Thread : at'[u] \in PastDrop => at[u] \in PastDrop /\ hand'[u] = hand[u]
  BY <1>3, <1>4 DEF PastDrop
<1>9. ~again' => Signalled' BY <1>5, <1>7, <1>8 DEF TargetsInv, Signalled
<1>10. ASSUME ~again', NEW s \in Slot, targetOf'[s] \notin missed' \union {None}
       PROVE  Holds(s, targetOf[s])'
  <2>1. CASE OneSync /\ s = slot[c]
    <3>1. Handled(c) BY <1>1 DEF Handled
    <3>2. \A u \in Thread : at[u] \in PastDrop => hand[u] # c
      BY <1>5, <1>6, <1>10, <2>1, <3>1 DEF TargetsInv, Signalled
    <3> QED BY <1>3, <1>5, <1>6, <1>8, <2>1, <3>2 DEF Holds
  <2>2. CASE ~(OneSync /\ s = slot[c])
    <3>1. targetOf'[s] = targetOf[s] BY <1>6, <2>2
    <3>2. Holds(s, targetOf[s]) BY <1>5, <1>10, <3>1 DEF TargetsInv, TargetsHeld
    <3> QED BY <1>1, <1>5, <1>8, <3>1, <3>2 DEF Holds
  <2> QED BY <2>1, <2>2
<1>11. OneSync \/ \A s \in Slot : targetOf'[s] = None BY <1>6 DEF TargetsInv
<1> QED BY <1>9, <1>10, <1>11 DEF TargetsInv, TargetsHeld

LEMMA TargetsConnected ==
  ASSUME Types, TargetsInv, ConnectOnDrop
  PROVE  TargetsInv'
<1>1. "main" \in Thread /\ at["main"] = "connect" BY DEF Thread, ConnectOnDrop
<1>2. at'["main"] = "idle" BY <1>1, GotoIs DEF ConnectOnDrop, Finish
<1>3. \A u \in Thread \ {"main"} : at'[u] = at[u] /\ hand'[u] = hand[u]
  BY <1>1, GotoIs DEF ConnectOnDrop, Finish
<1>4. /\ UNCHANGED <<slot, targetOf, dropping, missed, again>>
      /\ connected' = connected \union {hand["main"]}
  BY DEF ConnectOnDrop, indexVars, targetVars
<1>5. \A d : ~Handled(d)' BY <1>2 DEF Handled
<1>6. \A u \in Thread : at'[u] \in PastDrop => at[u] \in PastDrop /\ hand'[u] = hand[u]
  BY <1>2, <1>3 DEF PastDrop
<1>7. ~again' => Signalled' BY <1>4, <1>5, <1>6 DEF TargetsInv, Signalled
<1>8. ASSUME ~again', NEW s \in Slot, targetOf'[s] \notin missed' \union {None}
      PROVE  Holds(s, targetOf[s])'
  <2>1. Holds(s, targetOf[s]) BY <1>4, <1>8 DEF TargetsInv, TargetsHeld
  <2> QED BY <1>4, <1>6, <2>1 DEF Holds
<1> QED BY <1>4, <1>7, <1>8 DEF TargetsInv, TargetsHeld

\* A client past the test of IsDropping goes to the handler.
LEMMA TargetsHandled ==
  ASSUME Types, AnnouncedInv, HandledInv, TargetsInv, HandleConnectedClient
  PROVE  TargetsInv'
<1> DEFINE c == Head(netQueue).client
<1>1. "main" \in Thread /\ at["main"] = "idle"
  BY DEF Thread, HandleConnectedClient, Take, Idle
<1>2. UNCHANGED <<slot, connected, dropping, targetOf, missed, again>>
  BY DEF HandleConnectedClient, setVars, indexVars, targetVars
<1>3. CASE UNCHANGED threadVars
  BY <1>2, <1>3 DEF TargetsInv, TargetsHeld, Signalled, Holds, Handled, threadVars
<1>4. CASE Goto("main", c, "register") /\ c \notin dropping
  <2>1. at'["main"] = "register" /\ hand'["main"] = c BY <1>1, <1>4, GotoIs
  <2>2. \A u \in Thread \ {"main"} : at'[u] = at[u] /\ hand'[u] = hand[u]
    BY <1>1, <1>4, GotoIs
  <2>3. \A u \in Thread : at'[u] \in PastDrop => at[u] \in PastDrop /\ hand'[u] = hand[u]
    BY <2>1, <2>2 DEF PastDrop
  <2>4. c \notin connected
    <3>1. Take("connected") BY DEF HandleConnectedClient
    <3>2. c \in Client /\ joins[c] = 0 BY <3>1, HeadIsClient, NotAnnounced
    <3> QED BY <3>2 DEF HandledInv
  <2>5. \A d : Handled(d)' => d = c BY <2>1 DEF Handled
  <2> HIDE DEF c
  <2>6. ~again' => Signalled'
    BY <1>2, <1>4, <2>3, <2>4, <2>5 DEF TargetsInv, Signalled
  <2>7. ASSUME ~again', NEW s \in Slot, targetOf'[s] \notin missed' \union {None}
        PROVE  Holds(s, targetOf[s])'
    <3>1. Holds(s, targetOf[s]) BY <1>2, <2>7 DEF TargetsInv, TargetsHeld
    <3> QED BY <1>1, <1>2, <2>3, <3>1 DEF Holds
  <2> QED BY <1>2, <2>6, <2>7 DEF TargetsInv, TargetsHeld
<1>5. \/ Goto("main", c, "register") /\ c \notin dropping
      \/ UNCHANGED threadVars
  BY DEF HandleConnectedClient, Proceeds
<1> QED BY <1>3, <1>4, <1>5

\* The slot id of a client changes: it was removed, or it had none.
LEMMA TargetsSlot ==
  ASSUME Types, MadeInv, SlotsInv, TargetsInv, NEW t \in Thread,
         RemoveEnd(t) \/ AssignSlot
  PROVE  TargetsInv'
<1>1. "main" \in Thread /\ "net" \in Thread BY DEF Thread
<1>2. PICK u \in Thread, d \in Client, stage \in Stage :
        /\ Goto(u, IF RemoveEnd(t) THEN None ELSE d, stage) /\ hand[u] = d
        /\ stage \notin PastDrop \union {"register", "connect"}
        /\ at[u] \in {"unassign", "pick"}
        /\ \A e \in Client \ {d} : slot'[e] = slot[e]
        /\ at[u] = "unassign" \/ slot[d] = -1
  <2>1. CASE RemoveEnd(t)
    <3>1. hand[t] \in Client BY <2>1, HandIsClient DEF RemoveEnd, MadeInv
    <3>2. /\ Goto(t, None, "idle") /\ at[t] = "unassign"
          /\ \A e \in Client \ {hand[t]} : slot'[e] = slot[e]
      BY <2>1 DEF RemoveEnd, Finish, Types
    <3> QED BY <2>1, <3>1, <3>2 DEF PastDrop, Stage
  <2>2. CASE AssignSlot /\ ~RemoveEnd(t)
    <3>1. hand["net"] \in Client BY <1>1, <2>2, HandIsClient DEF AssignSlot, MadeInv
    <3>2. /\ Goto("net", hand["net"], "check") /\ at["net"] = "pick"
          /\ \A e \in Client \ {hand["net"]} : slot'[e] = slot[e]
          /\ slot[hand["net"]] = -1
      BY <2>2 DEF AssignSlot, SlotsInv, PickInv, Types
    <3> QED BY <1>1, <2>2, <3>1, <3>2 DEF PastDrop, Stage
  <2> QED BY <2>1, <2>2
<1>3. at'[u] = stage BY <1>2, GotoIs
<1>4. \A v \in Thread \ {u} : at'[v] = at[v] /\ hand'[v] = hand[v] BY <1>2, GotoIs
<1>5. UNCHANGED <<connected, dropping, targetOf, missed, again>>
  BY DEF RemoveEnd, AssignSlot, setVars, targetVars
<1>6. \A v \in Thread : at'[v] \in PastDrop => at[v] \in PastDrop /\ hand'[v] = hand[v]
  BY <1>2, <1>3, <1>4
<1>7. \A e : Handled(e)' => Handled(e) BY <1>1, <1>2, <1>3, <1>4 DEF Handled
<1>8. ~again' => Signalled' BY <1>5, <1>6, <1>7 DEF TargetsInv, Signalled
<1>9. ASSUME ~again', NEW s \in Slot, targetOf'[s] \notin missed' \union {None}
      PROVE  Holds(s, targetOf[s])'
  <2>1. Holds(s, targetOf[s]) /\ targetOf[s] \in Client
    BY <1>5, <1>9 DEF TargetsInv, TargetsHeld, Types
  <2>2. s # -1 BY ConstantsAssumption DEF Slot
  <2>3. targetOf[s] # d BY <1>2, <2>1, <2>2 DEF Holds, PastDrop
  <2>4. at["main"] = "connect" => at'["main"] = at["main"] /\ hand'["main"] = hand["main"]
    BY <1>1, <1>2, <1>4
  <2> QED BY <1>2, <1>5, <1>6, <2>1, <2>3, <2>4 DEF Holds
<1> QED BY <1>5, <1>8, <1>9 DEF TargetsInv, TargetsHeld

LEMMA TargetsNext ==
  ASSUME Types, MadeInv, SlotsInv, AnnouncedInv, HandledInv, DropsInv, TargetsInv,
         [Next]_vars
  PROVE  TargetsInv'
<1>1. "main" \in Thread /\ "net" \in Thread /\ "other" \in Thread BY DEF Thread
<1>2. ASSUME UNCHANGED <<at, hand, slot, targetOf, missed, connected, again>>,
             dropping \subseteq dropping'
      PROVE  TargetsInv'
  BY <1>2 DEF TargetsInv, TargetsHeld, Signalled, Holds, Handled
<1>3. ASSUME NEW t \in Thread, NEW c, NEW stage, Goto(t, c, stage),
             stage \notin PastDrop, t = "main" => at[t] = "idle" /\ stage = "signal",
             UNCHANGED <<slot, targetOf, missed, connected>>, dropping \subseteq dropping',
             ~again' => ~again
      PROVE  TargetsInv'
  BY <1>3, TargetsStay
<1>4. ASSUME NEW t \in Thread, NEW c, NEW stage \in {"signal", "drop"},
             Remove(t, c, stage), t = "main" => at[t] = "idle" /\ stage = "signal",
             UNCHANGED <<slot, targetOf, missed, connected>>, dropping \subseteq dropping'
      PROVE  TargetsInv'
  <2>1. Goto(t, c, stage) /\ (~again' => ~again) BY <1>4, RemoveIs
  <2>2. stage \notin PastDrop BY <1>4 DEF PastDrop
  <2> QED BY <1>3, <1>4, <2>1, <2>2
<1>5. ConnectionNext => TargetsInv'
  <2>1. ASSUME NEW c \in Client, MakeClient(c) \/ AllowClient(c) PROVE TargetsInv'
    BY <1>2, <2>1
    DEF MakeClient, AllowClient, indexVars, threadVars, targetVars
  <2>2. ASSUME NEW c \in Client, RejectClient(c) PROVE TargetsInv'
    BY <1>1, <1>4, <2>2 DEF RejectClient, setVars, indexVars
  <2> QED BY <2>1, <2>2 DEF ConnectionNext
<1>6. RemovalNext => TargetsInv'
  <2> SUFFICES ASSUME NEW t \in Thread,
                      RemoveDrop(t) \/ RemoveIds(t) \/ RemoveSlot(t) \/ RemoveGuid(t)
                        \/ RemoveEnd(t)
               PROVE  TargetsInv'
    BY DEF RemovalNext
  <2>1. CASE RemoveIds(t)
    BY <2>1, TargetsStay DEF RemoveIds, PastDrop, setVars, targetVars
  <2>2. CASE RemoveSlot(t)
    BY <2>2, TargetsStay DEF RemoveSlot, PastDrop, setVars, targetVars
  <2>3. CASE RemoveGuid(t)
    BY <2>3, TargetsStay DEF RemoveGuid, PastDrop, setVars, targetVars
  <2> QED BY <2>1, <2>2, <2>3, TargetsSignalled, TargetsSlot
<1>7. NetNext => TargetsInv'
  <2>0. "net" # "main" /\ {"idle", "assign", "pick", "check"} \cap PastDrop = {}
    BY DEF PastDrop
  <2>1. ASSUME NEW c \in Client, HandshakeRefused(c) PROVE TargetsInv'
    BY <1>1, <1>4, <2>1 DEF HandshakeRefused, setVars, indexVars
  <2>2. ASSUME NEW c \in Client, HandshakeAccepted(c) PROVE TargetsInv'
    BY <1>1, <1>3, <2>0, <2>2 DEF HandshakeAccepted, setVars, indexVars, targetVars
  <2>3. ASSUME NEW c \in Client, IQuit(c) PROVE TargetsInv'
    BY <1>2, <2>3 DEF IQuit, setVars, indexVars, threadVars, targetVars
  <2>4. CASE AssignPeer
    <3>1. (IF NeedsSlot(hand["net"]) THEN "pick" ELSE "check") \notin PastDrop
      BY DEF PastDrop
    <3> QED BY <1>1, <1>3, <2>0, <2>4, <3>1 DEF AssignPeer, setVars, targetVars
  <2>5. CASE AssignSlot BY <1>1, <2>5, TargetsSlot
  <2>6. CASE HandshakeNoSlot
    BY <1>1, <1>4, <2>6 DEF HandshakeNoSlot, setVars, indexVars
  <2>7. CASE HandshakeNew
    BY <1>1, <1>3, <2>0, <2>7 DEF HandshakeNew, Finish, setVars, targetVars
  <2>8. CASE HandshakeAgain
    BY <1>1, <1>3, <2>0, <2>8 DEF HandshakeAgain, Finish, setVars, indexVars, targetVars
  <2> QED BY <2>1, <2>2, <2>3, <2>4, <2>5, <2>6, <2>7, <2>8 DEF NetNext
<1>8. DropNext => TargetsInv'
  <2>1. ASSUME NEW c \in Client, DropOnMain(c) PROVE TargetsInv'
    BY <1>1, <1>4, <2>1 DEF DropOnMain, DropHere, Idle, indexVars
  <2>2. ASSUME NEW c \in Client, RunDrop(c) PROVE TargetsInv'
    BY <1>1, <1>4, <2>2 DEF RunDrop, Idle, setVars, indexVars
  <2>3. ASSUME NEW t \in {"net", "other"}, NEW c \in Client, DropAsked(t, c)
        PROVE  TargetsInv'
    <3>1. "ask" \notin PastDrop /\ t \in Thread /\ t # "main" BY DEF PastDrop, Thread
    <3> QED BY <1>3, <2>3, <3>1 DEF DropAsked, setVars, indexVars, targetVars
  <2>4. ASSUME NEW t \in {"net", "other"}, DropQueued(t) PROVE TargetsInv'
    <3>1. "idle" \notin PastDrop /\ t \in Thread /\ t # "main" BY DEF PastDrop, Thread
    <3> QED BY <1>3, <2>4, <3>1 DEF DropQueued, Finish, indexVars, targetVars
  <2> QED BY <1>1, <2>1, <2>2, <2>3, <2>4, TargetsDropped DEF DropNext
<1>9. CallbackNext => TargetsInv'
  <2> DEFINE c == Head(netQueue).client
  <2>1. CASE RunQuit
    <3>1. CASE c \in dropping
      BY <1>2, <2>1, <3>1 DEF RunQuit, indexVars, threadVars
    <3>2. CASE c \notin dropping
      BY <1>1, <1>4, <2>1, <3>2 DEF RunQuit, DropHere, Take, Idle, indexVars
    <3> QED BY <3>1, <3>2
  <2>2. CASE HandleConnectedDropped
    BY <1>1, <1>4, <2>2 DEF HandleConnectedDropped, DropHere, Take, Idle, indexVars
  <2> QED
    BY <2>1, <2>2, TargetsHandled, TargetsRegistered, TargetsConnected DEF CallbackNext
<1>10. CASE UNCHANGED vars
  BY <1>2, <1>10 DEF vars, setVars, indexVars, threadVars, targetVars
<1> QED BY <1>5, <1>6, <1>7, <1>8, <1>9, <1>10 DEF Next

---------------------------------------------------------------------------
(* The theorems.                                                           *)

RegistryInv ==
  /\ Types
  /\ MadeInv
  /\ RemovalInv
  /\ SlotsInv
  /\ NetIdsOwned
  /\ AnnouncedInv
  /\ HandledInv
  /\ DropsInv
  /\ TargetsInv

LEMMA RegistryInit == Init => RegistryInv
<1> SUFFICES ASSUME Init PROVE RegistryInv OBVIOUS
<1>1. Types BY TypesInit
<1>2. Len(netQueue) = 0 BY DEF Init
<1>3. \A t \in Thread : at[t] = "idle" BY DEF Init
<1>4. MadeInv
  BY <1>2, <1>3 DEF Init, MadeInv, ThreadInv, SetsMade, TablesMade, QueueMade
<1>5. RemovalInv BY <1>3 DEF RemovalInv, Removal
<1>6. "main" \in Thread /\ "net" \in Thread BY DEF Thread
<1>7. SlotsInv
  <2>1. None \notin registered BY DEF Init
  <2> QED BY <1>3, <1>6, <2>1 DEF Init, SlotsInv, SlotsOwned, PickInv
<1>8. NetIdsOwned BY DEF Init, NetIdsOwned
<1>9. \A c : Announcements(c) = {} BY <1>2 DEF Announcements
<1>10. AnnouncedInv BY <1>9 DEF Init, AnnouncedInv
<1>11. HandledInv BY <1>3, <1>6 DEF Init, HandledInv, Handled
<1>12. DropsInv BY <1>3, <1>6 DEF Init, DropsInv, DroppingHasDrop, Removal
<1>13. TargetsInv BY <1>3 DEF Init, TargetsInv, Signalled, TargetsHeld, PastDrop
<1> QED BY <1>1, <1>4, <1>5, <1>7, <1>8, <1>10, <1>11, <1>12, <1>13 DEF RegistryInv

LEMMA RegistryInductive == Spec => []RegistryInv
<1>1. RegistryInv /\ [Next]_vars => RegistryInv'
  <2> SUFFICES ASSUME RegistryInv, [Next]_vars PROVE RegistryInv' OBVIOUS
  <2>1. ThreadInv BY DEF RegistryInv, MadeInv
  <2> QED
    BY <2>1, TypesNext, MadeNext, RemovalInvNext, SlotsNext, NetIdsNext, AnnouncedNext,
       HandledNext, DropsNext, TargetsNext
    DEF RegistryInv
<1> QED BY <1>1, RegistryInit, PTL DEF Spec

\* Every variable has its type, whatever the threads interleave.
THEOREM TypeCorrect == Spec => []TypeOK
<1>1. RegistryInv => TypeOK BY TypesIsTypeOK DEF RegistryInv
<1> QED BY <1>1, RegistryInductive, PTL

\* A slot is one client's, with RemoveClient on three threads, table by table,
\* and a handshake that assigns slots between its steps.
THEOREM SlotsOneOwner == Spec => []SlotsOwned
<1>1. RegistryInv => SlotsOwned BY DEF RegistryInv, SlotsInv
<1> QED BY <1>1, RegistryInductive, PTL

\* A target of the state bags belongs to the client that holds the slot, except for
\* a client removed before its OnConnectedClient handler connected to OnDrop.
THEOREM TargetsHaveOwners == Spec => []TargetsOwned
<1>1. RegistryInv => TargetsOwned BY TargetsAre DEF RegistryInv
<1> QED BY <1>1, RegistryInductive, PTL

\* A net id names one client of the registry, also after the wrap of m_curNetId.
THEOREM NetIdsOneOwner == Spec => []NetIdsOwned
<1>1. RegistryInv => NetIdsOwned BY DEF RegistryInv
<1> QED BY <1>1, RegistryInductive, PTL

\* A client of the registry with m_dropping has its drop queued or under way.
THEOREM DropsQueued == Spec => []DroppingHasDrop
<1>1. RegistryInv => DroppingHasDrop BY DEF RegistryInv, DropsInv
<1> QED BY <1>1, RegistryInductive, PTL

\* playerJoining is raised, or waits to be, exactly once for a numbered client.
THEOREM AnnouncedExactlyOnce == Spec => []AnnouncedOnce
<1>1. RegistryInv => AnnouncedOnce BY AnnouncedCount DEF RegistryInv
<1> QED BY <1>1, RegistryInductive, PTL

---------------------------------------------------------------------------
(* Slots and net ids as pools of numbers.                                  *)

\* What a step does to the tables of slots and net ids: nothing, one step of a
\* removal, a slot for the client that had none, or a net id for one.
TablesStep ==
  \/ UNCHANGED <<netId, byNetId, bySlot>>
  \/ \E t \in Thread : RemoveIds(t) \/ RemoveSlot(t)
  \/ AssignSlot
  \/ HandshakeNew

LEMMA TablesChange ==
  ASSUME [Next]_vars
  PROVE  TablesStep
<1>1. CASE UNCHANGED <<netId, byNetId, bySlot>> BY <1>1 DEF TablesStep
<1>2. ConnectionNext => TablesStep
  BY <1>1 DEF ConnectionNext, MakeClient, AllowClient, RejectClient, indexVars
<1>3. RemovalNext => TablesStep
  BY <1>1 DEF RemovalNext, RemoveDrop, RemoveGuid, RemoveEnd, TablesStep, indexVars
<1>4. NetNext => TablesStep
  BY <1>1
  DEF NetNext, HandshakeRefused, HandshakeAccepted, IQuit, AssignPeer, HandshakeNoSlot,
      HandshakeAgain, TablesStep, indexVars
<1>5. DropNext => TablesStep
  BY <1>1
  DEF DropNext, DropOnMain, RunDrop, DropAsked, DropQueued, DropClientInternal, indexVars
<1>6. CallbackNext => TablesStep
  BY <1>1
  DEF CallbackNext, RunQuit, HandleConnectedClient, HandleConnectedDropped,
      RegisterTarget, ConnectOnDrop, indexVars
<1> QED BY <1>1, <1>2, <1>3, <1>4, <1>5, <1>6 DEF Next, vars, indexVars

\* One number of a table is reset, whether it had an owner or not.
LEMMA TableReset ==
  ASSUME NEW Number, NEW owner \in [Number -> Client \union {None}], NEW x
  PROVE  LET table == [n \in Number |-> IF n = x THEN None ELSE owner[n]]
         IN  \/ table = owner
             \/ x \in Number /\ owner[x] # None /\ table = [owner EXCEPT ![x] = None]
<1> DEFINE table == [n \in Number |-> IF n = x THEN None ELSE owner[n]]
<1>1. CASE x \in Number /\ owner[x] # None
  <2>1. table = [owner EXCEPT ![x] = None] BY <1>1
  <2> QED BY <1>1, <2>1
<1>2. CASE ~(x \in Number /\ owner[x] # None)
  <2>1. table = owner BY <1>2
  <2> QED BY <2>1
<1> QED BY <1>1, <1>2

LEMMA SlotPoolNext ==
  ASSUME RegistryInv, [Next]_vars
  PROVE  [SlotPool!Next]_bySlot
<1>1. Types /\ MadeInv /\ SlotsInv BY DEF RegistryInv
<1>2. CASE bySlot' = bySlot BY <1>2
<1>3. ASSUME NEW t \in Thread, RemoveSlot(t) PROVE [SlotPool!Next]_bySlot
  <2>1. bySlot' = [s \in Slot |-> IF s = slot[hand[t]] THEN None ELSE bySlot[s]]
    BY <1>3 DEF RemoveSlot
  <2>2. bySlot \in [Slot -> Client \union {None}] BY <1>1 DEF Types
  <2>3. \/ bySlot' = bySlot
        \/ \E s \in Slot : bySlot[s] # None /\ bySlot' = [bySlot EXCEPT ![s] = None]
    BY <2>1, <2>2, TableReset
  <2> QED BY <2>3 DEF SlotPool!Next, SlotPool!Give
<1>4. CASE AssignSlot
  <2> DEFINE c == hand["net"]
             h == HighestSlot
  <2>1. "net" \in Thread /\ at["net"] = "pick" BY <1>4 DEF Thread, AssignSlot
  <2>2. c \in Client /\ slot[c] = -1
    BY <1>1, <2>1, HandIsClient DEF MadeInv, SlotsInv, PickInv
  <2>3. CASE FreeSlots # {}
    <3>1. h \in Slot /\ bySlot[h] = None BY <2>3, HighestSlotIs DEF FreeSlots
    <3>2. bySlot' = [bySlot EXCEPT ![h] = c] BY <1>4, <2>3 DEF AssignSlot
    <3>3. c \in registered => \A s \in Slot : bySlot[s] # c
      BY <1>1, <2>2, ConstantsAssumption DEF SlotsInv, SlotsOwned, Slot
    <3>4. SlotPool!Take(h, c) BY <3>1, <3>2, <3>3 DEF SlotPool!Take
    <3> QED BY <2>2, <3>1, <3>4 DEF SlotPool!Next
  <2> QED BY <1>2, <1>4, <2>3 DEF AssignSlot
<1> QED
  BY <1>2, <1>3, <1>4, TablesChange DEF TablesStep, RemoveIds, HandshakeNew

\* Whoever an id leads to has that id, also when it has been removed since.
HoldersInv == \A i \in NetId : byNetId[i] # None => netId[byNetId[i]] = i

LEMMA NetIdPoolNext ==
  ASSUME RegistryInv, HoldersInv, [Next]_vars
  PROVE  HoldersInv' /\ [NetIdPool!Next]_byNetId
<1>1. Types /\ MadeInv BY DEF RegistryInv
<1>2. CASE UNCHANGED <<netId, byNetId>> BY <1>2 DEF HoldersInv
<1>3. ASSUME NEW t \in Thread, RemoveIds(t)
      PROVE  HoldersInv' /\ [NetIdPool!Next]_byNetId
  <2>1. byNetId' = [i \in NetId |-> IF i = netId[hand[t]] THEN None ELSE byNetId[i]]
    BY <1>3 DEF RemoveIds
  <2>2. byNetId \in [NetId -> Client \union {None}] BY <1>1 DEF Types
  <2>3. \/ byNetId' = byNetId
        \/ \E i \in NetId : byNetId[i] # None /\ byNetId' = [byNetId EXCEPT ![i] = None]
    BY <2>1, <2>2, TableReset
  <2>4. HoldersInv' BY <1>3, <2>1 DEF HoldersInv, RemoveIds
  <2> QED BY <2>3, <2>4 DEF NetIdPool!Next, NetIdPool!Give
<1>4. CASE HandshakeNew
  <2> DEFINE c  == hand["net"]
             id == FirstFreeId
  <2>1. "net" \in Thread /\ at["net"] = "check" BY <1>4 DEF Thread, HandshakeNew
  <2>2. c \in Client /\ netId[c] = 0 /\ HandleConnectingClient(c)
    BY <1>1, <1>4, <2>1, HandIsClient DEF MadeInv, HandshakeNew
  <2>3. id \in NetId /\ byNetId[id] = None
    BY <2>2, FirstFreeIdIs DEF HandleConnectingClient, FreeIds
  <2>4. /\ netId' = [netId EXCEPT ![c] = id]
        /\ byNetId' = [byNetId EXCEPT ![id] = c]
    BY <2>2 DEF HandleConnectingClient
  <2> HIDE DEF id
  <2>5. \A i \in NetId : byNetId[i] # c
    BY <2>2, ConstantsAssumption DEF HoldersInv, NetId
  <2>6. NetIdPool!Take(id, c) BY <2>3, <2>4, <2>5 DEF NetIdPool!Take
  <2>7. HoldersInv'
    BY <1>1, <2>2, <2>3, <2>4, <2>5 DEF HoldersInv, Types
  <2> QED BY <2>2, <2>3, <2>6, <2>7 DEF NetIdPool!Next
<1> QED
  BY <1>2, <1>3, <1>4, TablesChange DEF TablesStep, RemoveSlot, AssignSlot

\* Slots are a pool of numbers: none goes from one client to another without
\* being free in between, and no client of the registry takes a second one.
THEOREM SlotsArePool == Spec => SlotPool!Spec
<1>1. Init => SlotPool!Init BY DEF Init, SlotPool!Init
<1>2. RegistryInv /\ [Next]_vars => [SlotPool!Next]_bySlot BY SlotPoolNext
<1> QED BY <1>1, <1>2, RegistryInductive, PTL DEF Spec, SlotPool!Spec

\* So are net ids, although m_curNetId wraps and removals reset entries.
THEOREM NetIdsArePool == Spec => NetIdPool!Spec
<1>1. Init => NetIdPool!Init /\ HoldersInv BY DEF Init, NetIdPool!Init, HoldersInv
<1>2. RegistryInv /\ HoldersInv /\ [Next]_vars
        => HoldersInv' /\ [NetIdPool!Next]_byNetId
  BY NetIdPoolNext
<1> QED BY <1>1, <1>2, RegistryInductive, PTL DEF Spec, NetIdPool!Spec

\* The registry implements both pools.
THEOREM RegistryImplementsPools == Spec => ImplementsPools
BY SlotsArePool, NetIdsArePool, PTL DEF ImplementsPools
===========================================================================
