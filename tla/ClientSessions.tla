-------------------------- MODULE ClientSessions --------------------------
(***************************************************************************)
(* The client registry of the server and the life of a client in it: the   *)
(* ENet handshake on the network thread, the callbacks it queues for the   *)
(* main thread, the drops that any thread may ask for, the removals on     *)
(* three threads, and the slot and net id a client owns meanwhile          *)
(* (ClientRegistry.cpp, ClientRegistry.h, and ProcessPacket, DropClientv   *)
(* and DropClientInternal of GameServer).                                  *)
(*                                                                         *)
(* RemoveClient, OnAssignPeer and the OnConnectedClient handler take a     *)
(* step for each table they write and each lock they take: at says where a *)
(* thread is, hand with which client.  Each client object has its own guid *)
(* here; two clients of one guid are the subject of InitConnect.  The      *)
(* callback queue of the main thread keeps the order of what one thread    *)
(* adds, and no order between threads.  A weak reference never expires: an *)
(* entry that RemoveClient leaves behind keeps its number from reuse.      *)
(***************************************************************************)
EXTENDS Integers, Sequences, FiniteSets

CONSTANTS
  Client,       \* client objects
  None,         \* an empty reference
  OneSync,      \* IsOneSync()
  NumSlots,     \* m_clientsBySlotId.size()
  SpecialSlot,  \* the slot that is never given away (31)
  MaxNetId,     \* the last net id before the invalid one (0xFFFE)
  MaxQueue,     \* bound: callbacks of the net thread that wait, for IQuit
  MaxBusy       \* bound: threads in the middle of a handshake, a drop or a removal

ASSUME ConstantsAssumption ==
  /\ None \notin Client
  /\ OneSync \in BOOLEAN
  /\ NumSlots \in Nat
  /\ SpecialSlot \in Nat
  /\ MaxNetId \in Nat \ {0}
  /\ MaxQueue \in Nat
  /\ MaxBusy \in Nat

Slot  == (0 .. NumSlots - 1) \ {SpecialSlot}
NetId == 1 .. MaxNetId

\* "other" stands for the TCP thread, where a connection request is cancelled, and
\* for the threads that drop clients, like the sync thread.
Thread == {"main", "net", "other"}

VARIABLES
  made,        \* clients MakeClient has constructed
  registered,  \* m_clients
  validated,   \* clients with "passedValidation"
  dropping,    \* clients with m_dropping
  connected,   \* clients to whose OnDrop the OnConnectedClient handler connected
  peered,      \* clients m_clientsByPeer leads to
  netId,       \* m_netId, 0 while it is a temporary one
  byNetId,     \* m_clientsByNetId
  curNetId,    \* m_curNetId
  slot,        \* m_slotId
  bySlot,      \* m_clientsBySlotId
  targetOf,    \* targets of the state bags: which client registered the slot
  at,          \* where each thread is
  hand,        \* the client it is busy with
  netQueue,    \* main-thread callbacks the net thread has queued
  dropQueue,   \* clients whose DropClientInternal another thread has queued
  joins,       \* playerJoining events raised, by client
  again,       \* a client was removed under a drop or a removal, or after one
  missed       \* clients removed before the handler had connected to OnDrop

setVars    == <<made, validated, dropping, connected>>
indexVars  == <<registered, peered, netId, byNetId, curNetId, slot, bySlot>>
threadVars == <<at, hand>>
queueVars  == <<netQueue, dropQueue, joins>>
targetVars == <<targetOf, again, missed>>
vars == <<setVars, indexVars, threadVars, queueVars, targetVars>>

Init ==
  /\ made = {} /\ registered = {} /\ validated = {} /\ dropping = {}
  /\ connected = {} /\ peered = {}
  /\ netId = [c \in Client |-> 0]
  /\ byNetId = [i \in NetId |-> None]
  /\ curNetId = 1
  /\ slot = [c \in Client |-> -1]
  /\ bySlot = [s \in Slot |-> None]
  /\ targetOf = [s \in Slot |-> None]
  /\ at = [t \in Thread |-> "idle"]
  /\ hand = [t \in Thread |-> None]
  /\ netQueue = <<>>
  /\ dropQueue = {}
  /\ joins = [c \in Client |-> 0]
  /\ again = FALSE
  /\ missed = {}

\* Thread t may begin something.
Idle(t) ==
  /\ at[t] = "idle"
  /\ Cardinality({u \in Thread : at[u] # "idle"}) < MaxBusy

\* Thread t goes on with client c, or is through with it.
Goto(t, c, stage) ==
  /\ at' = [at EXCEPT ![t] = stage]
  /\ hand' = [hand EXCEPT ![t] = c]

Finish(t) == Goto(t, None, "idle")

---------------------------------------------------------------------------
(* RemoveClient, on whatever thread: OnDrop unless the client is being     *)
(* dropped, the tables of peers and net ids, the slot under its mutex, the *)
(* guid under another one, and last the slot id of the client.             *)

Removal == {"signal", "drop", "ids", "slot", "guid", "unassign"}

Removing(c) == \E t \in Thread : hand[t] = c /\ at[t] \in Removal

\* Thread t begins to drop ("signal") or to remove ("drop") client c.
Remove(t, c, stage) ==
  /\ Goto(t, c, stage)
  /\ again' = (again \/ c \notin registered \/ Removing(c))

\* OnDrop: the handler that OnConnectedClient installed takes the target away.
\* The target -1 of a client without a slot is left out.
OnDrop(c) ==
  targetOf' = IF OneSync /\ c \in connected THEN [targetOf EXCEPT ![slot[c]] = None]
              ELSE targetOf

RemoveDrop(t) ==
  LET c == hand[t] IN
  /\ at[t] = "drop"
  /\ IF c \in dropping
     THEN again' = TRUE /\ UNCHANGED <<targetOf, missed>>
     ELSE /\ OnDrop(c)
          /\ missed' = IF c \in connected THEN missed ELSE missed \union {c}
          /\ again' = again
  /\ Goto(t, c, "ids")
  /\ UNCHANGED <<setVars, indexVars, queueVars>>

\* The entries of the tables, whoever they belong to.
RemoveIds(t) ==
  LET c == hand[t] IN
  /\ at[t] = "ids"
  /\ peered' = peered \ {c}
  /\ byNetId' = [i \in NetId |-> IF i = netId[c] THEN None ELSE byNetId[i]]
  /\ Goto(t, c, "slot")
  /\ UNCHANGED <<setVars, registered, netId, curNetId, slot, bySlot, queueVars,
                 targetVars>>

RemoveSlot(t) ==
  LET c == hand[t] IN
  /\ at[t] = "slot"
  /\ bySlot' = [s \in Slot |-> IF s = slot[c] THEN None ELSE bySlot[s]]
  /\ Goto(t, c, "guid")
  /\ UNCHANGED <<setVars, registered, peered, netId, byNetId, curNetId, slot,
                 queueVars, targetVars>>

Remaining_KeepsDropping(c) == IF c \in dropping THEN registered ELSE registered \ {c}
Remaining(c) == registered \ {c}

RemoveGuid(t) ==
  LET c == hand[t] IN
  /\ at[t] = "guid"
  /\ registered' = Remaining(c)
  /\ Goto(t, c, "unassign")
  /\ UNCHANGED <<setVars, peered, netId, byNetId, curNetId, slot, bySlot, queueVars,
                 targetVars>>

RemoveEnd(t) ==
  /\ at[t] = "unassign"
  /\ slot' = [slot EXCEPT ![hand[t]] = -1]
  /\ Finish(t)
  /\ UNCHANGED <<setVars, registered, peered, netId, byNetId, curNetId, bySlot,
                 queueVars, targetVars>>

---------------------------------------------------------------------------
(* The connection request.                                                 *)

MakeClient(c) ==
  /\ c \notin made
  /\ made' = made \union {c}
  /\ registered' = registered \union {c}
  /\ UNCHANGED <<validated, dropping, connected, peered, netId, byNetId, curNetId,
                 slot, bySlot, threadVars, queueVars, targetVars>>

\* It ends on the main thread, when the client may join,
AllowClient(c) ==
  /\ Idle("main")
  /\ c \in registered \ validated
  /\ validated' = validated \union {c}
  /\ UNCHANGED <<made, dropping, connected, indexVars, threadVars, queueVars,
                 targetVars>>

\* or with a removal, which the main thread may overtake with an AllowClient.
RejectClient(c) ==
  /\ Idle("other")
  /\ c \in registered \ validated
  /\ Remove("other", c, "drop")
  /\ UNCHANGED <<setVars, indexVars, queueVars, targetOf, missed>>

---------------------------------------------------------------------------
(* The handshake, on the network thread.                                   *)

\* A handshake that does not carry the token of the client it names, or names
\* one that has not been let in, removes that client.
HandshakeRefused(c) ==
  /\ Idle("net")
  /\ c \in registered
  /\ Remove("net", c, "drop")
  /\ UNCHANGED <<setVars, indexVars, queueVars, targetOf, missed>>

\* The client is looked up and passes the checks; any other thread may drop or
\* remove it before the handshake goes on.
HandshakeAccepted(c) ==
  /\ Idle("net")
  /\ c \in registered \cap validated
  /\ Goto("net", c, "assign")
  /\ UNCHANGED <<setVars, indexVars, queueVars, targetVars>>

\* OnAssignPeer: the table of peers, and a look at the client's slot id, which
\* takes no lock: a client that reconnects keeps its slot,
NeedsSlot_Always(c) == OneSync
NeedsSlot(c) == OneSync /\ slot[c] = -1

AssignPeer ==
  LET c == hand["net"] IN
  /\ at["net"] = "assign"
  /\ peered' = peered \union {c}
  /\ Goto("net", c, IF NeedsSlot(c) THEN "pick" ELSE "check")
  /\ UNCHANGED <<setVars, registered, netId, byNetId, curNetId, slot, bySlot,
                 queueVars, targetVars>>

\* another one gets the highest slot that is free, under the mutex of the slots.
FreeSlots_Any == Slot
FreeSlots == {s \in Slot : bySlot[s] = None}

HighestSlot == CHOOSE s \in FreeSlots : \A r \in FreeSlots : r <= s

AssignSlot ==
  LET c == hand["net"] IN
  /\ at["net"] = "pick"
  /\ IF FreeSlots = {} THEN UNCHANGED <<slot, bySlot>>
     ELSE /\ slot' = [slot EXCEPT ![c] = HighestSlot]
          /\ bySlot' = [bySlot EXCEPT ![HighestSlot] = c]
  /\ Goto("net", c, "check")
  /\ UNCHANGED <<setVars, registered, peered, netId, byNetId, curNetId, queueVars,
                 targetVars>>

\* The first net id from m_curNetId on, round the wrap, that is not in use.
FreeIds_Any == NetId
FreeIds == {i \in NetId : byNetId[i] = None}

FirstFreeId ==
  LET ahead == {i \in FreeIds : i >= curNetId}
      pool  == IF ahead # {} THEN ahead ELSE FreeIds
  IN  CHOOSE i \in pool : \A j \in pool : i <= j

IncrementId_NoWrap(i) == i + 1
IncrementId(i) == IF i = MaxNetId THEN 1 ELSE i + 1

HandleConnectingClient(c) ==
  /\ FreeIds # {}
  /\ netId' = [netId EXCEPT ![c] = FirstFreeId]
  /\ byNetId' = [byNetId EXCEPT ![FirstFreeId] = c]
  /\ curNetId' = IncrementId(FirstFreeId)

\* After SetPeer: with OneSync a client without a slot is removed again,
HasSlot(c) == ~OneSync \/ slot[c] # -1

HandshakeNoSlot ==
  LET c == hand["net"] IN
  /\ at["net"] = "check"
  /\ ~HasSlot(c)
  /\ Remove("net", c, "drop")
  /\ UNCHANGED <<setVars, indexVars, queueVars, targetOf, missed>>

\* a new one gets its net id, and its callback on the main thread,
HandshakeNew ==
  LET c == hand["net"] IN
  /\ at["net"] = "check"
  /\ HasSlot(c)
  /\ netId[c] = 0
  /\ HandleConnectingClient(c)
  /\ netQueue' = Append(netQueue, [do |-> "connected", client |-> c])
  /\ Finish("net")
  /\ UNCHANGED <<setVars, registered, peered, slot, bySlot, dropQueue, joins,
                 targetVars>>

\* and one that has reconnected keeps its net id.
HandshakeAgain ==
  LET c == hand["net"] IN
  /\ at["net"] = "check"
  /\ HasSlot(c)
  /\ netId[c] # 0
  /\ Finish("net")
  /\ UNCHANGED <<setVars, indexVars, queueVars, targetVars>>

\* msgIQuit: the drop itself is left to a callback on the main thread.
IQuit(c) ==
  /\ Idle("net")
  /\ c \in peered
  /\ Len(netQueue) < MaxQueue
  /\ netQueue' = Append(netQueue, [do |-> "quit", client |-> c])
  /\ UNCHANGED <<setVars, indexVars, threadVars, dropQueue, joins, targetVars>>

---------------------------------------------------------------------------
(* Drops.                                                                  *)

\* DropClientInternal, on the main thread: after playerDropped OnDrop is raised,
\* and RemoveClient, which finds m_dropping set, does the rest.
DropClientInternal_Silent ==
  LET c == hand["main"] IN
  /\ at["main"] = "signal"
  /\ Goto("main", c, "ids")
  /\ UNCHANGED <<setVars, indexVars, queueVars, targetVars>>

DropClientInternal ==
  LET c == hand["main"] IN
  /\ at["main"] = "signal"
  /\ OnDrop(c)
  /\ Goto("main", c, "ids")
  /\ UNCHANGED <<setVars, indexVars, queueVars, again, missed>>

\* DropClientv on the main thread, where the callback runs in place.
DropHere(c) ==
  /\ dropping' = dropping \union {c}
  /\ Remove("main", c, "signal")

\* A timeout, a script or the end of the server drops a client.
DropOnMain(c) ==
  /\ Idle("main")
  /\ c \in registered \ dropping
  /\ DropHere(c)
  /\ UNCHANGED <<made, validated, connected, indexVars, queueVars, targetOf, missed>>

\* DropClientv on another thread: m_dropping is read, then written, and only
\* then is the callback queued.  Of two threads that both ask, the one that queues
\* after the first callback has run brings a second one.
DropAsked(t, c) ==
  /\ Idle(t)
  /\ c \in registered \ dropping
  /\ Goto(t, c, "ask")
  /\ UNCHANGED <<setVars, indexVars, queueVars, targetVars>>

DropQueued(t) ==
  /\ at[t] = "ask"
  /\ dropping' = dropping \union {hand[t]}
  /\ dropQueue' = dropQueue \union {hand[t]}
  /\ Finish(t)
  /\ UNCHANGED <<made, validated, connected, indexVars, netQueue, joins, targetVars>>

---------------------------------------------------------------------------
(* Callbacks on the main thread.                                           *)

RunDrop(c) ==
  /\ Idle("main")
  /\ c \in dropQueue
  /\ dropQueue' = dropQueue \ {c}
  /\ Remove("main", c, "signal")
  /\ UNCHANGED <<setVars, indexVars, netQueue, joins, targetOf, missed>>

Take(what) ==
  /\ Idle("main")
  /\ netQueue # <<>>
  /\ Head(netQueue).do = what
  /\ netQueue' = Tail(netQueue)

RunQuit ==
  /\ Take("quit")
  /\ LET c == Head(netQueue).client
     IN  IF c \in dropping THEN UNCHANGED <<dropping, threadVars, again>>
         ELSE DropHere(c)
  /\ UNCHANGED <<made, validated, connected, indexVars, dropQueue, joins, targetOf,
                 missed>>

\* HandleConnectedClient: after playerJoining, unless the client is being
\* dropped, OnConnectedClient.
Proceeds(c) == c \notin dropping

Announce_Checked(c) == joins' = [joins EXCEPT ![c] = IF c \in dropping THEN @ ELSE @ + 1]
Announce(c) == joins' = [joins EXCEPT ![c] = @ + 1]

HandleConnectedClient ==
  /\ Take("connected")
  /\ LET c == Head(netQueue).client
     IN  /\ Announce(c)
         /\ IF Proceeds(c) THEN Goto("main", c, "register") ELSE UNCHANGED threadVars
  /\ UNCHANGED <<setVars, indexVars, dropQueue, targetVars>>

\* The same, when a handler of playerJoining drops the client in place.
HandleConnectedDropped ==
  /\ Take("connected")
  /\ LET c == Head(netQueue).client
     IN  /\ c \notin dropping
         /\ Announce(c)
         /\ DropHere(c)
  /\ UNCHANGED <<made, validated, connected, indexVars, dropQueue, targetOf, missed>>

\* The OnConnectedClient handler makes the slot a target, and only then connects
\* to OnDrop.
RegisterTarget ==
  LET c == hand["main"] IN
  /\ at["main"] = "register"
  /\ targetOf' = IF OneSync THEN [targetOf EXCEPT ![slot[c]] = c] ELSE targetOf
  /\ Goto("main", c, "connect")
  /\ UNCHANGED <<setVars, indexVars, queueVars, again, missed>>

ConnectOnDrop ==
  /\ at["main"] = "connect"
  /\ connected' = connected \union {hand["main"]}
  /\ Finish("main")
  /\ UNCHANGED <<made, validated, dropping, indexVars, queueVars, targetVars>>

---------------------------------------------------------------------------

ConnectionNext ==
  \E c \in Client : MakeClient(c) \/ AllowClient(c) \/ RejectClient(c)

RemovalNext ==
  \E t \in Thread :
    RemoveDrop(t) \/ RemoveIds(t) \/ RemoveSlot(t) \/ RemoveGuid(t) \/ RemoveEnd(t)

NetNext ==
  \/ \E c \in Client : HandshakeRefused(c) \/ HandshakeAccepted(c) \/ IQuit(c)
  \/ AssignPeer \/ AssignSlot
  \/ HandshakeNoSlot \/ HandshakeNew \/ HandshakeAgain

DropNext ==
  \/ \E c \in Client : DropOnMain(c) \/ RunDrop(c)
  \/ \E t \in {"net", "other"} : DropQueued(t) \/ \E c \in Client : DropAsked(t, c)
  \/ DropClientInternal

CallbackNext ==
  \/ RunQuit \/ HandleConnectedClient \/ HandleConnectedDropped
  \/ RegisterTarget \/ ConnectOnDrop

Next == ConnectionNext \/ RemovalNext \/ NetNext \/ DropNext \/ CallbackNext

Spec == Init /\ [][Next]_vars

---------------------------------------------------------------------------
(* Properties.                                                             *)

Callback == [do : {"connected", "quit"}, client : Client]
Stage    ==
  Removal \union {"idle", "assign", "pick", "check", "ask", "register", "connect"}

\* Every variable has its type.
TypeOK ==
  /\ \A s \in {made, registered, validated, dropping, connected, peered, dropQueue,
               missed} : s \subseteq Client
  /\ netId \in [Client -> NetId \union {0}]
  /\ byNetId \in [NetId -> Client \union {None}]
  /\ curNetId \in NetId
  /\ slot \in [Client -> Slot \union {-1}]
  /\ bySlot \in [Slot -> Client \union {None}]
  /\ targetOf \in [Slot -> Client \union {None}]
  /\ at \in [Thread -> Stage]
  /\ hand \in [Thread -> Client \union {None}]
  /\ netQueue \in Seq(Callback)
  /\ joins \in [Client -> Nat]
  /\ again \in BOOLEAN

\* A client that some thread removes, and has got to one of these steps.
Past(c, stages) == \E t \in Thread : hand[t] = c /\ at[t] \in stages

\* A slot is one client's: whoever of the registry m_clientsBySlotId leads to has
\* that slot, and it leads to whoever has a slot, until the client's removal has
\* emptied the entry (and the slot id is still to be reset); the second half as
\* long as no client was removed a second time.
SlotsOwned ==
  /\ \A s \in Slot : bySlot[s] \in registered => slot[bySlot[s]] = s
  /\ ~again =>
       \A c \in Client :
         slot[c] # -1 /\ ~Past(c, {"guid", "unassign"}) => bySlot[slot[c]] = c

\* A state bag target belongs to the client that holds its slot: what was sent to
\* a client that left never goes to the next owner of the slot.  Left out are
\* the clients removed before OnConnectedClient had connected to their OnDrop,
\* and behaviours where a client was removed under a drop or a removal.
TargetsOwned ==
  ~again =>
    \A s \in Slot : targetOf[s] \notin missed \union {None} => bySlot[s] = targetOf[s]

\* A net id names one client of the registry, also after the ids have wrapped,
\* until the removal of the client has emptied its entry, and as long as no
\* client was removed a second time.
NetIdsOwned ==
  ~again =>
    \A c \in registered :
      netId[c] # 0 /\ ~Past(c, {"slot", "guid", "unassign"}) => byNetId[netId[c]] = c

\* A client with a final net id is announced to scripts once: playerJoining was
\* raised or waits in the queue, however often the client repeats the handshake
\* and also when it has been dropped meanwhile.  It says nothing of the order
\* with playerDropped.
Announcements(c) ==
  {i \in 1 .. Len(netQueue) : netQueue[i] = [do |-> "connected", client |-> c]}

AnnouncedOnce ==
  \A c \in Client :
    joins[c] + Cardinality(Announcements(c)) = IF netId[c] = 0 THEN 0 ELSE 1

\* DropClientv returns at once for a client with m_dropping: one that is still in
\* the registry has its drop queued or under way, or nothing would remove it.
DroppingHasDrop ==
  \A c \in dropping \cap registered :
    c \in dropQueue \/ (hand["main"] = c /\ at["main"] \in Removal)

\* "assert(client->GetSlotId() != -1)" of the OnConnectedClient handler: with
\* OneSync every client that reaches it has a slot.
ConnectedHasSlot ==
  OneSync /\ at["main"] = "register" => slot[hand["main"]] # -1

\* "reconnecting clients will assign a peer again, but should *not* be assigned a
\* new slot ID" and "ensure no client is currently using said ID": slots and net
\* ids are pools of which a client takes one number at most and only a free one,
\* although it repeats its handshake while others are removed.  A client that has
\* left the registry in the middle of its handshake may take a second slot.
SlotPool  == INSTANCE NumberPool WITH Number <- Slot, owner <- bySlot,
                                      members <- registered
NetIdPool == INSTANCE NumberPool WITH Number <- NetId, owner <- byNetId,
                                      members <- Client

ImplementsPools == SlotPool!Spec /\ NetIdPool!Spec

===========================================================================
