# A TLA+ verification project for the CitizenFX server

The repository holds the CitizenFX platform: a multiplayer game server
(`code/components/citizen-server-*`, `citizen-resources-*`, `net-*`), the game
client that is hooked into GTA V, and a large amount of vendored code. This
project models the server's own concurrent logic: the protocols in which
threads, remote clients and scripts meet. Paths below are relative to
`src/code/components/`.

## 1. Inventory

### The threads of the server

| thread | what runs on it | file |
|---|---|---|
| main thread (`svMain`) | script ticks, resource events, everything posted with `gscomms_execute_callback_on_main_thread` or queued by `DeferCall`, `ProcessServerFrame` | `citizen-server-impl/src/GameServer.cpp` |
| net thread (`svNetwork`) | ENet, `ProcessPacket`, the handshake | `citizen-server-impl/src/GameServer.cpp` |
| sync thread | OneSync ticks, `msgStateBag` packets | `citizen-server-impl/src/state/ServerGameState.cpp` |
| TCP loop | accept, multiplexing, HTTP parsing, close and cancel handlers | `net-tcp-server`, `net-http-server` |
| worker pool | HTTP handlers, identity providers | `citizen-server-impl/src/ClientHttpHandler.cpp` |

### Components

| component | state | operations | what is hard | properties that make it correct |
|---|---|---|---|---|
| Latent event transfer (`EventReassemblyComponent.cpp`) | targets, send list with a bit vector per target, receive list with a bit vector per source | RegisterTarget, UnregisterTarget, TriggerEvent, NetworkTick, HandlePacket | loss, reordering and repetition of packets; two critical sections in TriggerEvent; collection of finished entries; a bounded counter on the wire | no silent loss, intact delivery, at most once, everything drains |
| Connection request (`InitConnectMethod.cpp`) | the HTTP request, the client being made, `didSucceed`, `cbRef`, `deferrals`, `earlyReject` | the checks, MakeClient, the authentication chain, playerConnecting, the answer, the cancel handler | four threads; the connection can close at any moment; a second request for the same guid | only agreed players get in, one honest answer, OnDrop follows OnClientCreated |
| Connection deferrals (`ClientDeferral.cpp`) | a state per resource, `m_ranEvents`, `m_pending`, `m_completed`, callbacks, a timer | defer, update, presentCard, done, RanEvents | calls in any order, inside the event and after it | unanimity, the player is answered |
| Client registry and sessions (`ClientRegistry.cpp`, `Client.cpp`, `GameServer.cpp`) | clients by guid, net id, slot and peer; the net id counter; queued drops | MakeClient, RemoveClient, HandleConnectingClient, HandleConnectedClient, DropClient, time-out | removal from every thread, reuse of net ids and slots | indexes agree, no ghosts, playerDropped pairs with playerJoining |
| Host arbitration (`GameServer.cpp`, `msgIHost`, `msgHeHost`) | vouches per candidate, `m_hostNetId` | vouch, SetHost, host drops | net and main thread set and broadcast the host | the last broadcast is the host (not modelled) |
| Main-thread queue and callback lists (`GameServer.cpp`) | lock-free queues, a signalled flag | Add, Run, DeferCall | a lost wake-up | everything queued runs, in order |
| Resource lifecycle and dependencies (`Resource.cpp`, `ResourceDependencyLoader.cpp`, `ResourceBuildTasks.cpp`, `ResourceManager.cpp`) | state of a resource, lists of dependants and of those that wait, builds | Start, Stop, builds; Load, Destroy, Reset | starts and stops nested in each other, vetoes, builds that end later or at once | a running resource has running dependencies, a stop reaches dependants, waiters are woken, calls return |
| Resource events (`ResourceEventComponent.cpp`) | event queue, stack of canceled flags | TriggerEvent, QueueEvent, CancelEvent, Tick | nested events | cancellation belongs to its event |
| State bags (`StateBagComponent.cpp`) | weak map of bags, targets, routing targets, erasure list, bags made ahead | SetKey, RegisterTarget, SetRoutingTargets, AddRoutingTarget, RegisterStateBag, HandlePacket, the tick | two threads and four mutexes; an id used again while its old bag dies | targets converge, routed bags stay routed, no deadlock, the id leads to the live bag |
| HTTP/1 server, TCP server, multiplexing, per-address limits | sessions, pipelines, counters | parse, end, close, accept | close racing a handler | counters return to zero, one response per request |
| OneSync game state (`ServerGameState.cpp`) | entities, sync trees, object ids, acknowledgements | parse clone packets, tick, assign ids | out-of-order acks, ownership changes | one owner, ids not handed out twice |
| Ticket verification, rate limiter, watchdog, monitor, VFS, HTTP client, script runtimes, game client | | | | see section 8 |

### How they interact

A player's launcher sends `initConnect` over HTTP (pool thread). The handler
makes a client in the registry, asks the identity providers, posts to the main
thread, where `playerConnecting` runs in all resources. Resources answer
through a `ClientDeferral`, at once or much later. Meanwhile the TCP loop may
report a closed connection (cancel handler), another request may drop the
client (queued on the main thread), a server frame may time it out, and the
player may already shake hands over ENet (net thread). Once connected, the
client's net id is a target of the latent event transfer
(`ServerResources.cpp`), whose packets travel on an unreliable ENet channel.
`OnDrop` unregisters the target again.

With OneSync the client's slot is a target of the state bags as well, from
`OnConnectedClient` to `OnDrop`. Scripts set keys on the main thread; the sync
thread routes the bags of entities to the clients that see them and releases
those of entities that go. Resources start and stop on the main thread, by
command, native or the end of a build, and one start or stop calls others.

## 2. Modules

| module | models | lines of code |
|---|---|---|
| `EventReassembly` | both roles of the latent event transfer, the network between them, and time | `citizen-resources-core/src/EventReassemblyComponent.cpp` |
| `LatentEvents` | what the transfer promises (abstract) | the interface of the same component |
| `MCEventReassembly` | constants and fairness for TLC | |
| `EventReassembly_proofs` | TLAPS proofs | |
| `InitConnect` | one connection request with its deferral, its client and an older client of the same guid | `citizen-server-impl/src/InitConnectMethod.cpp`, `ClientDeferral.cpp`, `include/ClientRegistry.h`, parts of `GameServer.cpp`, `Client.cpp` |
| `MCInitConnect` | constants for TLC | |
| `InitConnect_proofs` | TLAPS proofs | |
| `ClientSessions` | several clients in the registry: handshake, net ids, slots, queued callbacks, drops | `citizen-server-impl/src/ClientRegistry.cpp`, `include/ClientRegistry.h`, `ProcessPacket`, `DropClientv`, `DropClientInternal`, `IQuitPacketHandler` of `GameServer.cpp` |
| `NumberPool` | what the registry promises of slots and of net ids (abstract) | the interface of the same component |
| `MCClientSessions`, `ClientSessions_proofs` | symmetry for TLC; TLAPS proofs | |
| `StateBag` | one key of one bag and its replication | `StateBagImpl` and the targets of `StateBagComponentImpl` in `citizen-resources-core/src/StateBagComponent.cpp` |
| `StateBagRegistry` | one id and the bags that come and go under it | the map, the erasure list and the bags made ahead in the same file |
| `MCStateBag`, `MCStateBagRegistry`, `StateBag_proofs`, `StateBagRegistry_proofs` | instances for TLC; TLAPS proofs | |
| `ResourceLifecycle` | Start and Stop as a stack of calls | `citizen-resources-core/src/Resource.cpp`, `ResourceDependencyLoader.cpp`, `citizen-server-impl/src/ResourceBuildTasks.cpp`, the game check of `ServerResources.cpp` |
| `MCResourceLifecycle`, `ResourceLifecycle_proofs` | manifests for TLC; TLAPS proofs | |

### EventReassembly

The class plays both roles; the model gives one endpoint the sending half and
every member of `Target` the receiving half.

* `targets`, `sends`, `sendTargets`, `targetData`, `ackBits`, `lastBit`,
  `delayed` are `m_targets`, `m_sendList` and the fields of `SendEvent`;
  `receiveList`, `total`, `ackedBits`, `packetData`, `completed`, `age` are
  `m_receiveList` and the fields of `ReceiveEvent`. `audience`, `handled` and
  `queued` are history that the properties use.
* `TriggerEvent` releases the lock between the copy of the target set and the
  insertion: `TriggerEventSnapshot` and `TriggerEventInsert`.
* `NetworkTick` is split by what it does for one due pair of event and target:
  done (`NetworkTickDone`), restart at the first gap (`NetworkTickRestart`),
  send from `lastBit` on (`NetworkTickBurst`), nothing due (`NetworkTickIdle`).
  Every one of them includes the clean-up at the end of the tick
  (`TickSendList`). The collection of receives is `PeerNetworkTick`.
* `HandlePacket` is `HandlePacketAck`, `HandlePacketKnown` and
  `HandlePacketNew`.
* The pacing by `bytesPerSecond` decides only when a pair is due and how long
  a burst is; both are left open. Fragments are numbers; their bytes are not
  represented. The counters of the packet header have a width, `Wire`.
* The network is a set: it loses and reorders; repetition comes from the
  sender, which sends every unacknowledged fragment again each cycle.
* `Elapse` is the passing of time at the receivers. It assumes that an event
  which is still being sent is not silent for `MaxSilence` units, and
  `ConstantsAssumption` says `MaxSilence < GcTime`. In the code a cycle repeats
  after 250 ms and `gc_time` is two minutes, and a peer that hears nothing for so
  long is dropped by ENet. This is the one timing assumption of the transfer.
* A net id in `Target` is registered once. On the server net ids are 16 bits
  that wrap; a receive list that outlives a net id is finding 2 below.

### InitConnect

`stage` says how far the handler is:

    new -> refused
        -> looked -> made -> auth -> await -> posted -> event -> ran (-> allow) -> left
                                  (or bailed, from made, auth or await)

`looked` lies between the drop of an older client of the guid and
`MakeClient`; in `await` the handler has returned and a provider will answer
later, so that only the registry keeps the client alive; `posted` to `left`
are on the main thread, and in `allow` it lets in a player nobody deferred. Shared pointers are modelled by who owns the object:
`Alive` for the client, `DeferralAlive` for the `ClientDeferral`
(`*deferrals`, the callback's `deferralsRef`, or a card handler that captures
it). `earlyReject`, `succeeded`, `cbRef`, `held` are `*earlyReject`,
`*didSucceed`, `*cbRef`, `*deferrals`.

* Scripts call `Defer`, `UpdateMessage`, `PresentCard` and `Done` in any order,
  inside the event (`stage = "event"`) and after it.
* `Update` is the tail of `UpdateDeferrals` with the resolve, reject and
  message callbacks that `InitConnectMethod` installs; `RanEvents` replays what
  was pending.
* Letting a player in takes three steps of the main thread, which runs nothing
  else meanwhile (`admitting`): `allowClient` sets `passedValidation`
  (`AllowClient`, in `Resolve` or `RespondNow`) and then `*success`
  (`AllowSucceeds`), and the answer follows (`Resolved`, `Responded`).
* The cancel handler takes three steps of the TCP thread (`closing`): it locks
  the client and tests `*didSucceed` (`OnClose`), removes the client
  (`CloseRemoves`), and resets `*cbRef` and `*deferrals` (`CloseEnds`). The two
  threads share no lock, so these steps and the three above come in any order.
* `OnClose` (TCP thread), `Supersede` (another pool thread), `TimeOut` and
  `DropClientInternal` (main thread), `Handshake` and `HandshakeRefused` (net
  thread) can come between any two steps, subject to the thread they run on:
  nothing of the main thread comes between `event` and `left` except scripts.
* `Reconnecting` puts an older client of the same guid in the registry. Its
  drop is queued (`oldDrop`) by this request, and the main thread runs its
  queue in order, so `RaiseConnecting` waits for it. `MakeClient` is an
  `emplace`, so the older entry stays; `RemoveClient` erases the entry of the
  guid whoever's it is. It is one step here, where only that entry matters;
  `ClientSessions` has its parts.
* The checks before a client is made (version, name, ticket and others) are one
  refusal: none of them changes state that this component keeps.
* Time is a three-valued `lastSeen`. `Elapse` makes a client old when it is not
  seen for `CLIENT_VERY_DEAD_TIMEOUT`; the tick that touches a client with a
  live deferral is the guard of `Elapse`.

### ClientSessions

* `registered`, `byNetId`, `bySlot`, `peered` are the tables of the registry;
  `netId`, `slot`, `validated`, `dropping` are fields of the clients; `connected`
  has the clients to whose `OnDrop` the `OnConnectedClient` handler has connected,
  and `targetOf` the slots it has registered with the state bags, with the client
  for whom. `joins`, `again` and `missed` are history.
* Three threads, `at` and `hand` (where each is, and with which client): the main
  thread, the net thread, and one for the TCP thread and the others that drop or
  reject clients.
* `RemoveClient` runs on any of them, a step for each table it writes and each lock
  it takes: `OnDrop` unless the client is being dropped (`RemoveDrop`), the tables
  by peer and net id (`RemoveIds`), the slot (`RemoveSlot`), the guid
  (`RemoveGuid`) and last the slot id of the client (`RemoveEnd`).
* The handshake of the net thread is `HandshakeAccepted` (look-up and checks),
  `AssignPeer` (the table by peer, and a look at the slot id without a lock),
  `AssignSlot` (under the mutex of the slots), and then `HandshakeNoSlot`,
  `HandshakeNew` or `HandshakeAgain`. Between any two another thread may drop or
  remove the client, which goes on to get a slot and a net id all the same.
* `HandleConnectedClient` raises playerJoining and tests `m_dropping`; the
  `OnConnectedClient` handler then registers the slot (`RegisterTarget`) and only
  after that connects to `OnDrop` (`ConnectOnDrop`).
* `DropClientv` reads `m_dropping`, writes it, and hands a callback to the main
  thread. There it runs in place (`DropHere`); on another thread these are
  `DropAsked`, `DropQueued` and `RunDrop`. `DropClientInternal` raises `OnDrop`, and
  the steps of `RemoveClient` follow.
* The queue of the main thread keeps the order of what one thread adds, and no
  order between threads: `netQueue` is a sequence, `dropQueue` a set.
* `again` says that `RemoveClient` was called for a client while a drop or another
  removal of it was under way, or a second time. The code resets table entries by
  number then, whoever they belong to by now. `missed` has the clients whose
  `OnDrop` was raised before the handler had connected to it.
* `SlotPool` and `NetIdPool` are two instances of `NumberPool`: the owner of a
  slot is the client in `bySlot`, the owner of a net id the client in `byNetId`.
* `RemoveSlot` reads the slot id once, where the code reads it three times
  (`ClientRegistry.h:103-106`); only a second removal could change it in between.
  Left out are the target -1 that `UnregisterTarget` gets for a client without a
  slot, handlers of playerDropped that drop other clients, and the end of client
  objects: a weak reference in a table never expires, so an entry that a removal
  leaves behind keeps its number from reuse.

### StateBag

A call is a sequence of steps of its thread, one for each stretch of code under
a mutex: `pc` is where a thread is, `lock` the mutex it holds, `todo` the targets
it has still to serve. `SendKey` reads the value under the data mutex, and
`QueueSend` queues the packet later (`held`). `RegisterTarget` is three steps: the
slot becomes a target (`RegisterTarget`), the map is locked shared (`Registered`),
and one bag after the other is sent (`SendAllInitial`), which needs the routing
mutex while the call holds that of the map. A value is named by the number of the
call that set it (`data`, 0 for none); `got` is what the client of a slot will end
with, as the channel is reliable and in order.

`scoped` bags are those of entities. `ENSURE_ENTITY_STATE_BAG` makes one in three
steps of the main thread: the bag is registered, without any routing targets, or
that of an earlier entity is found (`EnsureStateBag`); `SetRoutingTargets` moves
the old set away under the mutex; `Reroute` assigns the new one, with the target
-1 (`Self`), and sends the key to the new targets. `SendKeyAll` looks at the set
without the mutex, so the sync thread can find it empty in between, twice.

Slots go from client to client. `ScopeTo` is a worker of the sync thread that has
found a client in its slot, and `AddRoutingTarget` comes later; `stale` is the slot
if its client has left by then. `SetRoutingTargets(ts, rs)` takes the bits of
`relevantTo`, of which those outside `rs` are of clients that have left, as the
sync thread clears them later. History tells what follows from that: `routed` has
the slots whose present client the bag was routed to, `stray` the others that were
routed, or served by a `SendKeyAll` that looked too soon (`early`).

Both threads set the key: with a change handler all writes are queued to the
main thread, without one the sync thread writes, too. `syncSet`, history, says
that it has.

The workers are one thread, of which the routing mutex would let in one at a time
anyway. The `OnDrop` handler that calls `UnregisterTarget` is on the main thread
here, where a drop runs it; a removal on another thread may run it there
(`ClientSessions`), which this model leaves out, like the bags of players in big
mode.

### StateBagRegistry

`entry` is the weak reference of the id, `Alive` whether anybody has a strong
one: an owner (`holder`), the list of bags made ahead (`pre`) or a call under
way (`local`). `RegisterStateBag` is `LookUp` and then `Disown` or `Spare` and
`Return`; the destructor of a bag is `Release` and `UnregisterStateBag`, the
erasure `Tick` and `Erase`. A client has one thread and prefixes that are safe
to create; a server has two threads and none.

### ResourceLifecycle

`stack` holds the calls of `Start` and `Stop` under way, each with its stage and
the resources it has still to serve; only the call on top moves. A start goes

    enter -> starting -> deps (-> await -> deps) -> build -> run -> wake
                     \-> refused <------/------------/      |
                            (returns false)  <--------------/

and a stop from `enter` to `stopping`. The callee answers a caller in `await`
by moving it to `deps` or `refused`. The order of the handlers is that of
their priorities: the event (-10000), the dependency loader (-9999), build tasks
(1000). `OnStart` begins with the check of the game (`ServerResources.cpp:656`,
the least priority there is), which returns false for the resources in `Foreign`
and so ends the event before any script runs (`Denied`); the scripts follow, and
last the waking of those that wait (9999999). The other handlers of `OnStart`
return nothing or true.

`TriggerBuild` has no test for a build that is under way: a second start asks the
providers again and begins a second build, so `builds` counts those of each
resource, up to the bound `MaxBuilds`. The second build replaces the vector that
the callbacks of the first one iterate (`ResourceBuildTasks.cpp:190`); with several
providers the first build goes on with iterators into freed memory. The model
has each build end once, by a start or by a failure, and leaves the crash out.

Three variables are history. `rushed`: the resources that went on, since they
were last stopped, in the middle of their own start (the branch for `Starting` in
`Resource::Start`). `trusted`: pairs of a dependency and a resource that noted it
while it was still being set up. `restarted`: pairs on the waiting list whose
waiter was started for it (observation 3 below).

## 3. Runs

| run | result | question |
|---|---|---|
| `er_fragments` | holds | is an event of one to three fragments delivered whole, at most once, and never given up early, whatever the network loses and whoever leaves, and does the transfer implement `LatentEvents`? |
| `er_live` | holds | does every event arrive, and do both lists drain? |
| `er_oversize` | violated | finding 1 |
| `er_late_packet` | violated | finding 2 |
| `ic_reconnect` | holds | with an older client of the guid: unanimity, honest and eventual answers, no ghosts, and when a close may remove an admitted client; which players can be answered twice, and when is `*deferrals` read as null? |
| `ic_reconnect_lost` | violated | finding 3 |
| `cs` | holds | do slots, net ids and state bag targets have one owner, is every client announced once and every drop carried out, while two clients race on three threads, and are the tables of slots and of net ids pools that implement `NumberPool`? |
| `sb` | holds | as long as one thread sets the key, do targets converge, without going back to an older value; do routed bags stay with those they are routed to, but for three windows; and do all calls return without a deadlock of the mutexes? |
| `sbr_client` | holds | does an id lead to its live bag on the one thread of a client, bags made ahead included? |
| `cs_assert` | violated | finding 4 |
| `sbr_server` | violated | finding 5 |
| `rl` | holds | do dependencies run, waiters wake, stops reach dependants and calls return, for nested starts and stops, and does a call ever come back to the resource of a call below it? |

Bounds, and why they are enough:

* `FragmentSize = 2`, `PacketLimit = 4` (the code: 1023 and 2^17): sizes 1, 3
  and 6 give a partial single fragment, a partial last fragment and a full last
  fragment; three fragments are the least with a gap before and after
  `lastBit`. Size 7 is the largest size below `MaxPacketSize` and needs as many
  fragments as the wire can count to plus one.
* `MaxEvents = 1`: events share no state but the network and `m_eventId`; the
  theorems cover any number of events and targets.
* `MaxInFlight` bounds the network in the guard of `NetworkTickBurst`. Two
  packets are enough for reordering, three for a whole event in flight.
* `GcTime = 2`, `MaxSilence = 1`: the smallest values with a difference.
* Two resources, one identity provider: with two resources one may finish,
  reject or re-defer while the other waits; one provider is enough for an
  answer that comes after the handler returned.
* `cs`, `cs_assert`: two clients, two slots beside the special one and one net
  id, which runs out, wraps at once and is used again by the other client; slots
  are used again, and one client can meet the number of the other. `MaxBusy = 2`
  lets two of the three threads be in the middle of a handshake, a drop or a
  removal at once: every pair of such calls interleaves step by step. `MaxQueue =
  1` bounds the `msgIQuit` packets that wait. The theorems have neither bound. The
  clients are permuted (`Symmetry`); the runs have no liveness property.
* `sb`: two slots and two writes: a second value while the first is on its way,
  a slot that is used again, and a client that the bag is routed to beside one
  that it is not. `sbr_*`: two owners, and bags for four (three) registrations.
* `rl`: `app` needs `lib` and `core`, `lib` needs `core`: a shared dependency and a
  chain; one constraint that fails (`tool`), one resource for another game
  (`mod`), one that needs it and a dependency that is missing (`broken`), and
  builds of `lib`, two at once (`MaxBuilds = 2`): one that ends while another
  goes on.
* `CHECK_DEADLOCK FALSE` everywhere: a request ends, a transfer has nothing to
  do when all events have been sent, the key is set a bounded number of times,
  clients and bags are used up. That calls return is a property of its own.

### Fairness

`EventReassembly!Fairness`: ticks happen on a timer (weak fairness of the
`NetworkTick` actions and of the delay); a `TriggerEvent` call between its
locks goes on; a packet that is sent again and again is finally handled
(strong fairness of `HandlePacket`, the usual reading of a lossy channel that
is not dead; bursts need strong fairness for the same reason, because the bound
on the network can disable them); a target that closed its connection times
out, which unregisters it; time passes. No fairness for registering, for
triggering, or for dropping a healthy target.

`InitConnect!Fairness`: pool and main threads run, identity providers answer,
every resource with an open deferral finally calls `done` and does not defer
for ever; queued drops run; frames find dead clients; time passes. Scripts that
never call `done` do block a player, so this assumption is a duty of the
resources. No fairness for the handshake: `NoGhosts` holds for a player who
never shows up.

`StateBag!Fairness`: both threads go on with the call they are in. It is strong
fairness, because a mutex that is free again and again may be taken by the other
thread each time, and the mutexes of the platforms do not starve a waiter for
ever. No fairness for beginning a call. `StateBagRegistry!Fairness`: calls
return and the resource manager ticks, again and again between the calls of
the main thread. `ResourceLifecycle!FairSpec`: the main thread goes on with the
call on top; no fairness for commands or for builds that end.

## 4. Properties

* `NoSilentLoss`: the sender forgets a target only if the target has
  reassembled the event or one side dropped the other.
* `DeliveredIntact`: what is reassembled is exactly the event's fragments and
  fits the buffer.
* `AtMostOnce`, `ImplementsLatentEvents`: an event is queued only where it was
  addressed, after it was triggered, once.
* `EventuallyHandled`, `SendsDrain`, `CompletedCollected`: liveness, and
  neither list leaks.
* `AdmittedUnanimously`: a client that may join was agreed to by every resource
  that deferred it, and the event was not canceled.
* `AnswerHonest`: as long as the client is registered, the player who was told
  "no" cannot join and the one who was told "yes" can.
* `OnlyRefusalsRepeat`: observation 7 in its full extent: the response is ended
  twice, or written to after its end, only for a player whose event was canceled or
  who was rejected inside it, never for one who was let in otherwise, and never
  three times. `NullOnlyIfClosed`: the null `*deferrals` of observation 1 takes a
  close; a deferral that was completed in the event is not read.
* `AdmittedSurvivesClose`: the cancel handler, which also runs at the normal
  end of the connection, decides to remove a client that has passed only if it
  comes between the two assignments of `allowClient` (observation 8).
* `DropFollowsCreate`: a client that is gone has raised `OnDrop`.
* `EventuallyAnswered`, `NoGhosts`: the player is answered; a registered client
  connects or leaves.
* `SlotsOwned`, `NetIdsOwned`, `TargetsOwned`: a slot, a net id, a state bag
  target is one client's, also when it is used again. They name the steps of a
  removal in which the tables and the client disagree, and exempt a second removal
  (`again`) and, for targets, the clients in `missed`; observations 5 and 9 are what
  TLC finds without these exemptions. `ImplementsPools`: every step of the registry takes a free number for a
  client without one, gives one back, or leaves the pool alone; no number
  passes from one client to another directly.
* `AnnouncedOnce`: playerJoining is raised or queued once for every client with
  a final net id, although the announcement may come after its
  playerDropped: the order of the two is not part of it. `DroppingHasDrop`: nobody
  is left with `m_dropping` and without a drop. `ConnectedHasSlot` is the assertion
  of the handler as the code has it, and violated (finding 4).
* `Converged`, `OnlyForward` of `StateBag`: convergence at rest and no older value
  after a newer one, both as long as the main thread alone has set the key.
  `RoutedOnly`, whoever sets it: no value outside the routing targets, but for
  slots that one of the windows of observation 10 has exposed, slot by slot.
  `NoDeadlock`: of the calls under way one has the mutexes that its next step
  takes, although two of them wait for one mutex with the other locked;
  `CallsReturn` adds that they end.
* `LiveFound`, `OnlyOwnersHold`, `DeadForgotten`: the id leads to the bag its
  owners hold, the component does not keep it alive, dead entries go.
* `DependenciesRun`, `StopReachesDependants`, `NothingLeftOver` (at rest no
  resource is half started, `NoneHalfStarted`, and every waiter is woken,
  `WaitersWoken`), and `CallsReturn` of `ResourceLifecycle`: what starting and stopping promise.
  `DependenciesRun` bounds what goes wrong: a resource runs without a dependency
  in the two ways of observation 3 and in no other. `PutOffKept`: a waiter leaves
  the list only after it was started again.
  `NoRecursion`: calls that are nested by one relation (starts of dependencies,
  starts of waiters, stops of dependants) do not come back to a resource, so that
  the recursion of the loader is no deeper than there are resources.

For every one of these properties the module holds a mutant of the code
(`<definition>_<change>`) under which TLC finds it violated.

## 5. Findings

1. `er_oversize` (`EventReassemblyComponent.cpp:239`): an event just below
   `kMaxPacketSize` has 2^`kPacketSizeBits` fragments, the total reads back as
   0, and the first fragment completes the event in a buffer of 0 bytes.
2. `er_late_packet` (`EventReassemblyComponent.cpp:544`): a packet that was
   waiting in the main thread's queue when its source was unregistered makes a
   receive entry that nothing removes.
3. `ic_reconnect_lost` (`ClientRegistry.cpp:83`): a reconnecting player's new
   client is not entered in the registry while the old one waits for its queued
   drop, and is destroyed without `OnDrop`.
4. `cs_assert` (`ServerGameState.cpp:4102`): a client that was removed, with its
   slot, before its queued `HandleConnectedClient` runs reaches the handler that
   asserts a slot. In the trace the net thread removes it for a second handshake
   with a wrong token; `RemoveClient` leaves `m_dropping` alone, so the callback
   proceeds.
5. `sbr_server` (`StateBagComponent.cpp:556`): the destructor of a bag notes
   its id for erasure. In the trace the main thread lets go of the last bag of the
   id, the sync thread registers the id again (as it does for the bags of players,
   `ServerGameState.cpp:280`), then the main thread notes the id, and its tick takes
   the list and erases the entry of the live bag.

The quoted comments the code departs from are in `PROJECT.json`.

### Observations

Modelling met more that a maintainer will want to know, where no comment, test
or document states a rule that a run could hold against the code:

1. `InitConnectMethod.cpp:927`: a close while the handlers of playerConnecting
   run sets `*deferrals` to null on the TCP thread; `deferralsRef`, which is
   tested, is a copy, and `addData(dataNew, *deferrals)` dereferences null.
2. `Client.cpp:57`: `m_lastSeen` is 0 until the first `Touch`, so a frame
   between `MakeClient` and `Touch` finds the new client dead.
3. `Resource.cpp:86`: a resource A waits for B since a start of B failed; a later
   start of A starts B first, and B's `OnStart` wakes A, which is `Starting`:
   this inner call skips `OnBeforeStart`, so A runs without its other
   dependencies, its constraints and its build, and `OnStart` is raised twice.
   Likewise a dependency that is `Starting` is taken for one that runs
   (`ResourceDependencyLoader.cpp:67`) and may be refused afterwards, in `OnStart`
   for one, and a build that ends at once starts the resource inside its own start,
   which then returns false and leaves a caller waiting for what runs. TLC finds
   each of these when the exemption is taken from the property: resources that
   went on inside their own start are `rushed`, which `DependenciesRun`,
   `StopReachesDependants` and `WaitersWoken` leave out, and a dependency that was
   taken for running is `trusted`, which `DependenciesRun` leaves out.
4. `StateBagComponent.cpp:236`: two threads that set one key may queue their
   packets in the other order than they stored the values; `Converged` needs one
   writing thread. A key set without replication is not sent by a later
   replicated set of the same value.
5. `ClientRegistry.h:92`: `RemoveClient` of a client whose drop is queued, or that
   another thread removes at the same time, resets entries by number, without a
   look at their owner: the slot may have gone to another client in between, whose
   entry is emptied, so that a third client can get the same slot; and the later
   `OnDrop` finds the slot id -1, so that the slot stays a target.
6. `GameServer.cpp:1088`: `m_dropping` is tested and set without a lock; two
   threads can both queue the drop, and playerDropped is raised twice.
7. `InitConnectMethod.cpp:912`: a resource that rejects the player inside
   `playerConnecting` makes the response end twice, although the next comment says
   "just don't respond at all": `RanEvents` runs the reject callback, which answers,
   and `*earlyReject` then makes the code answer again. `OnlyRefusalsRepeat` allows
   for it; `AnsweredOnce`, without that allowance, is violated.
8. `InitConnectMethod.cpp:811`: the connection of an admitted player can close
   while the main thread lets the player in. The cancel handler then finds
   `*didSucceed` false, between lines 652 and 660 or just before 652, and removes
   the client after it has passed, so a player who gets the data of the server
   finds no client. `AdmittedSurvivesClose` speaks of the test of the handler and
   exempts the first window; stated of the removal (`CloseRemoves`) it is violated.
9. `ServerGameState.cpp:4104`: a client that another thread removes after the test
   of `IsDropping` (`ClientRegistry.cpp:194`) and before line 4106 raises `OnDrop`
   before the handler connects to it: its slot stays a target of the state bags, and
   goes to the next client as one that is registered already, which
   `RegisterTarget` then tells nothing of the bags there are.
10. A routed bag reaches clients it is not routed to in three windows. A packet for
    the bag of an entity may come between `RegisterStateBag`
    (`ServerGameState_Scripting.cpp:1256`) and `SetRoutingTargets` (1265), or while
    `SetRoutingTargets` has moved the set away (`StateBagComponent.cpp:348`, read
    without the mutex in 292): the sync thread then takes the bag for one that is
    sent to all. And a worker may add the slot of a client that has left
    (`ServerGameState.cpp:1301`), or `relevantTo` still has its bit: the next client
    of the slot is sent the values.

## 6. Proofs

TLAPS proves the following for every value of the constants that satisfies
`ConstantsAssumption`.

### EventReassembly_proofs

`TypeCorrect` needs no hypothesis: the type invariant with `IndexOK`, the
sender's cursor inside its vector. It is inductive together
with `OutgoingInv`: sizes of pending and sent events are positive, ids not yet
used have a cursor of 0.

The other theorems assume `NoOverflow`: no size that `TriggerEvent` admits
needs `PacketLimit` fragments. Finding 1 shows that they fail without it. The
inductive invariant is the types together with `SafetyInv`, a conjunction of

* `SentInv`: the sender's bookkeeping: an id is used once, an event is only
  sent to its audience, a target that has gone does not come back, and no
  triggered event overflows the wire;
* `NetInv`: every packet in flight is for a fragment of a triggered event and a
  target in its audience, and carries the true total;
* `RecvInv`: a receive entry has the true total, stores exactly the fragments
  it has marked, and is completed exactly when all are there;
* `AckInv`: what is acknowledged, at the sender or on the way to it, has been
  noted by the target, or the event has been handled there;
* `RetainInv`: a handled event keeps its receive entry as long as a fragment of
  it can still arrive (this is where `MaxSilence < GcTime` is used);
* `OnceInv`: an event is queued at most once while the entry that remembers it
  is there, and not at all before it is handled.

`NoSilentLoss` by itself is not inductive: it needs `AckInv`, which has to
speak of the acknowledgements on the way too. `AtMostOnce` needs `RetainInv`.
`TransferComplete`, `TransferIntact`, `TransferOnce` are the three invariants;
`Refinement` proves that every step is a step of `LatentEvents` or a stutter:
`TriggerEventInsert` is `Trigger`, a completing `HandlePacketNew` that is not
limited is `Queue`, `PeerUnregisterTarget` is `Drop`.

### InitConnect_proofs

* `Admission` (`AdmittedUnanimously`), invariant `AdmissionInv`: nothing is
  decided before the event (`EarlyInv`); who has passed was agreed to and no
  callback can change that any more, because the deferral is completed or has
  no owner left (`SettledInv`); a card belongs to a deferral (`CardInv`), which
  rules out that a card handler keeps the deferral of an undeferred player
  alive; a canceled event has removed the client (`CanceledInv`).
* `TypeCorrect` (`TypeOK`).
* `DropSignalled` (`DropFollowsCreate`), under `~Reconnecting` (finding 3
  shows why): a drop that has begun has raised `OnDrop` or is queued, and so is
  every client that has left the registry (`DropInv`).
* `AdmittedStay` (`AdmittedSurvivesClose`): while the cancel handler is armed,
  `*didSucceed` is set for every client that has passed, but between the two
  assignments of `allowClient` (`SuccessInv`).
* `Honesty` (`AnswerHonest`), with and without an older client, invariant
  `HonestInv` on top of `AdmissionInv`: there is neither client nor answer
  before `MakeClient`, and the one error that leaves its client registered is
  that of a ticket for another game, which ends the request before anybody can
  admit the player.
* `OnceButForRefusals` (`OnlyRefusalsRepeat`) and `NullNeedsClose`
  (`NullOnlyIfClosed`), invariant `OnceInv` on top of `AdmissionInv`. `RepliesInv`
  follows the count: no answer before the handlers of the event have returned; an
  answered request still holds `*cbRef` only after a refusal; after a second
  answer nobody holds it; a player nobody deferred has no answer yet when let in. `RefsInv`: `*cbRef` and `*deferrals` are set and reset
  together, in the posted callback only a completed deferral or a close has taken
  them, and a completed deferral is one that a resource has called. The last two
  are why the answer for undeferred players is always the first one.

### ClientSessions_proofs

For each property of the run: `TypeCorrect`, `SlotsOneOwner`, `TargetsHaveOwners`,
`NetIdsOneOwner`, `AnnouncedExactlyOnce` and `DropsQueued`, for any clients, slots
and net ids, any number of busy threads, with and without OneSync. They share the
inductive invariant `RegistryInv`. `MadeInv`: whoever a table, a queue or a thread
knows of has been made. `RemovalInv`: a client that is taken out is removed by one
thread, and is in the registry until that thread takes it out, as long as none was
removed a second time; a client that loses its slot id has left the registry.
`SlotsInv` (`SlotsOwned`, and `PickInv`: the net thread looks for a slot for a
client that has none), `NetIdsOwned`, `AnnouncedInv` (`AnnouncedOnce` without
counting), `HandledInv` (each client reaches the handlers once), `DropsInv`, and
`TargetsInv`: a removal that is past `OnDrop` has taken the target away, or has
missed the handler (`Signalled`), and whoever is the owner of a target still holds
the slot (`TargetsHeld`). No property is inductive alone: that a slot has one owner
needs `RemovalInv`, or two removals of a client would empty an entry that is
another's by then. `FreeIds # {}` is a guard of `HandleConnectingClient`: with all
ids in use the loop of the code does not end.

`RegistryImplementsPools` is the refinement, of slots (`SlotsArePool`) and of net
ids (`NetIdsArePool`): the tables start empty, and every step of the registry is
a step of `NumberPool` on `bySlot` and one on `byNetId`, or leaves them alone. A step
changes at most one entry of a table (`TablesStep`), and who takes a number has none
yet. For net ids the latter needs an invariant of its own (`HoldersInv`): an entry
of the table leads to a client that has its number, so that a client that is about
to get a net id is nowhere in the table. For slots it holds of the clients of the
registry; one that leaves it in the middle of its handshake may take a second slot.

### StateBag_proofs

`TypeCorrect`; `RoutedReachesOnlyRouted`, with both threads setting the key, with
`RouteInv`: a bag that is set as the entity's has the target -1 unless its routing
targets are moved, and a routed bag is broadcast only by a call that is `early`
(`RoutingInv`); what is being sent goes to slots in `routed` or `stray`
(`SendsExposed`); the sync thread sends under a mutex that keeps `UnregisterTarget`
from ending (`SyncLocked`); and a client that leaves is out of the routing targets
before its slot is used again (`LeavingInv`).

`TargetsConverge` and `NeverOlder` are about behaviours in which the main thread
alone has set the key so far: their invariants hold as long as `~syncSet` does
(`SyncSetStays`), with `SyncOnlyAdds`: the sync thread only adds routing targets,
holds their mutex when it sends, and not while the main thread moves them, and
nobody looks early. For `TargetsConverge`, `MainInv`: a packet that is written and
not queued has the value of the server, or the main thread has still to get the
routing mutex and to send the new one (`HeldFresh`); every client in the audience
has the value, or some call will still send it (`Served`, `Pending`), and while the
routing targets are moved, this holds of those that come back.

`NeverOlder` (`OnlyForward`) has `ForwardInv`, with `HeldNewer`. What a call has
written and not queued is at least as new as what its client has; what the main
thread is about to send is the last write; and while the main thread sends, the
sync thread holds no older packet, because it sends with the routing mutex locked
exclusively and the main thread has taken that mutex, after the write, to begin.
Without the last part the invariant is not inductive: the main thread may give the
mutex back and go on sending while the sync thread sends as well, and the order in
which the two queue their packets is open.

`NeverDeadlocked` (`NoDeadlock`), with both threads setting the key: only
`UnregisterTarget` and `SendAllInitial`, both of the main thread, hold one mutex,
that of the map, while they wait for the other, and who holds the other goes on
without the first (`LocksHeld`).

### StateBagRegistry_proofs

`TypeCorrect` for any threads; `LiveStaysFound` and `OwnersHoldAlone` for
`Threads = {"main"}`: on one thread a destructor has noted its id before
anybody registers it again, so an id on the erasure list has no live bag.
Finding 5 shows that the hypothesis is needed.

### ResourceLifecycle_proofs

`TypeCorrect`, `RunsWithDependencies`, `StopFindsDependants`, `NothingIsLeft`
(of `StartsFinish` and `NoneWaitsInVain`) and `NoneForgotten`, none of which needs
that no dependencies are circular; and `NoCallComesBack`, which does. The inductive invariant `LifecycleInv`
describes the stack. `CallsInv`: starts call only starts and stops only stops, a
call that awaits a dependency is not on top, what is made for another game never
gets past `OnStart` (`FitInv`), any other resource is set up by one call at a time
and one that goes on past it is nested in it and its resource in `rushed`, and a
resource is `Starting` only while a call starts it. (For a resource of another
game both can be wrong: its inner start is refused in `OnStart` and sets it to
`Stopped` under the outer one, and a third call may set it up again.) `ChecksInv`:
a start has noted the dependencies it is done with, and they run or are
`trusted`. `StopInv`: a
stop has stopped the dependants it is done with. `WaitersInv`: `WaitersWoken` in
the middle of calls. `DependenciesRun` needs `StopInv`, since a stop sets a
dependency to `Stopped` only after all that depend on it.

`NoneForgotten` (`PutOffKept`) adds `KeptInv`: whoever waits for a resource that is
past `OnStart` is on the list that the call copied, or was started again. It needs
`CallsInv`: a refusal adds a waiter, and would break it if the resource could be
refused while another of its calls wakes the waiters.

`NoCallComesBack` (`NoRecursion`) has an invariant of its own, `NestingInv`: the
lists of the loader hold only pairs of the manifests (`ListsInv`), and so do the
resources that a call has still to serve (`LeftInv`) and the callers and callees
on the stack (`NestInv`). A stretch of the stack nested by one relation is then
a path along the dependencies, and a path that came back would be a group of
resources each of which needs another one of the group (`NestingAcyclic`).

### Only model-checked

The liveness properties: `EventuallyHandled`, `SendsDrain`,
`CompletedCollected`, `EventuallyAnswered`, `NoGhosts`, `DeadForgotten` and both
`CallsReturn` (fairness and `ENABLED` are outside the prover's reach). All
invariants and action properties of the passing runs are proved.

## 7. Hazards

`PROJECT.json` lists the places of this code that tests hardly reach, each with
the properties that would catch it going wrong. Those without a property are
observations above for which the code has no rule, an ownership cycle
(`presentCard` with a callback), and host arbitration.

## 8. Not modelled, and why

* Bytes: fragment contents, packet buffers, message texts, JSON, card layouts.
* Bandwidth pacing of the transfer; only its effects are kept.
* `handover` of a deferral, `submitCard`, `getEndpoints`, `getConfiguration`:
  they add data to an answer and change none of the state above.
* Ticket cryptography, VFS, HTTP client, monitor, watchdog: I/O or a call into
  a library.
* Script runtimes, the game client, launcher, user interface, hooks: no state
  machine of their own that a model could be held against, or out of TLC's
  reach.
* Vendored code (`src/vendor`), generated natives, data.

* State bags: `Reset`, `SetOwningPeer`, the packet format, the bags of players in
  big mode. Resource manager:
  adding, removing and resetting resources, provides; scripts that start or stop
  resources from the events of a start.
* Host arbitration, resource events, HTTP sessions, TCP limits, multiplexing and
  the rate limiter have state machines of their own that later modules could
  model; the OneSync game state is out of TLC's reach but for its object ids.

## 9. Plan

Done: the transfer, the connection request, the registry of several clients,
state bags, and the life cycle of resources, with their proofs. Next, in this
order:

1. `HostArbitration` on top of `ClientSessions`: vouches, `SetHost` and the
   broadcasts of two threads.
2. `ResourceEvents`: nested TriggerEvent, CancelEvent and the queue.
3. `TcpLimits` and `HttpSession`: counters per address, pipelining.
4. Composition of `InitConnect` with `ClientSessions` (two requests of one guid),
   and of the registry with `EventReassembly` (a net id that is used again meets
   a stale receive entry).
