------------------------- MODULE EventReassembly -------------------------
(***************************************************************************)
(* The latent-event transfer of citizen-resources-core: a sender cuts an   *)
(* event into fragments, sends them unreliably to each of its targets      *)
(* until every fragment is acknowledged, and each target reassembles the   *)
(* event and queues it once.                                               *)
(*                                                                         *)
(* The code is one class that plays both roles.  Here one endpoint sends   *)
(* and every member of Target is a remote endpoint that receives; the      *)
(* opposite direction is the same code with the roles exchanged.  State of *)
(* the receiving endpoint t is indexed by t first.                         *)
(***************************************************************************)
EXTENDS Integers, FiniteSets

CONSTANTS
  Target,        \* net ids of the remote endpoints; never used twice
  FragmentSize,  \* kFragmentSize, in bytes
  PacketLimit,   \* 1 << kPacketSizeBits: what packetIdx and totalPackets can count to
  Sizes,         \* sizes of the serialised events (name length, name, payload)
  MaxEvents,     \* bound: events triggered in one behaviour
  MaxInFlight,   \* bound: packets on the network at once
  GcTime,        \* gc_time, in units of time
  MaxSilence     \* how long a fragment that is still being sent can fail to arrive

ASSUME ConstantsAssumption ==
  /\ FragmentSize \in Nat \ {0}
  /\ PacketLimit \in Nat \ {0}
  /\ Sizes \subseteq Nat \ {0}
  /\ MaxEvents \in Nat
  /\ MaxInFlight \in Nat
  /\ GcTime \in Nat
  /\ MaxSilence \in Nat
  /\ MaxSilence < GcTime

VARIABLES
  fresh,        \* net ids that have not been handed out yet
  targets,      \* m_targets of the sender
  trigger,      \* the TriggerEvent call between its two critical sections
  eventId,      \* m_eventId
  sends,        \* keys of m_sendList
  size,         \* size[e]: sendPayload.size()
  audience,     \* audience[e]: the targets the event was inserted with (history)
  sendTargets,  \* sendTargets[e]: SendEvent::targets
  targetData,   \* targetData[e]: targets with non-null PerTargetData
  ackBits,      \* ackBits[e][t]: fragments acknowledged by t
  lastBit,      \* lastBit[e][t]: where the next burst starts
  delayed,      \* pairs <<e, t>> with delayNextSend in the future
  sources,      \* targets whose m_targets holds the sender
  receiveList,  \* receiveList[t]: event ids with a ReceiveEvent at t
  total,        \* total[t][e]: ackedBits.size()
  ackedBits,    \* ackedBits[t][e]: fragments marked in the ReceiveEvent
  packetData,   \* packetData[t][e]: fragments stored in the ReceiveEvent
  completed,    \* completed[t]: ReceiveEvents with completed set
  age,          \* age[t][e]: time since timeLastAck
  handled,      \* handled[t]: events ever completed at t (history)
  queued,       \* queued[t][e]: QueueEvent calls at t (history)
  net           \* packets in flight

senderVars   == <<fresh, targets, trigger, eventId, sends, size, audience,
                  sendTargets, targetData, ackBits, lastBit, delayed>>
receiverVars == <<sources, receiveList, total, ackedBits, packetData,
                  completed, age, handled, queued>>
vars == <<fresh, targets, trigger, eventId, sends, size, audience,
          sendTargets, targetData, ackBits, lastBit, delayed,
          sources, receiveList, total, ackedBits, packetData,
          completed, age, handled, queued, net>>

Ids == 0 .. (MaxEvents - 1)

NoCall == [busy |-> FALSE, targets |-> {}, size |-> 0]

\* kMaxPacketSize
MaxPacketSize == PacketLimit * FragmentSize

\* number of fragments of a payload of s bytes
PacketCount(s) ==
  (s \div FragmentSize) + (IF s % FragmentSize # 0 THEN 1 ELSE 0)

\* what a number written with kPacketSizeBits bits reads back as
Wire(n) == n % PacketLimit

Fragments(e) == 0 .. (PacketCount(size[e]) - 1)

\* A packet with thisBytes = 0 is an acknowledgement.
Packets == [ack : BOOLEAN, target : Target, event : Ids, idx : Nat, total : Nat]

Data(e, t, i) == [ack |-> FALSE, target |-> t, event |-> e, idx |-> Wire(i),
                  total |-> Wire(PacketCount(size[e]))]

Ack(p) == [ack |-> TRUE, target |-> p.target, event |-> p.event,
           idx |-> p.idx, total |-> p.total]

Init ==
  /\ fresh = Target
  /\ targets = {}
  /\ trigger = NoCall
  /\ eventId = 0
  /\ sends = {}
  /\ size = [e \in Ids |-> 0]
  /\ audience = [e \in Ids |-> {}]
  /\ sendTargets = [e \in Ids |-> {}]
  /\ targetData = [e \in Ids |-> {}]
  /\ ackBits = [e \in Ids |-> [t \in Target |-> {}]]
  /\ lastBit = [e \in Ids |-> [t \in Target |-> 0]]
  /\ delayed = {}
  /\ sources = Target
  /\ receiveList = [t \in Target |-> {}]
  /\ total = [t \in Target |-> [e \in Ids |-> 0]]
  /\ ackedBits = [t \in Target |-> [e \in Ids |-> {}]]
  /\ packetData = [t \in Target |-> [e \in Ids |-> {}]]
  /\ completed = [t \in Target |-> {}]
  /\ age = [t \in Target |-> [e \in Ids |-> 0]]
  /\ handled = [t \in Target |-> {}]
  /\ queued = [t \in Target |-> [e \in Ids |-> 0]]
  /\ net = {}

---------------------------------------------------------------------------
(* The sending endpoint.                                                   *)

RegisterTarget(t) ==
  /\ t \in fresh
  /\ fresh' = fresh \ {t}
  /\ targets' = targets \cup {t}
  /\ UNCHANGED <<trigger, eventId, sends, size, audience, sendTargets,
                 targetData, ackBits, lastBit, delayed, receiverVars, net>>

UnregisterTarget(t) ==
  /\ t \in targets
  /\ targets' = targets \ {t}
  /\ sendTargets' = [e \in Ids |-> sendTargets[e] \ {t}]
  /\ targetData' = [e \in Ids |-> targetData[e] \ {t}]
  /\ UNCHANGED <<fresh, trigger, eventId, sends, size, audience,
                 ackBits, lastBit, delayed, receiverVars, net>>

\* TriggerEvent up to the release of the shared lock: the target set is a
\* copy of m_targets (target -1) or the one target, if it is registered.
\* An oversized event returns before anything is touched.
TriggerEventSnapshot(dst, s) ==
  /\ ~trigger.busy
  /\ eventId < MaxEvents
  /\ s < MaxPacketSize
  /\ dst = targets \/ \E t \in targets : dst = {t}
  /\ trigger' = [busy |-> TRUE, targets |-> dst, size |-> s]
  /\ UNCHANGED <<fresh, targets, eventId, sends, size, audience, sendTargets,
                 targetData, ackBits, lastBit, delayed, receiverVars, net>>

\* TriggerEvent from the second lock on; targets may have gone meanwhile.
TriggerEventInsert ==
  /\ trigger.busy
  /\ trigger' = NoCall
  /\ eventId' = eventId + 1
  /\ sends' = sends \cup {eventId}
  /\ size' = [size EXCEPT ![eventId] = trigger.size]
  /\ audience' = [audience EXCEPT ![eventId] = trigger.targets]
  /\ sendTargets' = [sendTargets EXCEPT ![eventId] = trigger.targets]
  /\ targetData' = [targetData EXCEPT ![eventId] = trigger.targets]
  /\ UNCHANGED <<fresh, targets, ackBits, lastBit, delayed, receiverVars, net>>

\* Fragments of e that t has not acknowledged.
Unacked(e, t) == Fragments(e) \ ackBits[e][t]

\* Those at or after lastBit, the ones the current cycle has still to send.
Ahead(e, t) == {i \in Unacked(e, t) : i >= lastBit[e][t]}

\* Mutant: targets that are gone stay.
TickSendList_KeepsGone(e, done) ==
  LET left == [f \in Ids |-> sendTargets[f] \ (IF f = e THEN done ELSE {})]
  IN  /\ sendTargets' = left
      /\ sends' = {f \in sends : left[f] # {}}

\* What every tick does to the send list: targets that are gone, and the
\* target the tick found done, leave their sends; sends without targets end,
\* and their per-target data with them.
TickSendList(e, done) ==
  LET left == [f \in Ids |-> (sendTargets[f] \cap targets)
                                 \ (IF f = e THEN done ELSE {})]
  IN  /\ sendTargets' = left
      /\ sends' = {f \in sends : left[f] # {}}

\* The pair is due: its target is registered and no delay is running.  The
\* pacing by bytesPerSecond decides when a pair is due and how long its
\* burst is; both are left open here.
Due(e, t) ==
  /\ e \in sends
  /\ t \in sendTargets[e] \cap targets
  /\ t \in targetData[e]
  /\ <<e, t>> \notin delayed

\* Mutant: hasAll forgets the 'early' fragments before lastBit.
NetworkTickDone_ForgetsEarly(e, t) ==
  /\ Due(e, t)
  /\ Ahead(e, t) = {}
  /\ targetData' = [targetData EXCEPT ![e] = @ \ {t}]
  /\ TickSendList(e, {t})
  /\ UNCHANGED <<fresh, targets, trigger, eventId, size, audience, ackBits,
                 lastBit, delayed, receiverVars, net>>

\* NetworkTick in which the pair <<e, t>> is due.  A tick with several due
\* pairs is that many of these steps in a row.
NetworkTickDone(e, t) ==
  /\ Due(e, t)
  /\ Unacked(e, t) = {}
  /\ targetData' = [targetData EXCEPT ![e] = @ \ {t}]
  /\ TickSendList(e, {t})
  /\ UNCHANGED <<fresh, targets, trigger, eventId, size, audience, ackBits,
                 lastBit, delayed, receiverVars, net>>

\* Mutant: the cycle is not reset to the first gap.
NetworkTickRestart_NoReset(e, t) ==
  /\ Due(e, t)
  /\ Unacked(e, t) # {}
  /\ Ahead(e, t) = {}
  /\ delayed' = delayed \cup {<<e, t>>}
  /\ TickSendList(e, {})
  /\ UNCHANGED <<fresh, targets, trigger, eventId, size, audience, targetData,
                 ackBits, lastBit, receiverVars, net>>

\* Nothing left at or after lastBit: restart at the first gap and wait.
NetworkTickRestart(e, t) ==
  /\ Due(e, t)
  /\ Unacked(e, t) # {}
  /\ Ahead(e, t) = {}
  /\ \E first \in Unacked(e, t) :
       /\ \A i \in Unacked(e, t) : first <= i
       /\ lastBit' = [lastBit EXCEPT ![e][t] = first]
  /\ delayed' = delayed \cup {<<e, t>>}
  /\ TickSendList(e, {})
  /\ UNCHANGED <<fresh, targets, trigger, eventId, size, audience, targetData,
                 ackBits, receiverVars, net>>

\* Where the cycle goes on after fragment p of count: it wraps to 0.
NextBit_NoWrap(p, count) == p + 1  \* Mutant: no wrap
NextBit(p, count) == (p + 1) % count

\* The burst sends the unacknowledged fragments from lastBit up to p.  After
\* the last fragment lastBit wraps to 0 and the cycle is over.  A target that
\* has dropped the sender has closed the connection: nothing reaches it, while
\* what it had already received may still wait in its main thread's queue.
NetworkTickBurst(e, t, p) ==
  /\ Due(e, t)
  /\ p \in Ahead(e, t)
  /\ LET count == PacketCount(size[e])
         sent  == IF t \in sources
                  THEN {Data(e, t, i) : i \in {j \in Ahead(e, t) : j <= p}}
                  ELSE {}
     IN  /\ Cardinality(net \cup sent) <= MaxInFlight
         /\ net' = net \cup sent
         /\ lastBit' = [lastBit EXCEPT ![e][t] = NextBit(p, count)]
         /\ delayed' = IF p + 1 = count THEN delayed \cup {<<e, t>>} ELSE delayed
  /\ TickSendList(e, {})
  /\ UNCHANGED <<fresh, targets, trigger, eventId, size, audience, targetData,
                 ackBits, receiverVars>>

\* NetworkTick with no pair due.
NetworkTickIdle ==
  /\ \E e \in sends : sendTargets[e] \ targets # {} \/ sendTargets[e] = {}
  /\ TickSendList(0, {})
  /\ UNCHANGED <<fresh, targets, trigger, eventId, size, audience, targetData,
                 ackBits, lastBit, delayed, receiverVars, net>>

\* The 250 ms of delayNextSend pass.
DelayOver(e, t) ==
  /\ <<e, t>> \in delayed
  /\ delayed' = delayed \ {<<e, t>>}
  /\ UNCHANGED <<fresh, targets, trigger, eventId, sends, size, audience,
                 sendTargets, targetData, ackBits, lastBit, receiverVars, net>>

\* HandlePacket at the sender, for an acknowledgement.
HandlePacketAck(p) ==
  /\ p \in net
  /\ p.ack
  /\ net' = net \ {p}
  /\ ackBits' = IF /\ p.event \in sends
                   /\ p.target \in targetData[p.event]
                   /\ p.idx < PacketCount(size[p.event])
                THEN [ackBits EXCEPT ![p.event][p.target] = @ \cup {p.idx}]
                ELSE ackBits
  /\ UNCHANGED <<fresh, targets, trigger, eventId, sends, size, audience,
                 sendTargets, targetData, lastBit, delayed, receiverVars>>

---------------------------------------------------------------------------
(* The receiving endpoints.                                                *)

\* The ReceiveEvents of the events es at t are destroyed.
EraseReceives(t, es) ==
  /\ receiveList' = [receiveList EXCEPT ![t] = @ \ es]
  /\ completed' = [completed EXCEPT ![t] = @ \ es]
  /\ total' = [total EXCEPT ![t] = [e \in Ids |-> IF e \in es THEN 0 ELSE @[e]]]
  /\ ackedBits' = [ackedBits EXCEPT ![t] =
                     [e \in Ids |-> IF e \in es THEN {} ELSE @[e]]]
  /\ packetData' = [packetData EXCEPT ![t] =
                      [e \in Ids |-> IF e \in es THEN {} ELSE @[e]]]
  /\ age' = [age EXCEPT ![t] = [e \in Ids |-> IF e \in es THEN 0 ELSE @[e]]]

\* UnregisterTarget at t, for the sender.
PeerUnregisterTarget(t) ==
  /\ t \in sources
  /\ sources' = sources \ {t}
  /\ EraseReceives(t, receiveList[t])
  /\ UNCHANGED <<senderVars, handled, queued, net>>

\* Mutant: the last bit is not looked at.
HasAll_SkipsLast(bits, n) == \A i \in 0 .. (n - 2) : i \in bits

\* Every bit of an ackedBits of n bits is set.
HasAll(bits, n) == \A i \in 0 .. (n - 1) : i \in bits

\* The event of the packet is completed or its fragment marked already.
AlreadyAcked_Never(p) == FALSE  \* Mutant: not looked up
AlreadyAcked(p) ==
  /\ p.event \in receiveList[p.target]
  /\ \/ p.event \in completed[p.target]
     \/ p.idx \in ackedBits[p.target][p.event]

\* HandlePacket at t for such a packet: it is only acknowledged again.
HandlePacketKnown(p) ==
  /\ p \in net
  /\ ~p.ack
  /\ AlreadyAcked(p)
  /\ net' = (net \ {p}) \cup {Ack(p)}
  /\ age' = [age EXCEPT ![p.target][p.event] = 0]
  /\ UNCHANGED <<senderVars, sources, receiveList, total, ackedBits,
                 packetData, completed, handled, queued>>

\* The ReceiveEvent once the new fragment p is noted: the size of its bit
\* vector, the bits and the stored fragments, and whether it is full.
NotedTotal(p) == IF p.event \in receiveList[p.target]
                 THEN total[p.target][p.event] ELSE p.total

NotedBits(p) == ackedBits[p.target][p.event]
                  \cup (IF p.idx < NotedTotal(p) THEN {p.idx} ELSE {})

NotedData(p) == packetData[p.target][p.event] \cup {p.idx}

Completes(p) == HasAll(NotedBits(p), NotedTotal(p))

\* HandlePacket at t: a new fragment, with the ReceiveEvent created if there
\* is none.  The last fragment completes the event and HandleReceivedPacket
\* queues it, unless the sink limits the event.
HandlePacketNew(p, limited) ==
  LET t == p.target
      e == p.event
  IN  /\ p \in net
      /\ ~p.ack
      /\ ~AlreadyAcked(p)
      /\ limited => Completes(p)
      /\ receiveList' = [receiveList EXCEPT ![t] = @ \cup {e}]
      /\ total' = [total EXCEPT ![t][e] = NotedTotal(p)]
      /\ ackedBits' = [ackedBits EXCEPT ![t][e] = NotedBits(p)]
      /\ packetData' = [packetData EXCEPT ![t][e] = NotedData(p)]
      /\ age' = [age EXCEPT ![t][e] = 0]
      /\ net' = (net \ {p}) \cup {Ack(p)}
      /\ IF Completes(p)
         THEN /\ completed' = [completed EXCEPT ![t] = @ \cup {e}]
              /\ handled' = [handled EXCEPT ![t] = @ \cup {e}]
              /\ queued' = [queued EXCEPT ![t][e] = IF limited THEN @ ELSE @ + 1]
         ELSE UNCHANGED <<completed, handled, queued>>
      /\ UNCHANGED <<senderVars, sources>>

\* ReceiveEvents that are completed and have not been acknowledged for GcTime.
Garbage_TooEarly(t) == {e \in receiveList[t] : e \in completed[t]}  \* Mutant
Garbage_Incomplete(t) ==  \* Mutant: the completion test is negated
  {e \in receiveList[t] : e \notin completed[t] /\ age[t][e] >= GcTime}
Garbage(t) ==
  {e \in receiveList[t] : e \in completed[t] /\ age[t][e] >= GcTime}

\* The receive list part of NetworkTick at t.
PeerNetworkTick(t) ==
  /\ Garbage(t) # {}
  /\ EraseReceives(t, Garbage(t))
  /\ UNCHANGED <<senderVars, sources, handled, queued, net>>

---------------------------------------------------------------------------
(* The network and time.                                                   *)

Lose(p) ==
  /\ p \in net
  /\ net' = net \ {p}
  /\ UNCHANGED <<senderVars, receiverVars>>

\* A fragment of e can still arrive at t.
Lingering(e, t) ==
  \/ e \in sends /\ t \in sendTargets[e] \cap targets
  \/ \E p \in net : ~p.ack /\ p.event = e /\ p.target = t

\* One unit of time passes at every receiver.  An event that is still being
\* sent is not silent for more than MaxSilence: it is sent again and again,
\* and a link that lets nothing through for so long is dropped.
Elapse ==
  /\ \E t \in Target : \E e \in receiveList[t] : age[t][e] < GcTime
  /\ \A t \in sources : \A e \in completed[t] :
       Lingering(e, t) => age[t][e] < MaxSilence
  /\ age' = [t \in Target |-> [e \in Ids |->
               IF e \in receiveList[t] /\ age[t][e] < GcTime
               THEN age[t][e] + 1 ELSE age[t][e]]]
  /\ UNCHANGED <<senderVars, sources, receiveList, total, ackedBits,
                 packetData, completed, handled, queued, net>>

---------------------------------------------------------------------------
SendNext ==
  \/ \E t \in Target : RegisterTarget(t)
  \/ \E t \in Target : UnregisterTarget(t)
  \/ \E dst \in SUBSET Target, s \in Sizes : TriggerEventSnapshot(dst, s)
  \/ TriggerEventInsert
  \/ \E e \in sends, t \in Target : NetworkTickDone(e, t)
  \/ \E e \in sends, t \in Target : NetworkTickRestart(e, t)
  \/ \E e \in sends, t \in Target : \E p \in Fragments(e) : NetworkTickBurst(e, t, p)
  \/ NetworkTickIdle
  \/ \E e \in Ids, t \in Target : DelayOver(e, t)
  \/ \E p \in net : HandlePacketAck(p)

ReceiveNext ==
  \/ \E t \in Target : PeerUnregisterTarget(t)
  \/ \E p \in net : HandlePacketKnown(p)
  \/ \E p \in net, limited \in BOOLEAN : HandlePacketNew(p, limited)
  \/ \E t \in Target : PeerNetworkTick(t)

NetNext ==
  \/ \E p \in net : Lose(p)
  \/ Elapse

Next == SendNext \/ ReceiveNext \/ NetNext

Spec == Init /\ [][Next]_vars


\* A packet in flight is delivered if it is put in flight again and again.
HandlePacket(p) ==
  \/ HandlePacketAck(p)
  \/ HandlePacketKnown(p)
  \/ \E limited \in BOOLEAN : HandlePacketNew(p, limited)

PacketsUpTo(n) == [ack : BOOLEAN, target : Target, event : Ids,
                   idx : 0 .. (n - 1), total : 1 .. n]

\* The threads keep ticking, a call that took its snapshot goes on, time
\* passes, the network is lossy but not dead, and a target that has closed its
\* connection is dropped (it times out).
Fairness(n) ==
  /\ WF_vars(TriggerEventInsert)
  /\ WF_vars(NetworkTickIdle)
  /\ \A e \in Ids, t \in Target :
       /\ WF_vars(NetworkTickDone(e, t))
       /\ WF_vars(NetworkTickRestart(e, t))
       /\ SF_vars(\E p \in Fragments(e) : NetworkTickBurst(e, t, p))
       /\ WF_vars(DelayOver(e, t))
  /\ \A p \in PacketsUpTo(n) : SF_vars(HandlePacket(p))
  /\ \A t \in Target :
       /\ WF_vars(PeerNetworkTick(t))
       /\ WF_vars(t \notin sources /\ UnregisterTarget(t))
  /\ WF_vars(Elapse)

---------------------------------------------------------------------------
(* Properties.                                                             *)

SenderTypeOK ==
  /\ fresh \subseteq Target
  /\ targets \subseteq Target
  /\ trigger \in [busy : BOOLEAN, targets : SUBSET Target, size : Nat]
  /\ eventId \in 0 .. MaxEvents
  /\ sends \subseteq Ids
  /\ size \in [Ids -> Nat]
  /\ audience \in [Ids -> SUBSET Target]
  /\ sendTargets \in [Ids -> SUBSET Target]
  /\ targetData \in [Ids -> SUBSET Target]
  /\ ackBits \in [Ids -> [Target -> SUBSET Nat]]
  /\ lastBit \in [Ids -> [Target -> Nat]]
  /\ delayed \subseteq Ids \X Target

ReceiverTypeOK ==
  /\ sources \subseteq Target
  /\ receiveList \in [Target -> SUBSET Ids]
  /\ total \in [Target -> [Ids -> Nat]]
  /\ ackedBits \in [Target -> [Ids -> SUBSET Nat]]
  /\ packetData \in [Target -> [Ids -> SUBSET Nat]]
  /\ completed \in [Target -> SUBSET Ids]
  /\ age \in [Target -> [Ids -> Nat]]
  /\ handled \in [Target -> SUBSET Ids]
  /\ queued \in [Target -> [Ids -> Nat]]

\* lastBit, with which NetworkTick indexes ackBits, is inside the vector.
IndexOK == \A e \in sends : \A t \in Target : lastBit[e][t] \in Fragments(e)

\* Every variable has its type, and the sender's cursor stays in range.
TypeOK ==
  /\ SenderTypeOK
  /\ ReceiverTypeOK
  /\ net \subseteq Packets
  /\ IndexOK

\* The sender gives up on a target only when the target has reassembled the
\* event, or one side has dropped the other: NetworkTick's hasAll, computed
\* from acknowledgements that can be old, is never true too early.
NoSilentLoss ==
  \A e \in Ids : e < eventId =>
    \A t \in audience[e] :
      \/ e \in sends /\ t \in sendTargets[e]
      \/ t \notin targets
      \/ t \notin sources
      \/ e \in handled[t]

\* HandleReceivedPacket runs only on an event all of whose fragments are
\* stored, and stores nothing outside the buffer it allocates for them.
DeliveredIntact ==
  \A t \in Target : \A e \in completed[t] :
    /\ packetData[t][e] = Fragments(e)
    /\ packetData[t][e] \subseteq 0 .. (total[t][e] - 1)

\* An endpoint that still knows the sender queues an event at most once:
\* the ReceiveEvent outlives every retransmission of its fragments.
AtMostOnce ==
  \A t \in sources : \A e \in Ids : queued[t][e] <= 1

\* "drop any sends/receives from this target": after UnregisterTarget no
\* ReceiveEvent of that endpoint is left.
ReceivesDropped ==
  \A t \in Target \ sources : receiveList[t] = {}

\* An event that is being sent to a target is reassembled there, unless one
\* side drops the other.
EventuallyHandled ==
  \A e \in Ids, t \in Target :
    (e \in sends /\ t \in sendTargets[e])
      ~> (e \in handled[t] \/ t \notin targets \/ t \notin sources)

\* The send list does not leak: every entry goes, also one whose targets
\* went away between the two critical sections of TriggerEvent.
SendsDrain == \A e \in Ids : (e \in sends) ~> (e \notin sends)

\* The receive list does not leak completed events.
CompletedCollected ==
  \A e \in Ids, t \in Target : (e \in completed[t]) ~> (e \notin receiveList[t])

\* What the transfer promises, and that it keeps the promise: an event is
\* queued only where it was addressed, after TriggerEvent, and not twice.
Abstract ==
  INSTANCE LatentEvents
    WITH Target <- Target, Ids <- Ids, eventId <- eventId, audience <- audience,
         sources <- sources, queued <- queued
ImplementsLatentEvents == Abstract!Spec

===========================================================================
