---------------------- MODULE EventReassembly_proofs ----------------------
(***************************************************************************)
(* Proofs about the latent-event transfer, for every set of targets, every *)
(* fragment size and every bound.                                          *)
(***************************************************************************)
EXTENDS EventReassembly, TLAPS

\* Ids that have not been handed out are untouched, and every event that is
\* sent has at least one byte.
OutgoingInv ==
  /\ \A e \in sends : e < eventId /\ size[e] \in Nat \ {0}
  /\ \A e \in Ids : e >= eventId => \A t \in Target : lastBit[e][t] = 0
  /\ trigger.busy => eventId < MaxEvents /\ trigger.size \in Nat \ {0}

LEMMA PacketCountPositive ==
  ASSUME NEW s \in Nat \ {0}
  PROVE  PacketCount(s) \in Nat \ {0}
<1> DEFINE q == s \div FragmentSize
           r == s % FragmentSize
<1>1. FragmentSize \in Nat \ {0}
  BY ConstantsAssumption
<1>2. q \in Nat /\ r \in 0 .. (FragmentSize - 1) /\ s = FragmentSize * q + r
  BY <1>1
<1>3. r = 0 => q # 0
  BY <1>1, <1>2
<1>4. QED
  BY <1>2, <1>3 DEF PacketCount

LEMMA PacketCountNat ==
  ASSUME NEW s \in Nat
  PROVE  PacketCount(s) \in Nat
<1>1. FragmentSize \in Nat \ {0}
  BY ConstantsAssumption
<1>2. s \div FragmentSize \in Nat
  BY <1>1
<1> QED
  BY <1>2 DEF PacketCount

LEMMA WireNat == ASSUME NEW n \in Nat PROVE Wire(n) \in Nat
  BY ConstantsAssumption DEF Wire

LEMMA NextBitInRange ==
  ASSUME NEW p \in Nat, NEW count \in Nat \ {0}
  PROVE  NextBit(p, count) \in 0 .. (count - 1)
  BY DEF NextBit


LEMMA NestedUpdate ==
  ASSUME NEW A, NEW B, NEW C, NEW f \in [A -> [B -> C]],
         NEW a \in A, NEW b \in B, NEW c \in C
  PROVE  /\ [f EXCEPT ![a][b] = c] \in [A -> [B -> C]]
         /\ \A x \in A : \A y \in B :
              [f EXCEPT ![a][b] = c][x][y] = IF x = a /\ y = b THEN c ELSE f[x][y]
  OBVIOUS

---------------------------------------------------------------------------
(* Type correctness.                                                       *)

\* The sender's part of the type invariant, with what it needs to hold.
SenderInv == SenderTypeOK /\ IndexOK /\ OutgoingInv

LEMMA SenderFrame == SenderInv /\ UNCHANGED senderVars => SenderInv'
  BY DEF SenderInv, SenderTypeOK, IndexOK, OutgoingInv, senderVars, Fragments

LEMMA ReceiverFrame == ReceiverTypeOK /\ UNCHANGED receiverVars => ReceiverTypeOK'
  BY DEF ReceiverTypeOK, receiverVars

\* A tick removes keys and targets from the send list and nothing else.
LEMMA TickSendListType ==
  ASSUME SenderTypeOK, NEW e, NEW done, TickSendList(e, done)
  PROVE  sends' \subseteq sends /\ (sendTargets \in [Ids -> SUBSET Target])'
  BY DEF TickSendList, SenderTypeOK

LEMMA EraseReceivesType ==
  ASSUME ReceiverTypeOK, NEW t \in Target, NEW es, EraseReceives(t, es)
  PROVE  /\ (receiveList \in [Target -> SUBSET Ids])'
         /\ (total \in [Target -> [Ids -> Nat]])'
         /\ (ackedBits \in [Target -> [Ids -> SUBSET Nat]])'
         /\ (packetData \in [Target -> [Ids -> SUBSET Nat]])'
         /\ (completed \in [Target -> SUBSET Ids])'
         /\ (age \in [Target -> [Ids -> Nat]])'
<1>1. (receiveList \in [Target -> SUBSET Ids])' /\ (completed \in [Target -> SUBSET Ids])'
  BY DEF EraseReceives, ReceiverTypeOK
<1>2. (total \in [Target -> [Ids -> Nat]])'
  BY DEF EraseReceives, ReceiverTypeOK
<1>3. (ackedBits \in [Target -> [Ids -> SUBSET Nat]])'
  BY DEF EraseReceives, ReceiverTypeOK
<1>4. (packetData \in [Target -> [Ids -> SUBSET Nat]])'
  BY DEF EraseReceives, ReceiverTypeOK
<1>5. (age \in [Target -> [Ids -> Nat]])'
  BY DEF EraseReceives, ReceiverTypeOK
<1> QED BY <1>1, <1>2, <1>3, <1>4, <1>5

LEMMA PacketFields ==
  ASSUME net \subseteq Packets, NEW p \in net
  PROVE  /\ p.ack \in BOOLEAN
         /\ p.event \in Ids
         /\ p.target \in Target
         /\ p.idx \in Nat
         /\ p.total \in Nat
         /\ Ack(p) \in Packets
<1>1. PICK a \in BOOLEAN, t \in Target, e \in Ids, i \in Nat, n \in Nat :
         p = [ack |-> a, target |-> t, event |-> e, idx |-> i, total |-> n]
  BY DEF Packets
<1>2. /\ p.ack \in BOOLEAN /\ p.event \in Ids /\ p.target \in Target
      /\ p.idx \in Nat /\ p.total \in Nat
  BY <1>1
<1> QED BY <1>2 DEF Packets, Ack

\* Moving one cursor of a send to another of its fragments.
LEMMA CursorMoves ==
  ASSUME SenderInv, NEW e \in sends, NEW t \in Target, NEW i \in Fragments(e),
         lastBit' = [lastBit EXCEPT ![e][t] = i],
         sends' \subseteq sends, UNCHANGED <<size, trigger, eventId>>
  PROVE  IndexOK' /\ OutgoingInv'
<1>1. e \in Ids /\ e < eventId
  BY DEF SenderInv, SenderTypeOK, OutgoingInv
<1>2. i \in Nat
  BY <1>1, PacketCountNat DEF Fragments, SenderInv, SenderTypeOK
<1>3. \A f \in Ids : \A u \in Target :
         lastBit'[f][u] = IF f = e /\ u = t THEN i ELSE lastBit[f][u]
  BY <1>1, <1>2, NestedUpdate DEF SenderInv, SenderTypeOK
<1>4. IndexOK'
  BY <1>3 DEF SenderInv, SenderTypeOK, IndexOK, Fragments
<1>5. OutgoingInv'
  <2>1. \A f \in Ids : f >= eventId => f # e
    BY <1>1 DEF SenderInv, SenderTypeOK, Ids
  <2> QED BY <1>3, <2>1 DEF SenderInv, SenderTypeOK, OutgoingInv
<1> QED BY <1>4, <1>5

LEMMA TypeInit == Init => SenderInv /\ ReceiverTypeOK /\ net \subseteq Packets
  BY ConstantsAssumption DEF Init, SenderInv, SenderTypeOK, ReceiverTypeOK,
     IndexOK, OutgoingInv, NoCall, Ids

LEMMA TypeStep ==
  ASSUME SenderInv, ReceiverTypeOK, net \subseteq Packets, [Next]_vars
  PROVE  SenderInv' /\ ReceiverTypeOK' /\ net' \subseteq Packets
<1> USE ConstantsAssumption
<1>1. ASSUME NEW t \in Target, RegisterTarget(t)
      PROVE  SenderInv' /\ ReceiverTypeOK' /\ net' \subseteq Packets
  <2>1. SenderInv'
    BY <1>1 DEF RegisterTarget, SenderInv, SenderTypeOK, IndexOK, OutgoingInv, Fragments
  <2> QED BY <1>1, <2>1, ReceiverFrame DEF RegisterTarget
<1>2. ASSUME NEW t \in Target, UnregisterTarget(t)
      PROVE  SenderInv' /\ ReceiverTypeOK' /\ net' \subseteq Packets
  <2>1. SenderInv'
    BY <1>2 DEF UnregisterTarget, SenderInv, SenderTypeOK, IndexOK, OutgoingInv, Fragments
  <2> QED BY <1>2, <2>1, ReceiverFrame DEF UnregisterTarget
<1>3. ASSUME NEW dst \in SUBSET Target, NEW s \in Sizes, TriggerEventSnapshot(dst, s)
      PROVE  SenderInv' /\ ReceiverTypeOK' /\ net' \subseteq Packets
  <2>1. SenderInv'
    BY <1>3 DEF TriggerEventSnapshot, SenderInv, SenderTypeOK, IndexOK, OutgoingInv, Fragments
  <2> QED BY <1>3, <2>1, ReceiverFrame DEF TriggerEventSnapshot
<1>4. ASSUME TriggerEventInsert
      PROVE  SenderInv' /\ ReceiverTypeOK' /\ net' \subseteq Packets
  <2>1. /\ eventId \in Ids /\ eventId + 1 \in 0 .. MaxEvents
        /\ trigger.targets \in SUBSET Target
        /\ trigger.size \in Nat \ {0}
    BY <1>4 DEF TriggerEventInsert, SenderInv, SenderTypeOK, OutgoingInv, Ids
  <2>2. SenderTypeOK'
    BY <1>4, <2>1 DEF TriggerEventInsert, SenderInv, SenderTypeOK, NoCall
  <2>3. OutgoingInv'
    BY <1>4, <2>1 DEF TriggerEventInsert, SenderInv, SenderTypeOK, OutgoingInv, NoCall, Ids
  <2>4. IndexOK'
    <3> SUFFICES ASSUME NEW e \in sends', NEW t \in Target
                 PROVE  lastBit[e][t] \in 0 .. (PacketCount(size'[e]) - 1)
      BY <1>4 DEF TriggerEventInsert, IndexOK, Fragments
    <3>1. CASE e = eventId
      <4>1. size'[e] \in Nat \ {0}
        BY <1>4, <2>1, <3>1 DEF TriggerEventInsert, SenderInv, SenderTypeOK
      <4>2. lastBit[e][t] = 0
        BY <2>1, <3>1 DEF SenderInv, SenderTypeOK, OutgoingInv
      <4>3. PacketCount(size'[e]) \in Nat \ {0}
        BY <4>1, PacketCountPositive
      <4> QED
        BY <4>2, <4>3
    <3>2. CASE e # eventId
      <4>1. e \in sends /\ size'[e] = size[e]
        BY <1>4, <3>2 DEF TriggerEventInsert, SenderInv, SenderTypeOK
      <4> QED
        BY <4>1 DEF SenderInv, IndexOK, Fragments
    <3> QED BY <3>1, <3>2
  <2> QED BY <1>4, <2>2, <2>3, <2>4, ReceiverFrame DEF TriggerEventInsert, SenderInv
<1>5. ASSUME NEW e \in sends, NEW t \in Target, NetworkTickDone(e, t)
      PROVE  SenderInv' /\ ReceiverTypeOK' /\ net' \subseteq Packets
  <2>1. sends' \subseteq sends /\ (sendTargets \in [Ids -> SUBSET Target])'
    BY <1>5, TickSendListType DEF NetworkTickDone, SenderInv
  <2>2. SenderInv'
    BY <1>5, <2>1 DEF NetworkTickDone, SenderInv, SenderTypeOK, IndexOK, OutgoingInv, Fragments
  <2> QED BY <1>5, <2>2, ReceiverFrame DEF NetworkTickDone
<1>6. ASSUME NEW e \in sends, NEW t \in Target, NetworkTickRestart(e, t)
      PROVE  SenderInv' /\ ReceiverTypeOK' /\ net' \subseteq Packets
  <2>1. PICK first \in Unacked(e, t) :
               lastBit' = [lastBit EXCEPT ![e][t] = first]
    BY <1>6 DEF NetworkTickRestart
  <2>2. e \in Ids /\ e < eventId /\ first \in Fragments(e) /\ first \in Nat
    BY <2>1, PacketCountNat DEF Unacked, Fragments, SenderInv, SenderTypeOK, OutgoingInv
  <2>3. sends' \subseteq sends /\ (sendTargets \in [Ids -> SUBSET Target])'
    BY <1>6, TickSendListType DEF NetworkTickRestart, SenderInv
  <2>4. (lastBit \in [Ids -> [Target -> Nat]])'
    BY <2>1, <2>2, NestedUpdate DEF SenderInv, SenderTypeOK
  <2>5. SenderTypeOK'
    BY <1>6, <2>2, <2>3, <2>4 DEF NetworkTickRestart, SenderInv, SenderTypeOK
  <2>6. IndexOK' /\ OutgoingInv'
    BY <1>6, <2>1, <2>2, <2>3, CursorMoves DEF NetworkTickRestart
  <2> QED BY <1>6, <2>5, <2>6, ReceiverFrame DEF NetworkTickRestart, SenderInv
<1>7. ASSUME NEW e \in sends, NEW t \in Target, NEW p \in Fragments(e),
             NetworkTickBurst(e, t, p)
      PROVE  SenderInv' /\ ReceiverTypeOK' /\ net' \subseteq Packets
  <2> DEFINE count == PacketCount(size[e])
             next  == NextBit(p, count)
  <2>1. e \in Ids /\ e < eventId /\ count \in Nat \ {0}
    BY PacketCountPositive DEF SenderInv, SenderTypeOK, OutgoingInv
  <2>2. p \in Nat
    BY <2>1 DEF Fragments
  <2>3. next \in Fragments(e) /\ next \in Nat
    BY <2>1, <2>2, NextBitInRange DEF Fragments
  <2>4. ASSUME NEW i \in Ahead(e, t) PROVE Data(e, t, i) \in Packets
    <3>1. i \in Nat
      BY <2>1 DEF Ahead, Unacked, Fragments
    <3> QED BY <2>1, <3>1, WireNat DEF Data, Packets
  <2>5. net' \subseteq Packets
    BY <1>7, <2>4 DEF NetworkTickBurst
  <2>6. lastBit' = [lastBit EXCEPT ![e][t] = next]
    BY <1>7 DEF NetworkTickBurst
  <2>7. sends' \subseteq sends /\ (sendTargets \in [Ids -> SUBSET Target])'
    BY <1>7, TickSendListType DEF NetworkTickBurst, SenderInv
  <2>8. (lastBit \in [Ids -> [Target -> Nat]])'
    BY <2>1, <2>3, <2>6, NestedUpdate DEF SenderInv, SenderTypeOK
  <2> HIDE DEF next, count
  <2>9. SenderTypeOK'
    BY <1>7, <2>1, <2>7, <2>8 DEF NetworkTickBurst, SenderInv, SenderTypeOK
  <2>10. IndexOK' /\ OutgoingInv'
    <3>1. UNCHANGED <<size, trigger, eventId>>
      BY <1>7 DEF NetworkTickBurst
    <3> QED
      BY <2>3, <2>6, <2>7, <3>1, CursorMoves
  <2> QED
    BY <1>7, <2>5, <2>9, <2>10, ReceiverFrame DEF NetworkTickBurst, SenderInv
<1>8. ASSUME NetworkTickIdle
      PROVE  SenderInv' /\ ReceiverTypeOK' /\ net' \subseteq Packets
  <2>1. sends' \subseteq sends /\ (sendTargets \in [Ids -> SUBSET Target])'
    BY <1>8, TickSendListType DEF NetworkTickIdle, SenderInv
  <2>2. SenderInv'
    BY <1>8, <2>1 DEF NetworkTickIdle, SenderInv, SenderTypeOK, IndexOK, OutgoingInv, Fragments
  <2> QED BY <1>8, <2>2, ReceiverFrame DEF NetworkTickIdle
<1>9. ASSUME NEW e \in Ids, NEW t \in Target, DelayOver(e, t)
      PROVE  SenderInv' /\ ReceiverTypeOK' /\ net' \subseteq Packets
  <2>1. SenderInv'
    BY <1>9 DEF DelayOver, SenderInv, SenderTypeOK, IndexOK, OutgoingInv, Fragments
  <2> QED BY <1>9, <2>1, ReceiverFrame DEF DelayOver
<1>10. ASSUME NEW p \in net, HandlePacketAck(p)
       PROVE  SenderInv' /\ ReceiverTypeOK' /\ net' \subseteq Packets
  <2>1. p.event \in Ids /\ p.target \in Target /\ p.idx \in Nat
    BY PacketFields
  <2>2. (ackBits \in [Ids -> [Target -> SUBSET Nat]])'
    <3>1. ackBits \in [Ids -> [Target -> SUBSET Nat]]
      BY DEF SenderInv, SenderTypeOK
    <3>2. ackBits[p.event][p.target] \cup {p.idx} \in SUBSET Nat
      BY <2>1, <3>1
    <3>3. [ackBits EXCEPT ![p.event][p.target] = @ \cup {p.idx}]
             \in [Ids -> [Target -> SUBSET Nat]]
      BY <2>1, <3>1, <3>2, NestedUpdate
    <3> QED BY <1>10, <3>1, <3>3 DEF HandlePacketAck
  <2>3. SenderInv'
    BY <1>10, <2>2 DEF HandlePacketAck, SenderInv, SenderTypeOK, IndexOK, OutgoingInv, Fragments
  <2> QED
    BY <1>10, <2>3, ReceiverFrame DEF HandlePacketAck
<1>11. ASSUME NEW t \in Target, PeerUnregisterTarget(t)
       PROVE  SenderInv' /\ ReceiverTypeOK' /\ net' \subseteq Packets
  <2>1. ReceiverTypeOK'
    BY <1>11, EraseReceivesType DEF PeerUnregisterTarget, ReceiverTypeOK
  <2> QED BY <1>11, <2>1, SenderFrame DEF PeerUnregisterTarget
<1>12. ASSUME NEW p \in net, HandlePacketKnown(p)
       PROVE  SenderInv' /\ ReceiverTypeOK' /\ net' \subseteq Packets
  <2>1. p.event \in Ids /\ p.target \in Target /\ Ack(p) \in Packets
    BY PacketFields
  <2>2. (age \in [Target -> [Ids -> Nat]])'
    BY <1>12, <2>1, NestedUpdate DEF HandlePacketKnown, ReceiverTypeOK
  <2>3. ReceiverTypeOK'
    BY <1>12, <2>2 DEF HandlePacketKnown, ReceiverTypeOK
  <2> QED BY <1>12, <2>1, <2>3, SenderFrame DEF HandlePacketKnown
<1>13. ASSUME NEW p \in net, NEW limited \in BOOLEAN, HandlePacketNew(p, limited)
       PROVE  SenderInv' /\ ReceiverTypeOK' /\ net' \subseteq Packets
  <2>1. /\ p.event \in Ids /\ p.target \in Target /\ Ack(p) \in Packets
        /\ p.idx \in Nat /\ p.total \in Nat
    BY PacketFields
  <2>2. ReceiverTypeOK'
    <3> DEFINE t == p.target
               e == p.event
    <3>1. (age \in [Target -> [Ids -> Nat]])'
      <4>1. age' = [age EXCEPT ![t][e] = 0]
        BY <1>13 DEF HandlePacketNew
      <4> QED BY <2>1, <4>1, NestedUpdate DEF ReceiverTypeOK
    <3>2. (total \in [Target -> [Ids -> Nat]])'
      <4>1. NotedTotal(p) \in Nat
        BY <2>1 DEF NotedTotal, ReceiverTypeOK
      <4>2. total' = [total EXCEPT ![t][e] = NotedTotal(p)]
        BY <1>13 DEF HandlePacketNew
      <4> QED BY <2>1, <4>1, <4>2, NestedUpdate DEF ReceiverTypeOK
    <3>3. (ackedBits \in [Target -> [Ids -> SUBSET Nat]])'
      <4>1. NotedBits(p) \in SUBSET Nat
        BY <2>1 DEF NotedBits, ReceiverTypeOK
      <4>2. ackedBits' = [ackedBits EXCEPT ![t][e] = NotedBits(p)]
        BY <1>13 DEF HandlePacketNew
      <4>3. ackedBits \in [Target -> [Ids -> SUBSET Nat]]
        BY DEF ReceiverTypeOK
      <4> QED BY <2>1, <4>1, <4>2, <4>3, NestedUpdate
    <3>4. (packetData \in [Target -> [Ids -> SUBSET Nat]])'
      <4>1. NotedData(p) \in SUBSET Nat
        BY <2>1 DEF NotedData, ReceiverTypeOK
      <4>2. packetData' = [packetData EXCEPT ![t][e] = NotedData(p)]
        BY <1>13 DEF HandlePacketNew
      <4>3. packetData \in [Target -> [Ids -> SUBSET Nat]]
        BY DEF ReceiverTypeOK
      <4> QED BY <2>1, <4>1, <4>2, <4>3, NestedUpdate
    <3>5. /\ (receiveList \in [Target -> SUBSET Ids])'
          /\ (completed \in [Target -> SUBSET Ids])'
          /\ (handled \in [Target -> SUBSET Ids])'
      <4>1. /\ receiveList' = [receiveList EXCEPT ![t] = @ \cup {e}]
            /\ \/ /\ completed' = [completed EXCEPT ![t] = @ \cup {e}]
                  /\ handled' = [handled EXCEPT ![t] = @ \cup {e}]
               \/ UNCHANGED <<completed, handled>>
        BY <1>13 DEF HandlePacketNew
      <4>2. /\ receiveList \in [Target -> SUBSET Ids]
            /\ completed \in [Target -> SUBSET Ids]
            /\ handled \in [Target -> SUBSET Ids]
        BY DEF ReceiverTypeOK
      <4> QED BY <2>1, <4>1, <4>2
    <3>6. (queued \in [Target -> [Ids -> Nat]])'
      <4>1. (IF limited THEN queued[t][e] ELSE queued[t][e] + 1) \in Nat
        BY <2>1 DEF ReceiverTypeOK
      <4>2. [queued EXCEPT ![t][e] = IF limited THEN @ ELSE @ + 1]
               \in [Target -> [Ids -> Nat]]
        BY <2>1, <4>1, NestedUpdate DEF ReceiverTypeOK
      <4>3. queued' = [queued EXCEPT ![t][e] = IF limited THEN @ ELSE @ + 1]
               \/ queued' = queued
        BY <1>13 DEF HandlePacketNew
      <4> QED BY <4>2, <4>3 DEF ReceiverTypeOK
    <3> QED
      BY <1>13, <3>1, <3>2, <3>3, <3>4, <3>5, <3>6 DEF HandlePacketNew, ReceiverTypeOK
  <2> QED
    BY <1>13, <2>1, <2>2, SenderFrame DEF HandlePacketNew
<1>14. ASSUME NEW t \in Target, PeerNetworkTick(t)
       PROVE  SenderInv' /\ ReceiverTypeOK' /\ net' \subseteq Packets
  <2>1. ReceiverTypeOK'
    BY <1>14, EraseReceivesType DEF PeerNetworkTick, ReceiverTypeOK
  <2> QED BY <1>14, <2>1, SenderFrame DEF PeerNetworkTick
<1>15. ASSUME NEW p \in net, Lose(p)
       PROVE  SenderInv' /\ ReceiverTypeOK' /\ net' \subseteq Packets
  BY <1>15, SenderFrame, ReceiverFrame DEF Lose
<1>16. ASSUME Elapse
       PROVE  SenderInv' /\ ReceiverTypeOK' /\ net' \subseteq Packets
  <2>1. (age \in [Target -> [Ids -> Nat]])'
    BY <1>16 DEF Elapse, ReceiverTypeOK
  <2>2. ReceiverTypeOK'
    BY <1>16, <2>1 DEF Elapse, ReceiverTypeOK
  <2> QED BY <1>16, <2>2, SenderFrame DEF Elapse
<1>17. ASSUME UNCHANGED vars
       PROVE  SenderInv' /\ ReceiverTypeOK' /\ net' \subseteq Packets
  BY <1>17, SenderFrame, ReceiverFrame DEF vars, senderVars, receiverVars
<1> QED
  BY <1>1, <1>2, <1>3, <1>4, <1>5, <1>6, <1>7, <1>8, <1>9, <1>10, <1>11, <1>12,
     <1>13, <1>14, <1>15, <1>16, <1>17
  DEF Next, SendNext, ReceiveNext, NetNext

\* Type correctness of the transfer, NetworkTick's cursor included.
THEOREM TypeCorrect == Spec => []TypeOK
<1> DEFINE I == SenderInv /\ ReceiverTypeOK /\ net \subseteq Packets
<1>1. Init => I
  BY TypeInit
<1>2. I /\ [Next]_vars => I'
  BY TypeStep
<1>3. I => TypeOK
  BY DEF SenderInv, TypeOK
<1> QED
  BY <1>1, <1>2, <1>3, PTL DEF Spec


---------------------------------------------------------------------------
(* Safety of the transfer.  The invariant that is inductive follows a      *)
(* fragment from the sender to the receiver and its acknowledgement back.  *)

\* No event that passes the size check has more fragments than packetIdx and
\* totalPackets can count.
NoOverflow ==
  \A s \in Sizes : s < MaxPacketSize => PacketCount(s) < PacketLimit

\* The sender's bookkeeping: an id is used once, an event is only sent to its
\* audience, and a target that has gone does not come back.
SentInv ==
  /\ \A e \in Ids : e < eventId => /\ size[e] \in Nat \ {0}
                                   /\ PacketCount(size[e]) < PacketLimit
  /\ \A e \in Ids : e >= eventId => /\ audience[e] = {}
                                    /\ \A t \in Target : ackBits[e][t] = {}
  /\ \A e \in Ids : sendTargets[e] \subseteq audience[e]
  /\ \A e \in Ids : audience[e] \cap fresh = {}
  /\ \A e \in Ids : sendTargets[e] # {} => e \in sends
  /\ targets \cap fresh = {}
  /\ trigger.busy => /\ trigger.targets \cap fresh = {}
                     /\ PacketCount(trigger.size) < PacketLimit

\* Packets carry what Unparse was given.
NetInv ==
  \A p \in net : /\ p.event < eventId
                 /\ p.target \in audience[p.event]
                 /\ p.idx \in Fragments(p.event)
                 /\ p.total = PacketCount(size[p.event])

\* A ReceiveEvent has the size of its event, stores exactly the fragments it
\* has marked, and is completed exactly when all are there.
RecvInv ==
  \A t \in Target : \A e \in Ids :
    /\ packetData[t][e] = ackedBits[t][e]
    /\ e \notin receiveList[t] => ackedBits[t][e] = {}
    /\ e \in receiveList[t] => /\ e < eventId
                               /\ total[t][e] = PacketCount(size[e])
                               /\ ackedBits[t][e] \subseteq Fragments(e)
                               /\ Fragments(e) \subseteq ackedBits[t][e]
                                     => e \in completed[t]
    /\ e \in handled[t] => e < eventId
    /\ e \in completed[t] => /\ e \in receiveList[t]
                             /\ e \in handled[t]
                             /\ Fragments(e) \subseteq ackedBits[t][e]

\* What is acknowledged, at the sender or on the way to it, has arrived.
AckInv ==
  \A t \in sources : \A e \in Ids :
    /\ \A i \in ackBits[e][t] : e \in handled[t] \/ i \in ackedBits[t][e]
    /\ \A p \in net : p.ack /\ p.target = t /\ p.event = e
                        => e \in handled[t] \/ p.idx \in ackedBits[t][e]

\* The ReceiveEvent of a handled event is there as long as a fragment can
\* still arrive.
RetainInv ==
  \A t \in sources : \A e \in Ids :
    /\ e \in handled[t] => e \in completed[t] \/ ~Lingering(e, t)
    /\ e \in completed[t] /\ Lingering(e, t) => age[t][e] <= MaxSilence

\* Nothing is queued before it is handled, and then once.
OnceInv ==
  \A t \in sources : \A e \in Ids :
    queued[t][e] <= (IF e \in handled[t] THEN 1 ELSE 0)

SafetyInv ==
  /\ SentInv
  /\ NetInv
  /\ RecvInv
  /\ AckInv
  /\ RetainInv
  /\ OnceInv
  /\ NoSilentLoss


Types == SenderInv /\ ReceiverTypeOK /\ net \subseteq Packets

LEMMA SafetyInit == Init => SafetyInv
<1> SUFFICES ASSUME Init PROVE SafetyInv
  OBVIOUS
<1>1. SentInv
  BY ConstantsAssumption DEF Init, SentInv, NoCall, Ids
<1>2. NetInv /\ AckInv /\ RetainInv
  BY DEF Init, NetInv, AckInv, RetainInv
<1>3. RecvInv /\ OnceInv
  BY DEF Init, RecvInv, OnceInv
<1>4. NoSilentLoss
  BY DEF Init, NoSilentLoss
<1> QED BY <1>1, <1>2, <1>3, <1>4 DEF SafetyInv

\* What each part of the invariant depends on.

LEMMA SentFrame ==
  ASSUME SentInv,
         UNCHANGED <<eventId, size, audience, ackBits, fresh, trigger, targets>>,
         UNCHANGED <<sendTargets, sends>>
  PROVE  SentInv'
  BY DEF SentInv

LEMMA NetFrame ==
  ASSUME NetInv, net' \subseteq net, UNCHANGED <<eventId, size, audience>>
  PROVE  NetInv'
  BY DEF NetInv, Fragments

LEMMA RecvFrame ==
  ASSUME RecvInv, UNCHANGED <<eventId, size>>, UNCHANGED receiverVars
  PROVE  RecvInv'
  BY DEF RecvInv, Fragments, receiverVars

LEMMA AckFrame ==
  ASSUME AckInv, net' \subseteq net, UNCHANGED <<ackBits, receiverVars>>
  PROVE  AckInv'
  BY DEF AckInv, receiverVars

LEMMA RetainFrame ==
  ASSUME RetainInv, UNCHANGED receiverVars,
         \A e \in Ids : \A t \in Target : Lingering(e, t)' => Lingering(e, t),
         sources \subseteq Target
  PROVE  RetainInv'
  BY DEF RetainInv, receiverVars

LEMMA OnceFrame == OnceInv /\ UNCHANGED receiverVars => OnceInv'
  BY DEF OnceInv, receiverVars

\* Nothing starts to linger when the send list and the network only lose
\* entries.
LEMMA LingeringShrinks ==
  ASSUME sends' \subseteq sends, net' \subseteq net,
         \A e \in Ids : sendTargets'[e] \cap targets' \subseteq sendTargets[e] \cap targets
  PROVE  \A e \in Ids : \A t \in Target : Lingering(e, t)' => Lingering(e, t)
  BY DEF Lingering

LEMMA SafeRegisterTarget ==
  ASSUME Types, SafetyInv, NEW t \in Target, RegisterTarget(t)
  PROVE  SafetyInv'
<1>1. SentInv'
  BY DEF RegisterTarget, SafetyInv, SentInv
<1>2. \A e \in Ids : sendTargets'[e] \cap targets' \subseteq sendTargets[e] \cap targets
  BY DEF RegisterTarget, SafetyInv, SentInv
<1>3. NetInv' /\ RecvInv' /\ AckInv' /\ OnceInv'
  BY NetFrame, RecvFrame, AckFrame, OnceFrame DEF RegisterTarget, SafetyInv
<1>4. RetainInv'
  BY <1>2, LingeringShrinks, RetainFrame
  DEF RegisterTarget, SafetyInv, Types, ReceiverTypeOK
<1>5. NoSilentLoss'
  BY DEF RegisterTarget, SafetyInv, SentInv, NoSilentLoss, receiverVars
<1> QED BY <1>1, <1>3, <1>4, <1>5 DEF SafetyInv

LEMMA SafeUnregisterTarget ==
  ASSUME Types, SafetyInv, NEW t \in Target, UnregisterTarget(t)
  PROVE  SafetyInv'
<1>1. SentInv'
  BY DEF UnregisterTarget, SafetyInv, SentInv
<1>2. \A e \in Ids : sendTargets'[e] \cap targets' \subseteq sendTargets[e] \cap targets
  BY DEF UnregisterTarget
<1>3. NetInv' /\ RecvInv' /\ AckInv' /\ OnceInv'
  BY NetFrame, RecvFrame, AckFrame, OnceFrame DEF UnregisterTarget, SafetyInv
<1>4. RetainInv'
  BY <1>2, LingeringShrinks, RetainFrame
  DEF UnregisterTarget, SafetyInv, Types, ReceiverTypeOK
<1>5. NoSilentLoss'
  BY DEF UnregisterTarget, SafetyInv, NoSilentLoss, receiverVars
<1> QED BY <1>1, <1>3, <1>4, <1>5 DEF SafetyInv

LEMMA SafeTriggerEventSnapshot ==
  ASSUME Types, SafetyInv, NoOverflow, NEW dst \in SUBSET Target, NEW s \in Sizes,
         TriggerEventSnapshot(dst, s)
  PROVE  SafetyInv'
<1>1. SentInv'
  <2>1. PacketCount(s) < PacketLimit /\ dst \cap fresh = {}
    BY DEF TriggerEventSnapshot, NoOverflow, SafetyInv, SentInv
  <2>2. trigger'.targets = dst /\ trigger'.size = s
    BY DEF TriggerEventSnapshot
  <2> QED BY <2>1, <2>2 DEF TriggerEventSnapshot, SafetyInv, SentInv
<1>3. NetInv' /\ RecvInv' /\ AckInv' /\ OnceInv'
  BY NetFrame, RecvFrame, AckFrame, OnceFrame DEF TriggerEventSnapshot, SafetyInv
<1>4. RetainInv'
  BY LingeringShrinks, RetainFrame
  DEF TriggerEventSnapshot, SafetyInv, Types, ReceiverTypeOK
<1>5. NoSilentLoss'
  BY DEF TriggerEventSnapshot, SafetyInv, NoSilentLoss, receiverVars
<1> QED BY <1>1, <1>3, <1>4, <1>5 DEF SafetyInv

LEMMA SafeTriggerEventInsert ==
  ASSUME Types, SafetyInv, TriggerEventInsert
  PROVE  SafetyInv'
<1> USE ConstantsAssumption
<1>1. /\ eventId \in Ids
      /\ trigger.targets \in SUBSET Target
      /\ trigger.size \in Nat \ {0}
      /\ trigger.targets \cap fresh = {}
      /\ PacketCount(trigger.size) < PacketLimit
  BY DEF TriggerEventInsert, Types, SenderInv, SenderTypeOK, OutgoingInv, Ids,
     SafetyInv, SentInv
<1>2. \A e \in Ids : e # eventId => /\ size'[e] = size[e]
                                    /\ audience'[e] = audience[e]
                                    /\ sendTargets'[e] = sendTargets[e]
                                    /\ e \in sends' <=> e \in sends
                                    /\ e < eventId' <=> e < eventId
  BY DEF TriggerEventInsert, Types, SenderInv, SenderTypeOK, Ids
<1>3. /\ size'[eventId] = trigger.size
      /\ audience'[eventId] = trigger.targets
      /\ sendTargets'[eventId] = trigger.targets
      /\ eventId \in sends'
      /\ eventId < eventId' /\ eventId' \in Int
  BY <1>1 DEF TriggerEventInsert, Types, SenderInv, SenderTypeOK, Ids
<1>4. UNCHANGED <<fresh, targets, ackBits, lastBit, delayed, receiverVars, net>>
      /\ trigger' = NoCall
  BY DEF TriggerEventInsert
<1>5. SentInv'
  BY <1>1, <1>2, <1>3, <1>4 DEF SafetyInv, SentInv, NoCall, Ids
<1>6. ASSUME NEW e \in Ids, e < eventId
      PROVE  /\ Fragments(e)' = Fragments(e) /\ e # eventId /\ e < eventId'
             /\ size'[e] = size[e] /\ audience'[e] = audience[e]
  BY <1>1, <1>2, <1>6 DEF Fragments, Ids
<1>7. NetInv'
  <2> SUFFICES ASSUME NEW p \in net
               PROVE  /\ p.event < eventId'
                      /\ p.target \in audience'[p.event]
                      /\ p.idx \in Fragments(p.event)'
                      /\ p.total = PacketCount(size'[p.event])
    BY <1>4 DEF NetInv
  <2>1. p.event \in Ids /\ p.event < eventId
    BY PacketFields DEF Types, SafetyInv, NetInv
  <2> QED BY <2>1, <1>6 DEF SafetyInv, NetInv
<1>8. RecvInv'
  <2> SUFFICES ASSUME NEW t \in Target, NEW e \in Ids
      PROVE
        /\ packetData[t][e] = ackedBits[t][e]
        /\ e \notin receiveList[t] => ackedBits[t][e] = {}
        /\ e \in receiveList[t] => /\ e < eventId'
                                   /\ total[t][e] = PacketCount(size'[e])
                                   /\ ackedBits[t][e] \subseteq Fragments(e)'
                                   /\ Fragments(e)' \subseteq ackedBits[t][e]
                                         => e \in completed[t]
        /\ e \in handled[t] => e < eventId'
        /\ e \in completed[t] => /\ e \in receiveList[t]
                                 /\ e \in handled[t]
                                 /\ Fragments(e)' \subseteq ackedBits[t][e]
    BY <1>4 DEF RecvInv, receiverVars
  <2>1. CASE e < eventId
    BY <1>6, <2>1 DEF SafetyInv, RecvInv
  <2>2. CASE ~(e < eventId)
    BY <2>2 DEF SafetyInv, RecvInv
  <2> QED BY <2>1, <2>2
<1>9. AckInv' /\ OnceInv'
  BY <1>4, AckFrame, OnceFrame DEF SafetyInv
<1>10. RetainInv'
  <2> SUFFICES ASSUME NEW t \in sources, NEW e \in Ids
               PROVE  /\ e \in handled[t] => e \in completed[t] \/ ~Lingering(e, t)'
                      /\ e \in completed[t] /\ Lingering(e, t)' => age[t][e] <= MaxSilence
    BY <1>4 DEF RetainInv, receiverVars
  <2>1. e \in completed[t] => e \in handled[t]
    BY DEF SafetyInv, RecvInv, Types, ReceiverTypeOK
  <2>2. e \in handled[t] => e < eventId
    BY DEF SafetyInv, RecvInv, Types, ReceiverTypeOK
  <2>3. CASE e < eventId
    <3>1. Lingering(e, t)' => Lingering(e, t)
      BY <1>2, <1>4, <1>6, <2>3 DEF Lingering
    <3> QED BY <3>1 DEF SafetyInv, RetainInv
  <2> QED BY <2>1, <2>2, <2>3
<1>11. NoSilentLoss'
  <2> SUFFICES ASSUME NEW e \in Ids, e < eventId', NEW t \in audience'[e]
               PROVE  \/ e \in sends' /\ t \in sendTargets'[e]
                      \/ t \notin targets
                      \/ t \notin sources
                      \/ e \in handled[t]
    BY <1>4 DEF NoSilentLoss, receiverVars
  <2>1. CASE e = eventId
    BY <1>3, <2>1
  <2>2. CASE e # eventId
    BY <1>2, <2>2 DEF SafetyInv, NoSilentLoss
  <2> QED BY <2>1, <2>2
<1> QED BY <1>5, <1>7, <1>8, <1>9, <1>10, <1>11 DEF SafetyInv


\* What a tick may take from the send list: targets that are gone, and done.
LEMMA TickEffect ==
  ASSUME Types, SafetyInv, NEW e, NEW done, TickSendList(e, done),
         UNCHANGED <<eventId, size, audience, ackBits, fresh, trigger, targets>>
  PROVE  /\ SentInv'
         /\ sends' \subseteq sends
         /\ \A f \in Ids : sendTargets'[f] \cap targets' \subseteq sendTargets[f] \cap targets
         /\ \A f \in Ids : \A t \in sendTargets[f] :
              \/ f \in sends' /\ t \in sendTargets'[f]
              \/ t \notin targets
              \/ f = e /\ t \in done
<1>1. /\ sendTargets' = [f \in Ids |-> (sendTargets[f] \cap targets)
                                          \ (IF f = e THEN done ELSE {})]
      /\ sends' = {f \in sends : sendTargets'[f] # {}}
  <2>1. \A f \in sends : f \in Ids
    BY DEF Types, SenderInv, SenderTypeOK
  <2> QED BY <2>1 DEF TickSendList
<1>2. \A f \in Ids : sendTargets'[f] \subseteq sendTargets[f] \cap targets
  BY <1>1
<1>3. \A f \in Ids : sendTargets'[f] # {} => f \in sends'
  BY <1>1, <1>2 DEF SafetyInv, SentInv
<1>4. SentInv'
  BY <1>2, <1>3 DEF SafetyInv, SentInv
<1>5. \A f \in Ids : \A t \in sendTargets[f] :
         t \in sendTargets'[f] \/ t \notin targets \/ (f = e /\ t \in done)
  BY <1>1
<1> QED BY <1>1, <1>2, <1>3, <1>4, <1>5

\* The heart of NoSilentLoss: when every fragment is acknowledged, the target
\* has handled the event.
LEMMA AllAckedMeansHandled ==
  ASSUME Types, SafetyInv, NEW e \in Ids, e < eventId, NEW t \in sources,
         Unacked(e, t) = {}
  PROVE  e \in handled[t]
<1>1. PacketCount(size[e]) \in Nat \ {0}
  BY PacketCountPositive DEF SafetyInv, SentInv
<1>2. 0 \in Fragments(e)
  BY <1>1 DEF Fragments
<1>3. \A i \in Fragments(e) : i \in ackBits[e][t]
  BY DEF Unacked
<1>4. SUFFICES ASSUME e \notin handled[t] PROVE FALSE
  OBVIOUS
<1>5. Fragments(e) \subseteq ackedBits[t][e]
  BY <1>3, <1>4 DEF SafetyInv, AckInv
<1>6. t \in Target
  BY DEF Types, ReceiverTypeOK
<1>7. e \in receiveList[t]
  BY <1>2, <1>5, <1>6 DEF SafetyInv, RecvInv
<1> QED BY <1>4, <1>5, <1>6, <1>7 DEF SafetyInv, RecvInv

LEMMA SafeNetworkTickDone ==
  ASSUME Types, SafetyInv, NEW e \in sends, NEW t \in Target, NetworkTickDone(e, t)
  PROVE  SafetyInv'
<1>1. /\ SentInv'
      /\ sends' \subseteq sends
      /\ \A f \in Ids : sendTargets'[f] \cap targets' \subseteq sendTargets[f] \cap targets
      /\ \A f \in Ids : \A u \in sendTargets[f] :
           \/ f \in sends' /\ u \in sendTargets'[f]
           \/ u \notin targets
           \/ f = e /\ u \in {t}
  BY TickEffect DEF NetworkTickDone
<1>2. NetInv' /\ RecvInv' /\ AckInv' /\ OnceInv'
  BY NetFrame, RecvFrame, AckFrame, OnceFrame DEF NetworkTickDone, SafetyInv
<1>3. RetainInv'
  BY <1>1, LingeringShrinks, RetainFrame
  DEF NetworkTickDone, SafetyInv, Types, ReceiverTypeOK
<1>4. e \in Ids /\ e < eventId
  BY DEF Types, SenderInv, SenderTypeOK, OutgoingInv
<1>5. t \in sources => e \in handled[t]
  BY <1>4, AllAckedMeansHandled DEF NetworkTickDone
<1>6. NoSilentLoss'
  BY <1>1, <1>5 DEF NetworkTickDone, SafetyInv, NoSilentLoss, receiverVars
<1> QED BY <1>1, <1>2, <1>3, <1>6 DEF SafetyInv

LEMMA SafeNetworkTickRestart ==
  ASSUME Types, SafetyInv, NEW e \in sends, NEW t \in Target, NetworkTickRestart(e, t)
  PROVE  SafetyInv'
<1>1. /\ SentInv'
      /\ sends' \subseteq sends
      /\ \A f \in Ids : sendTargets'[f] \cap targets' \subseteq sendTargets[f] \cap targets
      /\ \A f \in Ids : \A u \in sendTargets[f] :
           \/ f \in sends' /\ u \in sendTargets'[f]
           \/ u \notin targets
           \/ f = e /\ u \in {}
  BY TickEffect DEF NetworkTickRestart
<1>2. NetInv' /\ RecvInv' /\ AckInv' /\ OnceInv'
  BY NetFrame, RecvFrame, AckFrame, OnceFrame DEF NetworkTickRestart, SafetyInv
<1>3. RetainInv'
  BY <1>1, LingeringShrinks, RetainFrame
  DEF NetworkTickRestart, SafetyInv, Types, ReceiverTypeOK
<1>4. NoSilentLoss'
  BY <1>1 DEF NetworkTickRestart, SafetyInv, NoSilentLoss, receiverVars
<1> QED BY <1>1, <1>2, <1>3, <1>4 DEF SafetyInv

LEMMA SafeNetworkTickIdle ==
  ASSUME Types, SafetyInv, NetworkTickIdle
  PROVE  SafetyInv'
<1>1. /\ SentInv'
      /\ sends' \subseteq sends
      /\ \A f \in Ids : sendTargets'[f] \cap targets' \subseteq sendTargets[f] \cap targets
      /\ \A f \in Ids : \A u \in sendTargets[f] :
           \/ f \in sends' /\ u \in sendTargets'[f]
           \/ u \notin targets
           \/ f = 0 /\ u \in {}
  BY TickEffect DEF NetworkTickIdle
<1>2. NetInv' /\ RecvInv' /\ AckInv' /\ OnceInv'
  BY NetFrame, RecvFrame, AckFrame, OnceFrame DEF NetworkTickIdle, SafetyInv
<1>3. RetainInv'
  BY <1>1, LingeringShrinks, RetainFrame
  DEF NetworkTickIdle, SafetyInv, Types, ReceiverTypeOK
<1>4. NoSilentLoss'
  BY <1>1 DEF NetworkTickIdle, SafetyInv, NoSilentLoss, receiverVars
<1> QED BY <1>1, <1>2, <1>3, <1>4 DEF SafetyInv

\* A number below the limit reads back as it was written.
LEMMA WireExact ==
  ASSUME NEW n \in Nat, n < PacketLimit
  PROVE  Wire(n) = n
  BY ConstantsAssumption DEF Wire

LEMMA SafeNetworkTickBurst ==
  ASSUME Types, SafetyInv, NEW e \in sends, NEW t \in Target, NEW p \in Fragments(e),
         NetworkTickBurst(e, t, p)
  PROVE  SafetyInv'
<1>1. /\ SentInv'
      /\ sends' \subseteq sends
      /\ \A f \in Ids : sendTargets'[f] \cap targets' \subseteq sendTargets[f] \cap targets
      /\ \A f \in Ids : \A u \in sendTargets[f] :
           \/ f \in sends' /\ u \in sendTargets'[f]
           \/ u \notin targets
           \/ f = e /\ u \in {}
  BY TickEffect DEF NetworkTickBurst
<1>2. UNCHANGED <<eventId, size, audience, ackBits, targets, receiverVars>>
  BY DEF NetworkTickBurst
<1>3. /\ e \in Ids /\ e < eventId
      /\ t \in sendTargets[e] \cap targets
      /\ t \in audience[e]
  BY DEF NetworkTickBurst, Due, Types, SenderInv, SenderTypeOK, OutgoingInv,
     SafetyInv, SentInv
<1>4. PacketCount(size[e]) \in Nat \ {0} /\ PacketCount(size[e]) < PacketLimit
  BY <1>3, PacketCountPositive DEF SafetyInv, SentInv
<1>5. ASSUME NEW q \in net'
      PROVE  \/ q \in net
             \/ \E i \in Fragments(e) :
                  q = [ack |-> FALSE, target |-> t, event |-> e, idx |-> i,
                       total |-> PacketCount(size[e])]
  <2>1. CASE q \in net
    BY <2>1
  <2>2. CASE q \notin net
    <3>1. PICK i \in Ahead(e, t) : q = Data(e, t, i)
      BY <2>2, <1>5 DEF NetworkTickBurst
    <3>2. i \in Fragments(e) /\ i \in Nat /\ i < PacketLimit
      BY <1>4, ConstantsAssumption DEF Ahead, Unacked, Fragments
    <3>3. Wire(i) = i /\ Wire(PacketCount(size[e])) = PacketCount(size[e])
      BY <1>4, <3>2, WireExact
    <3> QED BY <3>1, <3>2, <3>3 DEF Data
  <2> QED BY <2>1, <2>2
<1>6. NetInv'
  BY <1>2, <1>3, <1>5 DEF SafetyInv, NetInv, Fragments
<1>7. RecvInv' /\ OnceInv'
  BY <1>2, RecvFrame, OnceFrame DEF SafetyInv
<1>8. AckInv'
  BY <1>2, <1>5 DEF SafetyInv, AckInv, receiverVars
<1>9. RetainInv'
  <2>1. \A f \in Ids : \A u \in Target : Lingering(f, u)' => Lingering(f, u)
    BY <1>1, <1>3, <1>5 DEF Lingering
  <2> QED BY <1>2, <2>1, RetainFrame DEF SafetyInv, Types, ReceiverTypeOK
<1>10. NoSilentLoss'
  BY <1>1, <1>2 DEF SafetyInv, NoSilentLoss, receiverVars
<1> QED BY <1>1, <1>6, <1>7, <1>8, <1>9, <1>10 DEF SafetyInv

LEMMA SafeDelayOver ==
  ASSUME Types, SafetyInv, NEW e \in Ids, NEW t \in Target, DelayOver(e, t)
  PROVE  SafetyInv'
<1>1. SentInv' /\ NetInv' /\ RecvInv' /\ AckInv' /\ OnceInv'
  BY SentFrame, NetFrame, RecvFrame, AckFrame, OnceFrame DEF DelayOver, SafetyInv
<1>2. RetainInv'
  BY LingeringShrinks, RetainFrame DEF DelayOver, SafetyInv, Types, ReceiverTypeOK
<1>3. NoSilentLoss'
  BY DEF DelayOver, SafetyInv, NoSilentLoss, receiverVars
<1> QED BY <1>1, <1>2, <1>3 DEF SafetyInv

LEMMA SafeLose ==
  ASSUME Types, SafetyInv, NEW p \in net, Lose(p)
  PROVE  SafetyInv'
<1>1. SentInv' /\ NetInv' /\ RecvInv' /\ AckInv' /\ OnceInv'
  BY SentFrame, NetFrame, RecvFrame, AckFrame, OnceFrame DEF Lose, SafetyInv, senderVars
<1>2. RetainInv'
  BY LingeringShrinks, RetainFrame
  DEF Lose, SafetyInv, Types, ReceiverTypeOK, senderVars
<1>3. NoSilentLoss'
  BY DEF Lose, SafetyInv, NoSilentLoss, senderVars, receiverVars
<1> QED BY <1>1, <1>2, <1>3 DEF SafetyInv

LEMMA SafeHandlePacketAck ==
  ASSUME Types, SafetyInv, NEW p \in net, HandlePacketAck(p)
  PROVE  SafetyInv'
<1>1. p.event \in Ids /\ p.target \in Target /\ p.event < eventId
  BY PacketFields DEF Types, SafetyInv, NetInv
<1>2. /\ net' \subseteq net /\ p.ack
      /\ UNCHANGED <<fresh, targets, trigger, eventId, sends, size, audience,
                     sendTargets, targetData, lastBit, delayed, receiverVars>>
  BY DEF HandlePacketAck
<1>3. \A e \in Ids : \A t \in Target :
         /\ ackBits[e][t] \subseteq ackBits'[e][t]
         /\ ackBits'[e][t] \subseteq ackBits[e][t]
              \cup (IF e = p.event /\ t = p.target THEN {p.idx} ELSE {})
  <2>1. ackBits \in [Ids -> [Target -> SUBSET Nat]]
    BY DEF Types, SenderInv, SenderTypeOK
  <2> QED BY <1>1, <2>1 DEF HandlePacketAck
<1>4. SentInv'
  <2>1. \A e \in Ids : e >= eventId => e # p.event
    BY <1>1 DEF Ids, Types, SenderInv, SenderTypeOK
  <2>2. \A e \in Ids : e >= eventId => \A t \in Target : ackBits'[e][t] = {}
    BY <1>3, <2>1 DEF SafetyInv, SentInv
  <2> QED BY <1>2, <2>2 DEF SafetyInv, SentInv
<1>5. NetInv' /\ RecvInv' /\ OnceInv'
  BY <1>2, NetFrame, RecvFrame, OnceFrame DEF SafetyInv
<1>6. AckInv'
  <2> SUFFICES ASSUME NEW t \in sources, NEW e \in Ids
      PROVE  /\ \A i \in ackBits'[e][t] : e \in handled[t] \/ i \in ackedBits[t][e]
             /\ \A q \in net' : q.ack /\ q.target = t /\ q.event = e
                                  => e \in handled[t] \/ q.idx \in ackedBits[t][e]
    BY <1>2 DEF AckInv, receiverVars
  <2>1. t \in Target
    BY DEF Types, ReceiverTypeOK
  <2>2. \A q \in net : q.ack /\ q.target = t /\ q.event = e
                         => e \in handled[t] \/ q.idx \in ackedBits[t][e]
    BY DEF SafetyInv, AckInv
  <2>3. \A i \in ackBits[e][t] : e \in handled[t] \/ i \in ackedBits[t][e]
    BY DEF SafetyInv, AckInv
  <2>4. \A i \in ackBits'[e][t] :
           i \in ackBits[e][t] \/ (e = p.event /\ t = p.target /\ i = p.idx)
    BY <1>3, <2>1
  <2> QED BY <1>2, <2>2, <2>3, <2>4
<1>7. RetainInv'
  BY <1>2, LingeringShrinks, RetainFrame DEF SafetyInv, Types, ReceiverTypeOK
<1>8. NoSilentLoss'
  BY <1>2 DEF SafetyInv, NoSilentLoss, receiverVars
<1> QED BY <1>4, <1>5, <1>6, <1>7, <1>8 DEF SafetyInv


\* What destroying ReceiveEvents does to the two fields the invariant reads
\* for absent entries.
LEMMA EraseEffect ==
  ASSUME ReceiverTypeOK, NEW t \in Target, NEW es \in SUBSET Ids, EraseReceives(t, es)
  PROVE  \A u \in Target : \A e \in Ids :
           IF u = t /\ e \in es
           THEN /\ e \notin receiveList'[u] /\ e \notin completed'[u]
                /\ ackedBits'[u][e] = {} /\ packetData'[u][e] = {}
           ELSE /\ e \in receiveList'[u] <=> e \in receiveList[u]
                /\ e \in completed'[u] <=> e \in completed[u]
                /\ ackedBits'[u][e] = ackedBits[u][e]
                /\ packetData'[u][e] = packetData[u][e]
                /\ total'[u][e] = total[u][e]
                /\ age'[u][e] = age[u][e]
<1> SUFFICES ASSUME NEW u \in Target, NEW e \in Ids
    PROVE  IF u = t /\ e \in es
           THEN /\ e \notin receiveList'[u] /\ e \notin completed'[u]
                /\ ackedBits'[u][e] = {} /\ packetData'[u][e] = {}
           ELSE /\ e \in receiveList'[u] <=> e \in receiveList[u]
                /\ e \in completed'[u] <=> e \in completed[u]
                /\ ackedBits'[u][e] = ackedBits[u][e]
                /\ packetData'[u][e] = packetData[u][e]
                /\ total'[u][e] = total[u][e]
                /\ age'[u][e] = age[u][e]
  OBVIOUS
<1>1. CASE u = t
  BY <1>1 DEF EraseReceives, ReceiverTypeOK
<1>2. CASE u # t
  BY <1>2 DEF EraseReceives, ReceiverTypeOK
<1> QED BY <1>1, <1>2

\* Destroying ReceiveEvents keeps the others as they are.
LEMMA RecvErase ==
  ASSUME Types, SafetyInv, NEW t \in Target, NEW es \in SUBSET Ids, EraseReceives(t, es),
         UNCHANGED <<eventId, size, handled>>
  PROVE  RecvInv'
<1> SUFFICES ASSUME NEW u \in Target, NEW e \in Ids
    PROVE
      /\ packetData'[u][e] = ackedBits'[u][e]
      /\ e \notin receiveList'[u] => ackedBits'[u][e] = {}
      /\ e \in receiveList'[u] => /\ e < eventId
                                  /\ total'[u][e] = PacketCount(size[e])
                                  /\ ackedBits'[u][e] \subseteq Fragments(e)
                                  /\ Fragments(e) \subseteq ackedBits'[u][e]
                                        => e \in completed'[u]
      /\ e \in handled[u] => e < eventId
      /\ e \in completed'[u] => /\ e \in receiveList'[u]
                                /\ e \in handled[u]
                                /\ Fragments(e) \subseteq ackedBits'[u][e]
  BY DEF RecvInv, Fragments
<1>1. /\ packetData[u][e] = ackedBits[u][e]
      /\ e \notin receiveList[u] => ackedBits[u][e] = {}
      /\ e \in receiveList[u] => /\ e < eventId
                                 /\ total[u][e] = PacketCount(size[e])
                                 /\ ackedBits[u][e] \subseteq Fragments(e)
                                 /\ Fragments(e) \subseteq ackedBits[u][e]
                                       => e \in completed[u]
      /\ e \in handled[u] => e < eventId
      /\ e \in completed[u] => /\ e \in receiveList[u]
                               /\ e \in handled[u]
                               /\ Fragments(e) \subseteq ackedBits[u][e]
  BY DEF SafetyInv, RecvInv
<1>2. ReceiverTypeOK
  BY DEF Types
<1>3. CASE u = t /\ e \in es
  <2>1. /\ e \notin receiveList'[u] /\ e \notin completed'[u]
        /\ ackedBits'[u][e] = {} /\ packetData'[u][e] = {}
    BY <1>2, <1>3, EraseEffect
  <2> QED BY <1>1, <2>1
<1>4. CASE ~(u = t /\ e \in es)
  <2>1. /\ e \in receiveList'[u] <=> e \in receiveList[u]
        /\ e \in completed'[u] <=> e \in completed[u]
        /\ ackedBits'[u][e] = ackedBits[u][e]
        /\ packetData'[u][e] = packetData[u][e]
        /\ total'[u][e] = total[u][e]
    BY <1>2, <1>4, EraseEffect
  <2> QED BY <1>1, <2>1
<1> QED BY <1>3, <1>4

LEMMA SafePeerUnregisterTarget ==
  ASSUME Types, SafetyInv, NEW t \in Target, PeerUnregisterTarget(t)
  PROVE  SafetyInv'
<1>1. /\ UNCHANGED <<senderVars, handled, queued, net>>
      /\ sources' = sources \ {t} /\ sources \subseteq Target
  BY DEF PeerUnregisterTarget, Types, ReceiverTypeOK
<1>2. \A u \in Target : \A e \in Ids :
         IF u = t /\ e \in receiveList[t]
         THEN /\ e \notin receiveList'[u] /\ e \notin completed'[u]
              /\ ackedBits'[u][e] = {} /\ packetData'[u][e] = {}
         ELSE /\ e \in receiveList'[u] <=> e \in receiveList[u]
              /\ e \in completed'[u] <=> e \in completed[u]
              /\ ackedBits'[u][e] = ackedBits[u][e]
              /\ packetData'[u][e] = packetData[u][e]
              /\ total'[u][e] = total[u][e]
              /\ age'[u][e] = age[u][e]
  <2>1. receiveList[t] \in SUBSET Ids /\ ReceiverTypeOK
    BY DEF Types, ReceiverTypeOK
  <2> QED BY <2>1, EraseEffect DEF PeerUnregisterTarget
<1>3. SentInv' /\ NetInv'
  BY <1>1, SentFrame, NetFrame DEF SafetyInv, senderVars
<1>4. RecvInv'
  <2>1. receiveList[t] \in SUBSET Ids
    BY DEF Types, ReceiverTypeOK
  <2> QED BY <1>1, <2>1, RecvErase DEF PeerUnregisterTarget, senderVars
<1>5. AckInv'
  BY <1>1, <1>2 DEF SafetyInv, AckInv, senderVars
<1>6. RetainInv'
  <2>1. \A e \in Ids : \A u \in Target : Lingering(e, u)' = Lingering(e, u)
    BY <1>1 DEF Lingering, senderVars
  <2> QED BY <1>1, <1>2, <2>1 DEF SafetyInv, RetainInv
<1>7. OnceInv'
  BY <1>1 DEF SafetyInv, OnceInv
<1>8. NoSilentLoss'
  BY <1>1 DEF SafetyInv, NoSilentLoss, senderVars
<1> QED BY <1>3, <1>4, <1>5, <1>6, <1>7, <1>8 DEF SafetyInv

LEMMA SafePeerNetworkTick ==
  ASSUME Types, SafetyInv, NEW t \in Target, PeerNetworkTick(t)
  PROVE  SafetyInv'
<1>1. /\ UNCHANGED <<senderVars, sources, handled, queued, net>>
      /\ sources \subseteq Target
  BY DEF PeerNetworkTick, Types, ReceiverTypeOK
<1>2. \A e \in Garbage(t) : /\ e \in Ids /\ e \in completed[t]
                            /\ age[t][e] \in Nat /\ age[t][e] > MaxSilence
  BY ConstantsAssumption DEF Garbage, Types, ReceiverTypeOK
<1>3. \A u \in Target : \A e \in Ids :
         IF u = t /\ e \in Garbage(t)
         THEN /\ e \notin receiveList'[u] /\ e \notin completed'[u]
              /\ ackedBits'[u][e] = {} /\ packetData'[u][e] = {}
         ELSE /\ e \in receiveList'[u] <=> e \in receiveList[u]
              /\ e \in completed'[u] <=> e \in completed[u]
              /\ ackedBits'[u][e] = ackedBits[u][e]
              /\ packetData'[u][e] = packetData[u][e]
              /\ total'[u][e] = total[u][e]
              /\ age'[u][e] = age[u][e]
  <2>1. Garbage(t) \in SUBSET Ids /\ ReceiverTypeOK
    BY <1>2 DEF Types
  <2> QED BY <2>1, EraseEffect DEF PeerNetworkTick
<1>4. SentInv' /\ NetInv'
  BY <1>1, SentFrame, NetFrame DEF SafetyInv, senderVars
<1>5. RecvInv'
  <2>1. Garbage(t) \in SUBSET Ids
    BY <1>2
  <2> QED BY <1>1, <2>1, RecvErase DEF PeerNetworkTick, senderVars
<1>6. \A e \in Garbage(t) : e \in handled[t]
  BY <1>2 DEF SafetyInv, RecvInv
<1>7. AckInv'
  BY <1>1, <1>3, <1>6 DEF SafetyInv, AckInv, senderVars
<1>8. RetainInv'
  <2>1. \A e \in Ids : \A u \in Target : Lingering(e, u)' = Lingering(e, u)
    BY <1>1 DEF Lingering, senderVars
  <2>2. t \in sources => \A e \in Garbage(t) : ~Lingering(e, t)
    BY <1>2, ConstantsAssumption DEF SafetyInv, RetainInv
  <2> QED BY <1>1, <1>3, <2>1, <2>2 DEF SafetyInv, RetainInv
<1>9. OnceInv'
  BY <1>1 DEF SafetyInv, OnceInv
<1>10. NoSilentLoss'
  BY <1>1 DEF SafetyInv, NoSilentLoss, senderVars
<1> QED BY <1>4, <1>5, <1>7, <1>8, <1>9, <1>10 DEF SafetyInv

LEMMA SafeElapse ==
  ASSUME Types, SafetyInv, Elapse
  PROVE  SafetyInv'
<1>1. /\ UNCHANGED <<senderVars, sources, receiveList, total, ackedBits,
                     packetData, completed, handled, queued, net>>
      /\ sources \subseteq Target
  BY DEF Elapse, Types, ReceiverTypeOK
<1>2. SentInv' /\ NetInv'
  BY <1>1, SentFrame, NetFrame DEF SafetyInv, senderVars
<1>3. RecvInv' /\ AckInv' /\ OnceInv' /\ NoSilentLoss'
  BY <1>1 DEF SafetyInv, RecvInv, AckInv, OnceInv, NoSilentLoss, senderVars, Fragments
<1>4. RetainInv'
  <2>1. \A e \in Ids : \A u \in Target : Lingering(e, u)' = Lingering(e, u)
    BY <1>1 DEF Lingering, senderVars
  <2>2. ASSUME NEW u \in sources, NEW e \in Ids, e \in completed[u], Lingering(e, u)
        PROVE  age'[u][e] <= MaxSilence
    <3>1. age[u][e] < MaxSilence /\ age[u][e] \in Nat
      BY <2>2 DEF Elapse, Types, ReceiverTypeOK
    <3>2. age'[u][e] \in {age[u][e], age[u][e] + 1}
      BY <1>1, <2>2 DEF Elapse
    <3> QED BY <3>1, <3>2, ConstantsAssumption
  <2> QED BY <1>1, <2>1, <2>2 DEF SafetyInv, RetainInv
<1> QED BY <1>2, <1>3, <1>4 DEF SafetyInv


LEMMA SafeHandlePacketKnown ==
  ASSUME Types, SafetyInv, NEW p \in net, HandlePacketKnown(p)
  PROVE  SafetyInv'
<1>1. /\ p.event \in Ids /\ p.target \in Target
      /\ Ack(p).event = p.event /\ Ack(p).target = p.target
      /\ Ack(p).idx = p.idx /\ Ack(p).total = p.total /\ Ack(p).ack
  BY PacketFields DEF Types, Ack
<1>2. /\ UNCHANGED <<senderVars, sources, receiveList, total, ackedBits,
                     packetData, completed, handled, queued>>
      /\ net' = (net \ {p}) \cup {Ack(p)} /\ ~p.ack
      /\ sources \subseteq Target
  BY DEF HandlePacketKnown, Types, ReceiverTypeOK
<1>3. SentInv'
  BY <1>2, SentFrame DEF SafetyInv, senderVars
<1>4. NetInv'
  BY <1>1, <1>2 DEF SafetyInv, NetInv, senderVars, Fragments
<1>5. RecvInv' /\ OnceInv' /\ NoSilentLoss'
  BY <1>2 DEF SafetyInv, RecvInv, OnceInv, NoSilentLoss, senderVars, Fragments
<1>6. p.event \in handled[p.target] \/ p.idx \in ackedBits[p.target][p.event]
  BY <1>1 DEF HandlePacketKnown, AlreadyAcked, SafetyInv, RecvInv
<1>7. AckInv'
  BY <1>1, <1>2, <1>6 DEF SafetyInv, AckInv, senderVars
<1>8. RetainInv'
  <2>1. \A e \in Ids : \A u \in Target : Lingering(e, u)' => Lingering(e, u)
    BY <1>1, <1>2 DEF Lingering, senderVars
  <2>2. \A u \in Target : \A e \in Ids : age'[u][e] = age[u][e] \/ age'[u][e] = 0
    BY <1>1 DEF HandlePacketKnown, Types, ReceiverTypeOK
  <2> QED BY <1>2, <2>1, <2>2, ConstantsAssumption DEF SafetyInv, RetainInv
<1> QED BY <1>3, <1>4, <1>5, <1>7, <1>8 DEF SafetyInv

LEMMA SafeHandlePacketNew ==
  ASSUME Types, SafetyInv, NEW p \in net, NEW limited \in BOOLEAN,
         HandlePacketNew(p, limited)
  PROVE  SafetyInv'
<1> DEFINE t == p.target
           e == p.event
<1>1. /\ e \in Ids /\ t \in Target /\ p.idx \in Nat
      /\ Ack(p).event = e /\ Ack(p).target = t
      /\ Ack(p).idx = p.idx /\ Ack(p).total = p.total /\ Ack(p).ack
  BY PacketFields DEF Types, Ack
<1>2. /\ UNCHANGED <<senderVars, sources>>
      /\ net' = (net \ {p}) \cup {Ack(p)} /\ ~p.ack
      /\ sources \subseteq Target
      /\ ~AlreadyAcked(p)
  BY DEF HandlePacketNew, Types, ReceiverTypeOK
<1>3. /\ e < eventId /\ t \in audience[e] /\ p.idx \in Fragments(e)
      /\ p.total = PacketCount(size[e])
  BY DEF SafetyInv, NetInv
<1>4. /\ PacketCount(size[e]) \in Nat \ {0}
      /\ NotedTotal(p) = PacketCount(size[e])
      /\ p.idx < NotedTotal(p)
  <2>1. PacketCount(size[e]) \in Nat \ {0}
    BY <1>1, <1>3, PacketCountPositive DEF SafetyInv, SentInv
  <2>2. NotedTotal(p) = PacketCount(size[e])
    BY <1>1, <1>3 DEF NotedTotal, SafetyInv, RecvInv
  <2> QED BY <1>3, <2>1, <2>2 DEF Fragments
<1>5. /\ NotedBits(p) = ackedBits[t][e] \cup {p.idx}
      /\ NotedData(p) = packetData[t][e] \cup {p.idx}
      /\ Completes(p) <=> Fragments(e) \subseteq NotedBits(p)
  BY <1>4 DEF NotedBits, NotedData, Completes, HasAll, Fragments
<1>6. \A u \in Target : \A f \in Ids :
         IF u = t /\ f = e
         THEN /\ f \in receiveList'[u]
              /\ total'[u][f] = PacketCount(size[e])
              /\ ackedBits'[u][f] = NotedBits(p)
              /\ packetData'[u][f] = NotedData(p)
              /\ age'[u][f] = 0
         ELSE /\ f \in receiveList'[u] <=> f \in receiveList[u]
              /\ total'[u][f] = total[u][f]
              /\ ackedBits'[u][f] = ackedBits[u][f]
              /\ packetData'[u][f] = packetData[u][f]
              /\ age'[u][f] = age[u][f]
  <2>1. /\ receiveList' = [receiveList EXCEPT ![t] = @ \cup {e}]
        /\ total' = [total EXCEPT ![t][e] = NotedTotal(p)]
        /\ ackedBits' = [ackedBits EXCEPT ![t][e] = NotedBits(p)]
        /\ packetData' = [packetData EXCEPT ![t][e] = NotedData(p)]
        /\ age' = [age EXCEPT ![t][e] = 0]
    BY DEF HandlePacketNew
  <2>2. /\ receiveList \in [Target -> SUBSET Ids]
        /\ total \in [Target -> [Ids -> Nat]]
        /\ ackedBits \in [Target -> [Ids -> SUBSET Nat]]
        /\ packetData \in [Target -> [Ids -> SUBSET Nat]]
        /\ age \in [Target -> [Ids -> Nat]]
    BY DEF Types, ReceiverTypeOK
  <2> HIDE DEF t, e
  <2> QED BY <1>1, <1>4, <2>1, <2>2
<1>7. \A u \in Target : \A f \in Ids :
         /\ f \in completed'[u] <=> f \in completed[u] \/ (u = t /\ f = e /\ Completes(p))
         /\ f \in handled'[u] <=> f \in handled[u] \/ (u = t /\ f = e /\ Completes(p))
  <2>1. IF Completes(p)
        THEN /\ completed' = [completed EXCEPT ![t] = @ \cup {e}]
             /\ handled' = [handled EXCEPT ![t] = @ \cup {e}]
        ELSE UNCHANGED <<completed, handled>>
    BY DEF HandlePacketNew
  <2>2. completed \in [Target -> SUBSET Ids] /\ handled \in [Target -> SUBSET Ids]
    BY DEF Types, ReceiverTypeOK
  <2> HIDE DEF t, e
  <2> QED BY <1>1, <2>1, <2>2
<1>8. SentInv'
  BY <1>2, SentFrame DEF SafetyInv, senderVars
<1>9. NetInv'
  BY <1>1, <1>2 DEF SafetyInv, NetInv, senderVars, Fragments
<1>10. \A u \in Target : \A f \in Ids : Fragments(f)' = Fragments(f)
  BY <1>2 DEF Fragments, senderVars
<1>11. RecvInv'
  <2> SUFFICES ASSUME NEW u \in Target, NEW f \in Ids
      PROVE
        /\ packetData'[u][f] = ackedBits'[u][f]
        /\ f \notin receiveList'[u] => ackedBits'[u][f] = {}
        /\ f \in receiveList'[u] => /\ f < eventId
                                    /\ total'[u][f] = PacketCount(size[f])
                                    /\ ackedBits'[u][f] \subseteq Fragments(f)
                                    /\ Fragments(f) \subseteq ackedBits'[u][f]
                                          => f \in completed'[u]
        /\ f \in handled'[u] => f < eventId
        /\ f \in completed'[u] => /\ f \in receiveList'[u]
                                  /\ f \in handled'[u]
                                  /\ Fragments(f) \subseteq ackedBits'[u][f]
    BY <1>2 DEF RecvInv, Fragments, senderVars
  <2>1. /\ packetData[u][f] = ackedBits[u][f]
        /\ f \notin receiveList[u] => ackedBits[u][f] = {}
        /\ f \in receiveList[u] => /\ f < eventId
                                   /\ total[u][f] = PacketCount(size[f])
                                   /\ ackedBits[u][f] \subseteq Fragments(f)
                                   /\ Fragments(f) \subseteq ackedBits[u][f]
                                         => f \in completed[u]
        /\ f \in handled[u] => f < eventId
        /\ f \in completed[u] => /\ f \in receiveList[u]
                                 /\ f \in handled[u]
                                 /\ Fragments(f) \subseteq ackedBits[u][f]
    BY DEF SafetyInv, RecvInv
  <2>2. CASE u = t /\ f = e
    <3>1. /\ f \in receiveList'[u]
          /\ total'[u][f] = PacketCount(size[f])
          /\ ackedBits'[u][f] = ackedBits[u][f] \cup {p.idx}
          /\ packetData'[u][f] = packetData[u][f] \cup {p.idx}
      BY <1>5, <1>6, <2>2
    <3>2. ackedBits[u][f] \subseteq Fragments(f)
      BY <2>1
    <3>3. f \in completed'[u] <=> f \in completed[u]
                                    \/ Fragments(f) \subseteq ackedBits'[u][f]
      BY <1>5, <1>6, <1>7, <2>2
    <3>4. f \in handled'[u] <=> f \in handled[u]
                                  \/ Fragments(f) \subseteq ackedBits'[u][f]
      BY <1>5, <1>6, <1>7, <2>2
    <3>5. f < eventId /\ p.idx \in Fragments(f)
      BY <1>3, <2>2
    <3> HIDE DEF t, e
    <3> QED BY <2>1, <3>1, <3>2, <3>3, <3>4, <3>5
  <2>3. CASE ~(u = t /\ f = e)
    BY <1>6, <1>7, <2>1, <2>3
  <2> QED BY <2>2, <2>3
<1>12. AckInv'
  <2> SUFFICES ASSUME NEW u \in sources, NEW f \in Ids
      PROVE  /\ \A i \in ackBits[f][u] : f \in handled'[u] \/ i \in ackedBits'[u][f]
             /\ \A q \in net' : q.ack /\ q.target = u /\ q.event = f
                                  => f \in handled'[u] \/ q.idx \in ackedBits'[u][f]
    BY <1>2 DEF AckInv, senderVars
  <2>1. u \in Target
    BY <1>2
  <2>2. /\ \A i \in ackBits[f][u] : f \in handled[u] \/ i \in ackedBits[u][f]
        /\ \A q \in net : q.ack /\ q.target = u /\ q.event = f
                            => f \in handled[u] \/ q.idx \in ackedBits[u][f]
    BY DEF SafetyInv, AckInv
  <2>3. ackedBits[u][f] \subseteq ackedBits'[u][f]
    BY <1>5, <1>6, <2>1
  <2>4. f \in handled[u] => f \in handled'[u]
    BY <1>7, <2>1
  <2>5. p.idx \in ackedBits'[t][e]
    BY <1>1, <1>5, <1>6
  <2> HIDE DEF t, e
  <2> QED BY <1>1, <1>2, <2>2, <2>3, <2>4, <2>5
<1>13. \A f \in Ids : \A u \in Target : Lingering(f, u)' => Lingering(f, u)
  BY <1>1, <1>2 DEF Lingering, senderVars
<1>14. RetainInv'
  <2> SUFFICES ASSUME NEW u \in sources, NEW f \in Ids
      PROVE  /\ f \in handled'[u] => f \in completed'[u] \/ ~Lingering(f, u)'
             /\ f \in completed'[u] /\ Lingering(f, u)' => age'[u][f] <= MaxSilence
    BY <1>2 DEF RetainInv
  <2>1. u \in Target
    BY <1>2
  <2>2. /\ f \in handled[u] => f \in completed[u] \/ ~Lingering(f, u)
        /\ f \in completed[u] /\ Lingering(f, u) => age[u][f] <= MaxSilence
    BY DEF SafetyInv, RetainInv
  <2>3. age'[u][f] = age[u][f] \/ (u = t /\ f = e /\ age'[u][f] = 0)
    BY <1>6, <2>1
  <2>4. /\ f \in completed'[u] <=> f \in completed[u] \/ (u = t /\ f = e /\ Completes(p))
        /\ f \in handled'[u] <=> f \in handled[u] \/ (u = t /\ f = e /\ Completes(p))
    BY <1>7, <2>1
  <2>5. Lingering(f, u)' => Lingering(f, u)
    BY <1>13, <2>1
  <2>6. f \in handled'[u] => f \in completed'[u] \/ ~Lingering(f, u)'
    BY <2>2, <2>4, <2>5
  <2>7. CASE u = t /\ f = e
    <3>1. age'[u][f] = 0
      BY <1>6, <2>1, <2>7
    <3>2. age'[u][f] <= MaxSilence
      BY <3>1, ConstantsAssumption
    <3> QED BY <2>6, <3>2
  <2>8. CASE ~(u = t /\ f = e)
    BY <2>2, <2>3, <2>4, <2>5, <2>6, <2>8
  <2> QED BY <2>7, <2>8
<1>15. t \in sources => e \notin handled[t]
  <2>1. Lingering(e, t)
    BY <1>2 DEF Lingering
  <2>2. e \in completed[t] => FALSE
    BY <1>1, <1>2 DEF AlreadyAcked, SafetyInv, RecvInv
  <2> QED BY <1>1, <2>1, <2>2 DEF SafetyInv, RetainInv
<1>16. OnceInv'
  <2> SUFFICES ASSUME NEW u \in sources, NEW f \in Ids
               PROVE  queued'[u][f] <= (IF f \in handled'[u] THEN 1 ELSE 0)
    BY <1>2 DEF OnceInv
  <2>1. u \in Target /\ queued \in [Target -> [Ids -> Nat]] /\ queued[u][f] \in Nat
    BY <1>2 DEF Types, ReceiverTypeOK
  <2>2. queued[u][f] <= (IF f \in handled[u] THEN 1 ELSE 0)
    BY DEF SafetyInv, OnceInv
  <2>3. CASE ~(u = t /\ f = e /\ Completes(p))
    <3>1. queued'[u][f] = queued[u][f]
      <4>1. \/ queued' = queued
            \/ Completes(p) /\ queued' = [queued EXCEPT ![t][e] = IF limited THEN @ ELSE @ + 1]
        BY DEF HandlePacketNew
      <4> HIDE DEF t, e
      <4> QED BY <1>1, <2>1, <2>3, <4>1
    <3> QED BY <1>7, <2>1, <2>2, <2>3, <3>1
  <2>4. CASE u = t /\ f = e /\ Completes(p)
    <3>1. queued'[t][e] \in {queued[t][e], queued[t][e] + 1}
      <4>1. queued' = [queued EXCEPT ![t][e] = IF limited THEN @ ELSE @ + 1]
        BY <2>4 DEF HandlePacketNew
      <4> HIDE DEF t, e
      <4> QED BY <1>1, <2>1, <2>4, <4>1
    <3>2. f \notin handled[u] /\ f \in handled'[u]
      BY <1>1, <1>7, <1>15, <2>4
    <3>3. queued[u][f] <= 0
      BY <2>2, <3>2
    <3> HIDE DEF t, e
    <3> QED BY <2>1, <2>4, <3>1, <3>2, <3>3
  <2> QED BY <2>3, <2>4
<1>17. NoSilentLoss'
  <2>1. UNCHANGED <<eventId, audience, sends, sendTargets, targets, sources>>
    BY <1>2 DEF senderVars
  <2>2. \A u \in Target : \A f \in Ids : f \in handled[u] => f \in handled'[u]
    BY <1>7
  <2>3. \A f \in Ids : audience[f] \subseteq Target
    BY DEF Types, SenderInv, SenderTypeOK
  <2> QED BY <2>1, <2>2, <2>3 DEF SafetyInv, NoSilentLoss
<1> QED BY <1>8, <1>9, <1>11, <1>12, <1>14, <1>16, <1>17 DEF SafetyInv


LEMMA SafetyStep ==
  ASSUME NoOverflow, Types, SafetyInv, [Next]_vars
  PROVE  SafetyInv'
<1>1. ASSUME UNCHANGED vars PROVE SafetyInv'
  <2>1. SentInv' /\ NetInv' /\ RecvInv' /\ AckInv' /\ OnceInv'
    BY <1>1, SentFrame, NetFrame, RecvFrame, AckFrame, OnceFrame
    DEF vars, receiverVars, SafetyInv
  <2>2. RetainInv'
    BY <1>1, LingeringShrinks, RetainFrame
    DEF vars, receiverVars, SafetyInv, Types, ReceiverTypeOK
  <2>3. NoSilentLoss'
    BY <1>1 DEF vars, SafetyInv, NoSilentLoss
  <2> QED BY <2>1, <2>2, <2>3 DEF SafetyInv
<1>2. CASE SendNext
  BY <1>2, SafeRegisterTarget, SafeUnregisterTarget, SafeTriggerEventSnapshot,
     SafeTriggerEventInsert, SafeNetworkTickDone, SafeNetworkTickRestart,
     SafeNetworkTickBurst, SafeNetworkTickIdle, SafeDelayOver, SafeHandlePacketAck
  DEF SendNext
<1>3. CASE ReceiveNext
  BY <1>3, SafePeerUnregisterTarget, SafeHandlePacketKnown, SafeHandlePacketNew,
     SafePeerNetworkTick
  DEF ReceiveNext
<1>4. CASE NetNext
  BY <1>4, SafeLose, SafeElapse DEF NetNext
<1> QED BY <1>1, <1>2, <1>3, <1>4 DEF Next

\* The invariant holds in every behaviour.
THEOREM SafetyInvariant == NoOverflow => (Spec => [](Types /\ SafetyInv))
<1> SUFFICES ASSUME NoOverflow PROVE Spec => [](Types /\ SafetyInv)
  OBVIOUS
<1>1. Init => Types /\ SafetyInv
  BY TypeInit, SafetyInit DEF Types
<1>2. Types /\ SafetyInv /\ [Next]_vars => (Types /\ SafetyInv)'
  BY TypeStep, SafetyStep DEF Types
<1> QED BY <1>1, <1>2, PTL DEF Spec

\* NetworkTick never gives up on a registered target that has not reassembled
\* the event.
THEOREM TransferComplete == NoOverflow => (Spec => []NoSilentLoss)
<1>1. Types /\ SafetyInv => NoSilentLoss
  BY DEF SafetyInv
<1> QED BY <1>1, SafetyInvariant, PTL

\* HandleReceivedPacket sees every fragment and nothing else.
THEOREM TransferIntact == NoOverflow => (Spec => []DeliveredIntact)
<1>1. Types /\ SafetyInv => DeliveredIntact
  <2> SUFFICES ASSUME Types, SafetyInv, NEW t \in Target, NEW e \in completed[t]
               PROVE  /\ packetData[t][e] = Fragments(e)
                      /\ packetData[t][e] \subseteq 0 .. (total[t][e] - 1)
    BY DEF DeliveredIntact
  <2>1. e \in Ids
    BY DEF Types, ReceiverTypeOK
  <2>2. /\ packetData[t][e] = ackedBits[t][e]
        /\ ackedBits[t][e] \subseteq Fragments(e)
        /\ Fragments(e) \subseteq ackedBits[t][e]
        /\ total[t][e] = PacketCount(size[e])
    BY <2>1 DEF SafetyInv, RecvInv
  <2> QED BY <2>2 DEF Fragments
<1> QED BY <1>1, SafetyInvariant, PTL

\* No endpoint queues an event twice while it knows the sender.
THEOREM TransferOnce == NoOverflow => (Spec => []AtMostOnce)
<1>1. Types /\ SafetyInv => AtMostOnce
  <2> SUFFICES ASSUME Types, SafetyInv, NEW t \in sources, NEW e \in Ids
               PROVE  queued[t][e] <= 1
    BY DEF AtMostOnce
  <2>1. t \in Target /\ queued[t][e] \in Nat
    BY DEF Types, ReceiverTypeOK
  <2>2. queued[t][e] # 0 => queued[t][e] = 1
    BY <2>1 DEF SafetyInv, OnceInv
  <2> QED BY <2>1, <2>2
<1> QED BY <1>1, SafetyInvariant, PTL

---------------------------------------------------------------------------
(* Refinement: every step of the transfer is a step of LatentEvents or     *)
(* leaves the abstract variables alone.                                    *)

LEMMA AbstractInit == Init => Abstract!Init
  BY DEF Init, Abstract!Init

\* A data packet that is not acknowledged already is of an event its target
\* has not queued, as long as the target knows the sender.
LEMMA NewIsUnqueued ==
  ASSUME Types, SafetyInv, NEW p \in net, ~p.ack, ~AlreadyAcked(p),
         p.target \in sources
  PROVE  queued[p.target][p.event] = 0
<1>1. p.target \in Target /\ p.event \in Ids
  BY DEF Types, Packets
<1>2. Lingering(p.event, p.target)
  BY DEF Lingering
<1>3. p.event \notin completed[p.target]
  BY <1>1 DEF AlreadyAcked, SafetyInv, RecvInv
<1>4. p.event \notin handled[p.target]
  BY <1>1, <1>2, <1>3 DEF SafetyInv, RetainInv
<1>5. queued[p.target][p.event] \in Nat
  BY <1>1 DEF Types, ReceiverTypeOK
<1> QED BY <1>1, <1>4, <1>5 DEF SafetyInv, OnceInv

LEMMA AbstractQueue ==
  ASSUME Types, SafetyInv, NEW p \in net, NEW limited \in BOOLEAN,
         HandlePacketNew(p, limited)
  PROVE  [Abstract!Next]_(Abstract!vars)
<1>1. p.target \in Target /\ p.event \in Ids
  BY DEF Types, Packets
<1>2. /\ eventId' = eventId /\ audience' = audience /\ sources' = sources
      /\ ~p.ack /\ ~AlreadyAcked(p)
  BY DEF HandlePacketNew, senderVars
<1>3. CASE queued' = queued
  BY <1>2, <1>3 DEF Abstract!vars
<1>4. CASE queued' = [queued EXCEPT ![p.target][p.event] = @ + 1]
  <2>1. p.event < eventId /\ p.target \in audience[p.event]
    BY DEF SafetyInv, NetInv
  <2>2. p.target \in sources => queued[p.target][p.event] = 0
    BY <1>2, NewIsUnqueued
  <2>3. Abstract!Queue(p.event, p.target)
    BY <1>2, <1>4, <2>1, <2>2 DEF Abstract!Queue
  <2> QED BY <1>1, <2>3 DEF Abstract!Next
<1>5. queued' = queued \/ queued' = [queued EXCEPT ![p.target][p.event] = @ + 1]
  <2>1. queued \in [Target -> [Ids -> Nat]]
    BY DEF Types, ReceiverTypeOK
  <2>2. queued' = [queued EXCEPT ![p.target][p.event] =
                     IF limited THEN @ ELSE @ + 1] \/ queued' = queued
    BY DEF HandlePacketNew
  <2>3. [queued EXCEPT ![p.target][p.event] = @] = queued
    BY <1>1, <2>1
  <2> QED BY <2>2, <2>3
<1> QED BY <1>3, <1>4, <1>5

LEMMA AbstractStep ==
  ASSUME Types, SafetyInv, [Next]_vars
  PROVE  [Abstract!Next]_(Abstract!vars)
<1>1. ASSUME UNCHANGED <<eventId, audience, sources, queued>>
      PROVE  [Abstract!Next]_(Abstract!vars)
  BY <1>1 DEF Abstract!vars
<1>2. CASE UNCHANGED vars
  BY <1>1, <1>2 DEF vars
<1>3. ASSUME TriggerEventInsert PROVE [Abstract!Next]_(Abstract!vars)
  <2>1. /\ eventId' = eventId + 1
        /\ audience' = [audience EXCEPT ![eventId] = trigger.targets]
        /\ UNCHANGED <<sources, queued>>
        /\ trigger.busy
    BY <1>3 DEF TriggerEventInsert, receiverVars
  <2>2. trigger.targets \in SUBSET Target /\ eventId \in Ids
    BY <2>1, ConstantsAssumption
    DEF Types, SenderInv, SenderTypeOK, OutgoingInv, Ids
  <2>3. Abstract!Trigger(trigger.targets)
    BY <2>1, <2>2 DEF Abstract!Trigger
  <2> QED BY <2>2, <2>3 DEF Abstract!Next
<1>4. CASE SendNext
  <2>1. ASSUME NEW t \in Target, RegisterTarget(t) \/ UnregisterTarget(t)
        PROVE  UNCHANGED <<eventId, audience, sources, queued>>
    BY <2>1 DEF RegisterTarget, UnregisterTarget, receiverVars
  <2>2. ASSUME NEW dst, NEW s, TriggerEventSnapshot(dst, s)
        PROVE  UNCHANGED <<eventId, audience, sources, queued>>
    BY <2>2 DEF TriggerEventSnapshot, receiverVars
  <2>3. ASSUME NEW e, NEW t, NetworkTickDone(e, t)
        PROVE  UNCHANGED <<eventId, audience, sources, queued>>
    BY <2>3 DEF NetworkTickDone, receiverVars
  <2>4. ASSUME NEW e, NEW t, NetworkTickRestart(e, t)
        PROVE  UNCHANGED <<eventId, audience, sources, queued>>
    BY <2>4 DEF NetworkTickRestart, receiverVars
  <2>5. ASSUME NEW e, NEW t, NEW p, NetworkTickBurst(e, t, p)
        PROVE  UNCHANGED <<eventId, audience, sources, queued>>
    BY <2>5 DEF NetworkTickBurst, receiverVars
  <2>6. ASSUME NetworkTickIdle
        PROVE  UNCHANGED <<eventId, audience, sources, queued>>
    BY <2>6 DEF NetworkTickIdle, receiverVars
  <2>7. ASSUME NEW e, NEW t, DelayOver(e, t)
        PROVE  UNCHANGED <<eventId, audience, sources, queued>>
    BY <2>7 DEF DelayOver, receiverVars
  <2>8. ASSUME NEW p, HandlePacketAck(p)
        PROVE  UNCHANGED <<eventId, audience, sources, queued>>
    BY <2>8 DEF HandlePacketAck, receiverVars
  <2> QED
    BY <1>1, <1>3, <1>4, <2>1, <2>2, <2>3, <2>4, <2>5, <2>6, <2>7, <2>8
    DEF SendNext
<1>5. ASSUME NEW t \in Target, PeerUnregisterTarget(t)
      PROVE  [Abstract!Next]_(Abstract!vars)
  <2>1. Abstract!Drop(t)
    BY <1>5 DEF PeerUnregisterTarget, senderVars, Abstract!Drop
  <2> QED BY <2>1 DEF Abstract!Next
<1>6. CASE ReceiveNext
  <2>1. CASE \E p \in net : HandlePacketKnown(p)
    BY <1>1, <2>1 DEF HandlePacketKnown, senderVars
  <2>2. CASE \E t \in Target : PeerNetworkTick(t)
    BY <1>1, <2>2 DEF PeerNetworkTick, senderVars
  <2> QED BY <1>5, <1>6, <2>1, <2>2, AbstractQueue DEF ReceiveNext
<1>7. CASE NetNext
  BY <1>1, <1>7 DEF NetNext, Lose, Elapse, senderVars, receiverVars
<1> QED BY <1>2, <1>4, <1>6, <1>7 DEF Next

\* The transfer implements LatentEvents: HandleReceivedPacket queues an event
\* only at an endpoint TriggerEvent addressed, after it was triggered, and
\* once while that endpoint knows the sender.
THEOREM Refinement == NoOverflow => (Spec => ImplementsLatentEvents)
<1>1. Types /\ SafetyInv /\ [Next]_vars => [Abstract!Next]_(Abstract!vars)
  BY AbstractStep
<1> QED
  BY <1>1, AbstractInit, SafetyInvariant, PTL
  DEF Spec, ImplementsLatentEvents, Abstract!Spec

===========================================================================
