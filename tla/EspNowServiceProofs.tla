------------------------- MODULE EspNowServiceProofs -------------------------
(***************************************************************************)
(* The ring and the peer table, for every size of both, every number of    *)
(* stations, every mix of received data and every wrap of the clock.       *)
(***************************************************************************)
EXTENDS EspNowService, WellFoundedInduction, TLAPS

\* The smallest element of a set of numbers.
LEMMA HasMinimum ==
    ASSUME NEW S, S \subseteq Nat, S # {}
    PROVE  \E m \in S : \A n \in S : m <= n
<1> DEFINE R == OpToRel(<, Nat)
<1>1. \A a, b \in Nat : a < b => <<a, b>> \in R
    BY DEF OpToRel
<1>2. IsWellFoundedOn(R, Nat)
    BY NatLessThanWellFounded
<1> HIDE DEF R
<1>3. PICK m \in S : \A n \in S : ~(<<n, m>> \in R)
    BY <1>2, WFMin
<1>4. ASSUME NEW n \in S PROVE m <= n
    <2>1. m \in Nat /\ n \in Nat /\ ~(n < m)
        BY <1>1, <1>3
    <2> QED BY <2>1, SMT
<1> QED BY <1>4

-----------------------------------------------------------------------------
(* Which slot a new peer gets.                                             *)

Stamp(i) == millis(peers[i].lastUse)

\* oldest is a slot, and none has a smaller stamp.
LEMMA OldestIsMinimal ==
    ASSUME TypeOK
    PROVE  oldest \in Slots /\ \A j \in Slots : Stamp(oldest) <= Stamp(j)
<1>1. Slots \subseteq Nat /\ Slots # {}
    BY ServiceAssumption DEF Slots
<1>2. \A i \in Slots : Stamp(i) \in Nat
    <2> SUFFICES ASSUME NEW i \in Slots PROVE Stamp(i) \in Nat
        OBVIOUS
    <2>1. peers[i].lastUse \in Nat
        BY ServiceAssumption DEF TypeOK
    <2> QED BY <2>1, ServiceAssumption, SMT DEF Stamp, millis
<1>3. PICK m \in {Stamp(i) : i \in Slots} : \A n \in {Stamp(i) : i \in Slots} : m <= n
    <2> DEFINE S == {Stamp(i) : i \in Slots}
    <2>1. S \subseteq Nat /\ S # {}
        BY <1>1, <1>2
    <2> HIDE DEF S
    <2>2. \E m \in S : \A n \in S : m <= n
        BY <2>1, HasMinimum
    <2> QED BY <2>2 DEF S
<1>4. PICK i \in {k \in Slots : Stamp(k) = m} : \A j \in {k \in Slots : Stamp(k) = m} : i <= j
    <2> DEFINE S == {k \in Slots : Stamp(k) = m}
    <2>1. S \subseteq Nat /\ S # {}
        BY <1>1, <1>3
    <2> HIDE DEF S
    <2>2. \E k \in S : \A j \in S : k <= j
        BY <2>1, HasMinimum
    <2> QED BY <2>2 DEF S
<1>5. \A j \in Slots : Stamp(i) < Stamp(j) \/ (Stamp(i) = Stamp(j) /\ i <= j)
    BY <1>2, <1>3, <1>4
<1> DEFINE First(k) == \A j \in Slots : Stamp(k) < Stamp(j) \/ (Stamp(k) = Stamp(j) /\ k <= j)
<1>6. \E k \in Slots : First(k)
    BY <1>4, <1>5
<1>7. oldest \in Slots /\ First(oldest)
    <2>1. oldest = CHOOSE k \in Slots : First(k)
        BY DEF oldest, Stamp
    <2> HIDE DEF First
    <2> QED BY <1>6, <2>1
<1>8. Stamp(oldest) \in Nat
    BY <1>2, <1>7
<1> QED BY <1>2, <1>7, <1>8

\* The slot of a new peer is free, or the oldest.
LEMMA SlotIsRight ==
    ASSUME TypeOK
    PROVE  /\ Slot \in Slots
           /\ IF TableFull THEN Slot = oldest /\ Evicted = {peers[Slot].mac}
                           ELSE ~IsUsed(Slot) /\ Evicted = {}
<1>1. CASE TableFull
    BY <1>1, OldestIsMinimal DEF Slot, Evicted
<1>2. CASE ~TableFull
    <2> DEFINE S == {i \in Slots : ~IsUsed(i)}
    <2>1. S \subseteq Nat /\ S # {}
        BY <1>2 DEF TableFull, Slots
    <2> HIDE DEF S
    <2>2. \E i \in S : \A j \in S : i <= j
        BY <2>1, HasMinimum
    <2>3. \E i \in Slots : ~IsUsed(i) /\ \A j \in Slots : ~IsUsed(j) => i <= j
        BY <2>2 DEF S
    <2>4. Slot \in Slots /\ ~IsUsed(Slot)
        BY <1>2, <2>3 DEF Slot
    <2> QED BY <1>2, <2>4 DEF Evicted
<1> QED BY <1>1, <1>2

-----------------------------------------------------------------------------
(* Everything stays well typed.                                            *)

LEMMA AfterIsIndex ==
    ASSUME NEW i \in Indices
    PROVE  after(i) \in Indices
BY ServiceAssumption, SMT DEF Indices, after

\* Indices stay within the ring, and every slot holds a peer.
THEOREM Typing == Spec => []TypeOK
<1>1. Init => TypeOK
    BY ServiceAssumption DEF Init, TypeOK, Indices, Slots, Empty, NoPacket
<1>2. TypeOK /\ [Next]_vars => TypeOK'
    <2> SUFFICES ASSUME TypeOK, [Next]_vars
                 PROVE  TypeOK'
        OBVIOUS
    <2>1. ASSUME NEW mac \in Senders, NEW data \in Received, onRecv(mac, data)
          PROVE  TypeOK'
        BY <2>1, AfterIsIndex DEF onRecv, TypeOK
    <2>2. CASE receive
        BY <2>2, AfterIsIndex DEF receive, TypeOK
    <2>3. ASSUME NEW mac \in Macs \cup {BCAST}, send(mac)
          PROVE  TypeOK'
        <3>1. UNCHANGED <<rx, now>> /\ ensurePeer(mac)
            BY <2>3 DEF send
        <3>2. now \in 0..MaxTime /\ Slot \in Slots
            BY SlotIsRight DEF TypeOK
        <3>3. CASE Touch(mac)
            BY <3>1, <3>2, <3>3 DEF Touch, TypeOK, rx
        <3>4. CASE Refuse
            BY <3>1, <3>2, <3>4 DEF Refuse, TypeOK, rx
        <3>5. CASE /\ driver' = (driver \ Evicted) \cup {mac}
                   /\ peers' = [peers EXCEPT ![Slot] = [used |-> TRUE, mac |-> mac, lastUse |-> now]]
            BY <3>1, <3>2, <3>5 DEF TypeOK, rx
        <3> QED BY <3>1, <3>3, <3>4, <3>5 DEF ensurePeer
    <2>4. CASE Tick
        BY <2>4, ServiceAssumption DEF Tick, TypeOK, rx
    <2>5. CASE UNCHANGED vars
        BY <2>5 DEF vars, rx, TypeOK
    <2> QED BY <2>1, <2>2, <2>3, <2>4, <2>5 DEF Next
<1> QED BY <1>1, <1>2, PTL DEF Spec

-----------------------------------------------------------------------------
(* The peer table.  The broadcast peer is permanent because it is never in *)
(* the table.                                                              *)

BroadcastIsPermanent == \A i \in Slots : IsUsed(i) => peers[i].mac # BCAST
TableInv == TypeOK /\ PeersMatchDriver /\ BroadcastIsPermanent

LEMMA SendKeepsTable ==
    ASSUME TableInv, NEW mac \in Macs \cup {BCAST}, send(mac)
    PROVE  (PeersMatchDriver /\ BroadcastIsPermanent)'
<1>1. ensurePeer(mac) /\ Slot \in Slots /\ peers \in [Slots -> [used : BOOLEAN, mac : Macs \cup {BCAST}, lastUse : 0..MaxTime]]
    BY SlotIsRight DEF send, TableInv, TypeOK
<1>2. CASE Touch(mac)
    <2>1. /\ driver' = driver
          /\ \A i \in Slots : peers'[i].used = peers[i].used /\ peers'[i].mac = peers[i].mac
        BY <1>1, <1>2 DEF Touch
    <2> QED BY <2>1 DEF TableInv, PeersMatchDriver, BroadcastIsPermanent, IsUsed
<1>3. \A i \in Slots : IsUsed(i) /\ peers[i].mac \in Evicted => i = Slot
    BY <1>1, SlotIsRight DEF TableInv, PeersMatchDriver, TableFull
<1>4. driver \ Evicted = {BCAST} \cup {peers[i].mac : i \in {j \in Slots : IsUsed(j) /\ j # Slot}}
    BY <1>1, <1>3, SlotIsRight DEF TableInv, PeersMatchDriver, BroadcastIsPermanent, TableFull
<1>5. CASE Refuse
    <2>1. \A i \in Slots : /\ peers'[i].used = (peers[i].used /\ i # Slot)
                           /\ peers'[i].mac = peers[i].mac
        BY <1>1, <1>5 DEF Refuse
    <2>2. driver' = driver \ Evicted
        BY <1>5 DEF Refuse
    <2>3. {j \in Slots : IsUsed(j)'} = {j \in Slots : IsUsed(j) /\ j # Slot}
        BY <2>1 DEF IsUsed
    <2>4. driver' = {BCAST} \cup {peers'[i].mac : i \in {j \in Slots : IsUsed(j)'}}
        BY <1>4, <2>1, <2>2, <2>3
    <2>5. \A i, j \in Slots : IsUsed(i)' /\ IsUsed(j)' /\ peers'[i].mac = peers'[j].mac => i = j
        BY <2>1 DEF TableInv, PeersMatchDriver, IsUsed
    <2>6. BroadcastIsPermanent'
        BY <2>1 DEF TableInv, BroadcastIsPermanent, IsUsed
    <2> QED BY <2>4, <2>5, <2>6 DEF PeersMatchDriver
<1>6. CASE /\ mac \notin driver
           /\ driver' = (driver \ Evicted) \cup {mac}
           /\ peers' = [peers EXCEPT ![Slot] = [used |-> TRUE, mac |-> mac, lastUse |-> now]]
    <2>1. \A i \in Slots : i # Slot => peers'[i] = peers[i]
        BY <1>1, <1>6
    <2>2. peers'[Slot].used /\ peers'[Slot].mac = mac
        BY <1>1, <1>6
    <2>3. mac # BCAST /\ \A i \in Slots : IsUsed(i) => peers[i].mac # mac
        BY <1>6 DEF TableInv, PeersMatchDriver
    <2> QED BY <1>1, <1>4, <1>6, <2>1, <2>2, <2>3
            DEF TableInv, PeersMatchDriver, BroadcastIsPermanent, IsUsed
<1> QED BY <1>1, <1>2, <1>5, <1>6 DEF ensurePeer

\* The table and the driver always agree about who is a peer, whatever the
\* driver refuses (ensurePeer).
THEOREM PeersMatch == Spec => []PeersMatchDriver
<1>1. Init => PeersMatchDriver /\ BroadcastIsPermanent
    BY DEF Init, PeersMatchDriver, BroadcastIsPermanent, IsUsed, Empty
<1>2. TableInv /\ [Next]_vars => (PeersMatchDriver /\ BroadcastIsPermanent)'
    <2>1. ASSUME TableInv, UNCHANGED peers, UNCHANGED driver
          PROVE  (PeersMatchDriver /\ BroadcastIsPermanent)'
        BY <2>1 DEF TableInv, PeersMatchDriver, BroadcastIsPermanent, IsUsed
    <2>2. TableInv /\ Next => \/ UNCHANGED peers /\ UNCHANGED driver
                              \/ \E mac \in Macs \cup {BCAST} : send(mac)
        BY DEF Next, onRecv, receive, Tick
    <2> QED BY <2>1, <2>2, SendKeepsTable DEF vars
<1> QED BY <1>1, <1>2, Typing, PTL DEF Spec, TableInv

\* Time stamps of one wrap order as the true times do.
LEMMA EpochOrder ==
    ASSUME NEW a \in Nat, NEW b \in Nat, millis(a) <= millis(b), a \div Wrap = b \div Wrap
    PROVE  a <= b
<1>1. \A x \in Nat : x = (Wrap * (x \div Wrap)) + (x % Wrap)
    BY ServiceAssumption, SMT
<1> QED BY <1>1, ServiceAssumption, SMT DEF millis

\* Within one wrap of the clock, a peer is evicted from a full table only, and
\* it is the one that has not been used for longest (ensurePeer).
THEOREM EvictionIsFair == Spec => EvictsOldest
<1> DEFINE Leaves(i) == IsUsed(i) /\ (peers'[i].mac # peers[i].mac \/ ~peers'[i].used)
<1>1. ASSUME TypeOK, Next, NEW i \in Slots, Leaves(i)
      PROVE  TableFull /\ (SameEpoch => \A j \in Slots : peers[i].lastUse <= peers[j].lastUse)
    <2>0. ~UNCHANGED peers
        BY <1>1 DEF IsUsed
    <2>1. PICK mac \in Macs \cup {BCAST} : ensurePeer(mac)
        BY <1>1, <2>0 DEF Next, onRecv, receive, Tick, send
    <2>2. peers \in [Slots -> [used : BOOLEAN, mac : Macs \cup {BCAST}, lastUse : 0..MaxTime]]
        BY <1>1 DEF TypeOK
    <2>3. ~Touch(mac)
        BY <1>1, <2>2 DEF Touch, IsUsed
    <2>4. i = Slot
        BY <1>1, <2>1, <2>2, <2>3, SlotIsRight DEF ensurePeer, Refuse, IsUsed
    <2>5. TableFull /\ i = oldest
        BY <1>1, <2>4, SlotIsRight
    <2>6. ASSUME SameEpoch, NEW j \in Slots
          PROVE  peers[i].lastUse <= peers[j].lastUse
        <3>1. peers[i].lastUse \in Nat /\ peers[j].lastUse \in Nat
            BY <2>2, ServiceAssumption
        <3>2. millis(peers[i].lastUse) <= millis(peers[j].lastUse)
            BY <1>1, <2>5, OldestIsMinimal DEF Stamp
        <3>3. peers[i].lastUse \div Wrap = peers[j].lastUse \div Wrap
            BY <2>6 DEF SameEpoch
        <3> QED BY <3>1, <3>2, <3>3, EpochOrder
    <2> QED BY <2>5, <2>6
<1>2. ASSUME UNCHANGED vars, NEW i \in Slots
      PROVE  ~Leaves(i)
    BY <1>2 DEF vars, IsUsed
<1>3. TypeOK /\ [Next]_vars =>
        [\A i \in Slots : IsUsed(i) /\ (peers'[i].mac # peers[i].mac \/ ~peers'[i].used) =>
            /\ TableFull
            /\ SameEpoch => \A j \in Slots : peers[i].lastUse <= peers[j].lastUse]_vars
    BY <1>1
<1> QED BY <1>3, Typing, PTL DEF Spec, EvictsOldest

-----------------------------------------------------------------------------
(* Raw data.                                                               *)

RingIsClean == \A i \in Indices : ~IsRawFrame(ring[i].pkt)

\* The bytes of a firmware image are never queued as a packet (validate,
\* onRecvStatic).
THEOREM DataStays == Spec => []DataStaysData
<1>1. Init => RingIsClean
    BY DEF Init, RingIsClean, NoPacket, IsRawFrame
<1>2. TypeOK /\ RingIsClean /\ [Next]_vars => RingIsClean'
    <2> SUFFICES ASSUME TypeOK, RingIsClean, [Next]_vars
                 PROVE  RingIsClean'
        OBVIOUS
    <2>1. ASSUME NEW mac \in Senders, NEW data \in Received, onRecv(mac, data)
          PROVE  RingIsClean'
        <3>1. validate(data) => ~IsRawFrame(data)
            BY DEF validate, isRescueMsg, IsRawFrame, PROTOCOL_VERSION
        <3> QED BY <2>1, <3>1 DEF onRecv, RingIsClean, TypeOK
    <2>2. CASE UNCHANGED ring
        BY <2>2 DEF RingIsClean
    <2> QED BY <2>1, <2>2 DEF Next, receive, send, Tick, vars, rx
<1>3. TypeOK /\ RingIsClean => DataStaysData
    <2> SUFFICES ASSUME TypeOK, RingIsClean, NEW k \in DOMAIN Waiting
                 PROVE  ~IsRawFrame(Waiting[k].pkt)
        BY DEF DataStaysData
    <2>1. k \in Nat \ {0} /\ tail \in Nat
        BY ServiceAssumption, SMT DEF Waiting, TypeOK, Indices
    <2>2. (tail + k - 1) % RX_RING \in Indices
        BY <2>1, ServiceAssumption, SMT DEF Indices
    <2> QED BY <2>2 DEF RingIsClean, Waiting
<1> QED BY <1>1, <1>2, <1>3, Typing, PTL DEF Spec

-----------------------------------------------------------------------------
(* The ring is a queue.                                                    *)

Count(h, t) == (h - t + RX_RING) % RX_RING
Place(t, k) == (t + k - 1) % RX_RING

\* Indices are reduced at most once.
LEMMA ModOnce ==
    ASSUME NEW x \in Nat, x < RX_RING + RX_RING
    PROVE  x % RX_RING = IF x < RX_RING THEN x ELSE x - RX_RING
BY ServiceAssumption, SMT

LEMMA CountIs ==
    ASSUME NEW h \in Indices, NEW t \in Indices
    PROVE  /\ Count(h, t) = IF h < t THEN h - t + RX_RING ELSE h - t
           /\ Count(h, t) \in 0..(RX_RING - 1)
<1> DEFINE x == h - t + RX_RING
<1>1. x \in Nat /\ x < RX_RING + RX_RING
    BY ServiceAssumption, SMT DEF Indices
<1>2. x % RX_RING = IF x < RX_RING THEN x ELSE x - RX_RING
    BY <1>1, ModOnce
<1> QED BY <1>1, <1>2, ServiceAssumption, SMT DEF Count, Indices

LEMMA PlaceIs ==
    ASSUME NEW t \in Indices, NEW k \in 1..RX_RING
    PROVE  /\ Place(t, k) = IF t + k - 1 < RX_RING THEN t + k - 1 ELSE t + k - 1 - RX_RING
           /\ Place(t, k) \in Indices
<1> DEFINE x == t + k - 1
<1>1. x \in Nat /\ x < RX_RING + RX_RING
    BY ServiceAssumption, SMT DEF Indices
<1>2. x % RX_RING = IF x < RX_RING THEN x ELSE x - RX_RING
    BY <1>1, ModOnce
<1> QED BY <1>1, <1>2, ServiceAssumption, SMT DEF Place, Indices

LEMMA AfterIs ==
    ASSUME NEW i \in Indices
    PROVE  after(i) = IF i + 1 < RX_RING THEN i + 1 ELSE 0
<1>1. i + 1 \in Nat /\ i + 1 < RX_RING + RX_RING
    BY ServiceAssumption, SMT DEF Indices
<1> QED BY <1>1, ModOnce, ServiceAssumption, SMT DEF after, Indices

\* The packets that wait lie between _tail and _head, and _head is behind the last.
LEMMA HeadIsBehind ==
    ASSUME NEW h \in Indices, NEW t \in Indices
    PROVE  /\ Place(t, Count(h, t) + 1) = h
           /\ \A k \in 1..Count(h, t) : Place(t, k) # h
<1> DEFINE c == Count(h, t)
<1>1. c = (IF h < t THEN h - t + RX_RING ELSE h - t) /\ c \in 0..(RX_RING - 1)
    BY CountIs
<1> HIDE DEF c
<1>2. Place(t, c + 1) = h
    <2>1. c + 1 \in 1..RX_RING
        BY <1>1, ServiceAssumption, SMT
    <2>2. Place(t, c + 1) = IF t + (c + 1) - 1 < RX_RING THEN t + (c + 1) - 1 ELSE t + (c + 1) - 1 - RX_RING
        BY <2>1, PlaceIs
    <2> QED BY <1>1, <2>2, ServiceAssumption, SMT DEF Indices
<1>3. ASSUME NEW k \in 1..c PROVE Place(t, k) # h
    <2>1. k \in 1..RX_RING
        BY <1>1, ServiceAssumption, SMT
    <2>2. Place(t, k) = IF t + k - 1 < RX_RING THEN t + k - 1 ELSE t + k - 1 - RX_RING
        BY <2>1, PlaceIs
    <2> QED BY <1>1, <2>2, ServiceAssumption, SMT DEF Indices
<1> QED BY <1>2, <1>3 DEF c

\* One slot stays free, so that a full ring is not taken for an empty one.
LEMMA PutCounts ==
    ASSUME NEW h \in Indices, NEW t \in Indices, after(h) # t
    PROVE  Count(after(h), t) = Count(h, t) + 1 /\ Count(h, t) < RX_RING - 1
<1> DEFINE a == after(h)
<1>1. a \in Indices /\ a # t
    BY AfterIsIndex
<1>2. a = IF h + 1 < RX_RING THEN h + 1 ELSE 0
    BY AfterIs
<1>3. Count(h, t) = IF h < t THEN h - t + RX_RING ELSE h - t
    BY CountIs
<1> HIDE DEF a
<1>4. Count(a, t) = IF a < t THEN a - t + RX_RING ELSE a - t
    BY <1>1, CountIs
<1>5. Count(a, t) = Count(h, t) + 1 /\ Count(h, t) < RX_RING - 1
    BY <1>1, <1>2, <1>3, <1>4, ServiceAssumption, SMT DEF Indices
<1> QED BY <1>5 DEF a

LEMMA GetCounts ==
    ASSUME NEW h \in Indices, NEW t \in Indices, t # h
    PROVE  /\ Count(h, t) > 0 /\ Count(h, after(t)) = Count(h, t) - 1
           /\ \A k \in 1..(Count(h, t) - 1) : Place(after(t), k) = Place(t, k + 1)
<1> DEFINE a == after(t)
<1> DEFINE c == Count(h, t)
<1>1. a \in Indices
    BY AfterIsIndex
<1>2. a = IF t + 1 < RX_RING THEN t + 1 ELSE 0
    BY AfterIs
<1>3. c = (IF h < t THEN h - t + RX_RING ELSE h - t) /\ c \in 0..(RX_RING - 1)
    BY CountIs
<1> HIDE DEF a, c
<1>4. Count(h, a) = IF h < a THEN h - a + RX_RING ELSE h - a
    BY <1>1, CountIs
<1>5. c > 0 /\ Count(h, a) = c - 1
    BY <1>1, <1>2, <1>3, <1>4, ServiceAssumption, SMT DEF Indices
<1>6. ASSUME NEW k \in 1..(c - 1) PROVE Place(a, k) = Place(t, k + 1)
    <2>1. k \in 1..RX_RING /\ k + 1 \in 1..RX_RING
        BY <1>3, ServiceAssumption, SMT
    <2>2. Place(a, k) = IF a + k - 1 < RX_RING THEN a + k - 1 ELSE a + k - 1 - RX_RING
        BY <1>1, <2>1, PlaceIs
    <2>3. Place(t, k + 1) = IF t + (k + 1) - 1 < RX_RING THEN t + (k + 1) - 1 ELSE t + (k + 1) - 1 - RX_RING
        BY <2>1, PlaceIs
    <2> QED BY <1>1, <1>2, <2>1, <2>2, <2>3, ServiceAssumption, SMT DEF Indices
<1> QED BY <1>5, <1>6 DEF a, c

LEMMA WaitingIsSeq ==
    ASSUME TypeOK
    PROVE  /\ Waiting = [k \in 1..Count(head, tail) |-> ring[Place(tail, k)]]
           /\ Waiting \in Seq([mac : Senders \cup {BCAST}, pkt : Received \cup {NoPacket.pkt}])
           /\ Len(Waiting) = Count(head, tail)
<1> DEFINE n == Count(head, tail)
<1>1. Waiting = [k \in 1..n |-> ring[Place(tail, k)]]
    BY DEF Waiting, Count, Place
<1>2. n \in Nat /\ \A k \in 1..n : Place(tail, k) \in Indices
    <2>1. n \in 0..(RX_RING - 1)
        BY CountIs DEF TypeOK
    <2>2. \A k \in 1..n : k \in 1..RX_RING
        BY <2>1, ServiceAssumption, SMT
    <2> QED BY <2>1, <2>2, PlaceIs, ServiceAssumption DEF TypeOK
<1> HIDE DEF n
<1>3. Waiting \in [1..n -> [mac : Senders \cup {BCAST}, pkt : Received \cup {NoPacket.pkt}]]
    BY <1>1, <1>2 DEF TypeOK
<1>4. Waiting \in Seq([mac : Senders \cup {BCAST}, pkt : Received \cup {NoPacket.pkt}]) /\ Len(Waiting) = n
    <2> DEFINE S == [mac : Senders \cup {BCAST}, pkt : Received \cup {NoPacket.pkt}]
    <2>1. Waiting \in [1..n -> S]
        BY <1>3
    <2> HIDE DEF S
    <2>2. Waiting \in Seq(S)
        BY <1>2, <2>1
    <2>3. DOMAIN Waiting = 1..n
        BY <2>1
    <2> QED BY <1>2, <2>2, <2>3 DEF S
<1> QED BY <1>1, <1>4 DEF n

\* The ring implements the bounded queue: what is handed out was put in, first in,
\* first out, each packet once, and never more than the queue holds (onRecvStatic,
\* receive).  That nothing is dropped while there is room is not part of it: a
\* dropped packet is a step in which the queue stutters.
THEOREM RingRefines == Spec => RingIsQueue
<1>1. Init => Waiting = <<>>
    <2> SUFFICES ASSUME Init PROVE Waiting = <<>>
        OBVIOUS
    <2>1. 0 \in Indices /\ head = 0 /\ tail = 0
        BY ServiceAssumption, SMT DEF Init, Indices
    <2>2. Count(head, tail) = 0
        BY <2>1, CountIs
    <2>3. Waiting = [k \in 1..0 |-> ring[Place(tail, k)]]
        BY <2>2 DEF Waiting, Count, Place
    <2> QED BY <2>3
<1>2. TypeOK /\ TypeOK' /\ [Next]_vars => [Queue!Put \/ Queue!Get]_Waiting
    <2> SUFFICES ASSUME TypeOK, TypeOK', [Next]_vars
                 PROVE  [Queue!Put \/ Queue!Get]_Waiting
        OBVIOUS
    <2> DEFINE n == Count(head, tail)
    <2>1. /\ Waiting = [k \in 1..n |-> ring[Place(tail, k)]] /\ Len(Waiting) = n
          /\ n \in 0..(RX_RING - 1) /\ \A k \in 1..n : Place(tail, k) \in Indices /\ Place(tail, k) # head
        <3>1. n \in 0..(RX_RING - 1) /\ \A k \in 1..n : k \in 1..RX_RING
            BY CountIs, ServiceAssumption, SMT DEF TypeOK
        <3> QED BY <3>1, WaitingIsSeq, HeadIsBehind, PlaceIs DEF TypeOK
    <2>2. /\ Waiting' = [k \in 1..Count(head', tail') |-> ring'[Place(tail', k)]]
          /\ Len(Waiting') = Count(head', tail')
        <3>1. (TypeOK => /\ Waiting = [k \in 1..Count(head, tail) |-> ring[Place(tail, k)]]
                         /\ Len(Waiting) = Count(head, tail))'
            BY WaitingIsSeq, PTL
        <3> QED BY <3>1 DEF Count, Place
    <2>3. CASE UNCHANGED rx
        <3>1. Waiting' = Waiting
            BY <2>3 DEF Waiting, rx
        <3> QED BY <3>1
    <2>4. ASSUME NEW mac \in Senders, NEW data \in Received, validate(data), ~isFull, onRecv(mac, data)
          PROVE  Queue!Put
        <3> DEFINE item == [mac |-> mac, pkt |-> data]
        <3>1. ring' = [ring EXCEPT ![head] = item] /\ head' = after(head) /\ tail' = tail
            BY <2>4 DEF onRecv
        <3>2. Count(head', tail') = n + 1 /\ n < RX_RING - 1
            BY <2>4, <3>1, PutCounts DEF isFull, TypeOK
        <3>3. Place(tail, n + 1) = head
            BY HeadIsBehind DEF TypeOK
        <3> HIDE DEF n
        <3>4. \A k \in 1..n : ring'[Place(tail, k)] = ring[Place(tail, k)]
            BY <2>1, <3>1 DEF TypeOK
        <3>5. ring'[head] = item
            BY <3>1 DEF TypeOK
        <3>6. Waiting' = [k \in 1..(n + 1) |-> ring'[Place(tail, k)]]
            BY <2>2, <3>1, <3>2
        <3>7. Waiting' = Append(Waiting, item)
            BY <2>1, <3>3, <3>4, <3>5, <3>6
        <3>8. Len(Waiting) < RX_RING - 1 /\ item \in [mac : Senders, pkt : Received]
            BY <2>1, <2>4, <3>2
        <3> QED BY <3>7, <3>8 DEF Queue!Put
    <2>5. CASE receive
        <3>1. ring' = ring /\ head' = head /\ tail' = after(tail) /\ tail # head
            BY <2>5 DEF receive
        <3>2. /\ n > 0 /\ Count(head', tail') = n - 1
              /\ \A k \in 1..(n - 1) : Place(tail', k) = Place(tail, k + 1)
            BY <3>1, GetCounts DEF TypeOK
        <3> HIDE DEF n
        <3>3. Waiting' = [k \in 1..(n - 1) |-> ring[Place(tail, k + 1)]]
            BY <2>2, <3>1, <3>2
        <3>4. Waiting # <<>> /\ Tail(Waiting) = [k \in 1..(n - 1) |-> ring[Place(tail, k + 1)]]
            BY <2>1, <3>2
        <3> QED BY <3>3, <3>4 DEF Queue!Get
    <2>6. \/ UNCHANGED rx \/ receive
          \/ \E mac \in Senders, data \in Received : validate(data) /\ ~isFull /\ onRecv(mac, data)
        BY DEF Next, onRecv, send, Tick, rx, vars
    <2> QED BY <2>3, <2>4, <2>5, <2>6
<1>3. Init => Queue!QInit
    BY <1>1 DEF Queue!QInit
<1> QED BY <1>2, <1>3, Typing, PTL DEF Spec, RingIsQueue, Queue!QSpec
=============================================================================
