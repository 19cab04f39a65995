---------------------------- MODULE EspNowService ----------------------------
(***************************************************************************)
(* The ESP-NOW wrapper of every device (src/src/EspNowService.cpp): a ring *)
(* between the WiFi task that receives packets and the loop() that handles *)
(* them, and the table of peers the radio driver may send to.  The WiFi    *)
(* task tells the protocol's packets from the raw frames of a firmware     *)
(* push by inow::validate (src/src/InfinitagNow.cpp).                      *)
(*                                                                         *)
(* Times are true times; the code has them modulo 2^32, millis().          *)
(***************************************************************************)
EXTENDS Integers, FiniteSets, Sequences

CONSTANTS
    Macs,       \* to whom packets are sent
    Senders,    \* who sends packets
    Received,   \* what arrives: [len, version, type, crcOk] records
    RX_RING, MAX_PEERS,   \* 8 and 18 in the code
    Wrap,       \* 2^32
    MaxTime     \* bounds the exploration

ASSUME ServiceAssumption ==
    /\ Received \subseteq [len : Nat, version : 0..255, type : 0..255, crcOk : BOOLEAN]
    /\ RX_RING \in Nat \ {0, 1} /\ MAX_PEERS \in Nat \ {0}
    /\ Wrap \in Nat \ {0} /\ MaxTime \in Nat

Indices == 0..(RX_RING - 1)
Slots == 1..MAX_PEERS
BCAST == "broadcast"
NoPacket == [mac |-> BCAST, pkt |-> [len |-> 0, version |-> 0, type |-> 0, crcOk |-> FALSE]]
Empty == [used |-> FALSE, mac |-> BCAST, lastUse |-> 0]

VARIABLES
    ring, head, tail,  \* _ring, written at _head by the WiFi task, read at _tail
    peers,             \* _peers
    driver,            \* the peers the driver has
    now                \* the time

rx == <<ring, head, tail>>
vars == <<rx, peers, driver, now>>

\* begin(): the broadcast address is a peer for good.
Init ==
    /\ ring = [i \in Indices |-> NoPacket] /\ head = 0 /\ tail = 0
    /\ peers = [i \in Slots |-> Empty]
    /\ driver = {BCAST}
    /\ now = 0

-----------------------------------------------------------------------------
(* Receiving.                                                              *)

PROTOCOL_VERSION == 3
PACKET_SIZE == 36

\* DISCOVER_REQ, DISCOVER_REPLY, UPDATE_BEGIN and UPDATE_ACK.
isRescueMsg(type) == type \in {1, 2, 242, 243}

\* (validateAnyVersion: a device that leaves the version to the handlers.)
validateAnyVersion(data) == data.len = PACKET_SIZE /\ data.crcOk
validate(data) ==
    /\ data.len = PACKET_SIZE
    /\ data.version = PROTOCOL_VERSION \/ isRescueMsg(data.type)
    /\ data.crcOk

\* (noWrap: indices that are not reduced.)
noWrap(i) == i + 1
after(i) == (i + 1) % RX_RING

\* (neverFull: a ring that overwrites its oldest packet.)
neverFull == FALSE
isFull == after(head) = tail

\* What is not a packet is offered to the raw hook (EspNowPush), what finds the
\* ring full is dropped.
onRecv(mac, data) ==
    /\ \/ /\ ~validate(data) \/ isFull
          /\ UNCHANGED <<ring, head>>
       \/ /\ validate(data) /\ ~isFull
          /\ ring' = [ring EXCEPT ![head] = [mac |-> mac, pkt |-> data]]
          /\ head' = after(head)
    /\ UNCHANGED <<tail, peers, driver, now>>

receive ==
    /\ tail # head
    /\ tail' = after(tail)
    /\ UNCHANGED <<ring, head, peers, driver, now>>

-----------------------------------------------------------------------------
(* Sending: ensurePeer() registers the receiver, and evicts another.       *)

millis(time) == time % Wrap

\* The first slot with the smallest time stamp.
\* (firstPlace: a table that evicts by place.)
firstPlace == 1
oldest ==
    CHOOSE i \in Slots : \A j \in Slots :
        \/ millis(peers[i].lastUse) < millis(peers[j].lastUse)
        \/ millis(peers[i].lastUse) = millis(peers[j].lastUse) /\ i <= j

IsUsed(i) == peers[i].used
TableFull == \A i \in Slots : IsUsed(i)

\* The slot for a new peer, and whom it costs the driver.
Slot ==
    IF TableFull THEN oldest
    ELSE CHOOSE i \in Slots : ~IsUsed(i) /\ \A j \in Slots : ~IsUsed(j) => i <= j
Evicted == IF TableFull THEN {peers[oldest].mac} ELSE {}

Touch(mac) ==
    /\ peers' = [i \in Slots |->
         IF IsUsed(i) /\ peers[i].mac = mac THEN [peers[i] EXCEPT !.lastUse = now] ELSE peers[i]]
    /\ UNCHANGED driver

\* The driver may refuse the new peer, and then the old one is gone too.
\* (RefuseKeeps: a table that frees the slot only for the new peer.)
RefuseKeeps ==
    /\ driver' = driver \ Evicted
    /\ UNCHANGED peers
Refuse ==
    /\ driver' = driver \ Evicted
    /\ peers' = [peers EXCEPT ![Slot].used = FALSE]

ensurePeer(mac) ==
    \/ /\ mac \in driver
       /\ Touch(mac)
    \/ /\ mac \notin driver
       /\ driver' = (driver \ Evicted) \cup {mac}
       /\ peers' = [peers EXCEPT ![Slot] = [used |-> TRUE, mac |-> mac, lastUse |-> now]]
    \/ /\ mac \notin driver
       /\ Refuse

\* send() and sendRaw(); sendBroadcast() changes nothing here.
send(mac) == ensurePeer(mac) /\ UNCHANGED <<rx, now>>

-----------------------------------------------------------------------------
Tick ==
    /\ now < MaxTime
    /\ now' = now + 1
    /\ UNCHANGED <<rx, peers, driver>>

Next ==
    \/ \E mac \in Senders, data \in Received : onRecv(mac, data)
    \/ receive
    \/ \E mac \in Macs \cup {BCAST} : send(mac)
    \/ Tick

Spec == Init /\ [][Next]_vars

-----------------------------------------------------------------------------
(* Properties.                                                             *)

TypeOK ==
    /\ ring \in [Indices -> [mac : Senders \cup {BCAST}, pkt : Received \cup {NoPacket.pkt}]]
    /\ head \in Indices /\ tail \in Indices
    /\ peers \in [Slots -> [used : BOOLEAN, mac : Macs \cup {BCAST}, lastUse : 0..MaxTime]]
    /\ driver \subseteq Macs \cup {BCAST}
    /\ now \in 0..MaxTime

\* The packets between _tail and _head, oldest first.
Waiting == [k \in 1..((head - tail + RX_RING) % RX_RING) |-> ring[(tail + k - 1) % RX_RING]]

\* The ring is a bounded queue, one packet smaller than the array: indices wrap,
\* a full ring is not taken for an empty one, and slots are not overwritten
\* before they are read.
Queue == INSTANCE ReceiveQueue
    WITH q <- Waiting, Items <- [mac : Senders, pkt : Received], Cap <- RX_RING - 1
RingIsQueue == Queue!QSpec

\* The bytes of a firmware image are never taken for a packet, although a raw
\* frame may be as long as a packet and end in a matching CRC: its first bytes
\* 'I' 'N' are neither our version nor a rescue message.
IsRawFrame(data) == data.version = 73 /\ data.type = 78
DataStaysData == \A k \in DOMAIN Waiting : ~IsRawFrame(Waiting[k].pkt)

\* The table and the driver agree about who is a peer, also when an eviction
\* was followed by a refusal; nobody is in the table twice.
PeersMatchDriver ==
    /\ driver = {BCAST} \cup {peers[i].mac : i \in {j \in Slots : IsUsed(j)}}
    /\ \A i, j \in Slots : IsUsed(i) /\ IsUsed(j) /\ peers[i].mac = peers[j].mac => i = j

\* A peer is evicted only when the table is full, and it is the one not used
\* for longest (EspNowService.cpp: "evict the least recently used peer"),
\* unless the clock has wrapped since: stamps from before and after a wrap
\* compare the wrong way round.
SameEpoch == \A i, j \in Slots : peers[i].lastUse \div Wrap = peers[j].lastUse \div Wrap
EvictsOldest ==
    [][\A i \in Slots : IsUsed(i) /\ (peers'[i].mac # peers[i].mac \/ ~peers'[i].used) =>
         /\ TableFull
         /\ SameEpoch => \A j \in Slots : peers[i].lastUse <= peers[j].lastUse]_vars
=============================================================================
