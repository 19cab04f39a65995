----------------------- MODULE EspNowPushLockstepProofs -----------------------
(***************************************************************************)
(* The lockstep of a single push, for every number of boxes, every image,  *)
(* window and ring size, and whatever is lost or delayed.  It is the       *)
(* protocol's own invariant: what the box, the packets on their way in     *)
(* both directions and the device agree on.                                *)
(***************************************************************************)
EXTENDS EspNowPushProofs

USE Parameters

-----------------------------------------------------------------------------
(* What a step of the box does to what others see of it.                   *)

\* The box added packets behind those on their way: of the given kinds, or
\* frames of no window beyond its new one.
Sent(b, kinds) ==
    \A k \in DOMAIN air'[b] :
        \/ k \in DOMAIN air[b] /\ air'[b][k] = air[b][k]
        \/ /\ \A j \in DOMAIN air[b] : j < k
           /\ air'[b][k].kind \in kinds \cup {"DATA"}
           /\ air'[b][k].kind = "DATA" => air'[b][k].frame[2] < (sWindow'[b] + 1) * W

\* The packets a box has on their way, and the frames the device has queued.
LEMMA AirTyped ==
    ASSUME TypeOK, Carries(Images), NEW b \in Boxes
    PROVE  /\ air[b] \in Seq(Controls(Images) \cup Datas(Images))
           /\ DOMAIN air[b] \subseteq Nat /\ sWindow[b] \in Nat
           /\ \A k \in DOMAIN air[b] : air[b][k].kind = "DATA" => air[b][k].frame[2] \in Nat
<1> DEFINE P == Controls(Images) \cup Datas(Images)
<1>1. air[b] \in Seq(P) /\ sWindow[b] \in Nat
    BY DEF Carries, TypeOK
<1>2. \A p \in P : p.kind = "DATA" => p.frame[2] \in Nat
    BY FramesOfDef DEF Controls, Datas
<1> HIDE DEF P
<1>3. DOMAIN air[b] = 1..Len(air[b]) /\ \A k \in DOMAIN air[b] : air[b][k] \in P
    BY <1>1, LenProperties, ElementOfSeq
<1> QED BY <1>1, <1>2, <1>3 DEF P
LEMMA QueueTyped ==
    ASSUME TypeOK
    PROVE  \A k \in DOMAIN queue : queue[k] \in FrameSet /\ queue[k][2] \in Nat
<1>1. queue \in Seq(FrameSet)
    BY DEF TypeOK
<1>2. \A k \in DOMAIN queue : queue[k] \in FrameSet
    BY <1>1, LenProperties, ElementOfSeq
<1> QED BY <1>2, FramesOfDef DEF FrameSet

\* Packets behind those on their way.
LEMMA AppendSent ==
    ASSUME NEW b \in Boxes, NEW kinds, NEW P, air \in [Boxes -> Seq(P)], NEW q \in Seq(P),
           air' = [air EXCEPT ![b] = air[b] \o q],
           \A k \in DOMAIN q : /\ q[k].kind \in kinds \cup {"DATA"}
                               /\ q[k].kind = "DATA" => q[k].frame[2] < (sWindow'[b] + 1) * W
    PROVE  Sent(b, kinds)
<1>1. air[b] \in Seq(P) /\ air'[b] = air[b] \o q
    OBVIOUS
<1> DEFINE n == Len(air[b])
           m == Len(q)
<1>2. n \in Nat /\ m \in Nat /\ DOMAIN air[b] = 1..n /\ DOMAIN q = 1..m
    BY <1>1, LenProperties
<1>3. /\ DOMAIN air'[b] = 1..(n + m)
      /\ \A k \in 1..(n + m) : air'[b][k] = IF k <= n THEN air[b][k] ELSE q[k - n]
    BY <1>1, ConcatProperties, LenProperties
<1> HIDE DEF n, m
<1> SUFFICES ASSUME NEW k \in 1..(n + m)
             PROVE  \/ k \in DOMAIN air[b] /\ air'[b][k] = air[b][k]
                    \/ /\ \A j \in DOMAIN air[b] : j < k
                       /\ air'[b][k].kind \in kinds \cup {"DATA"}
                       /\ air'[b][k].kind = "DATA" => air'[b][k].frame[2] < (sWindow'[b] + 1) * W
    BY <1>3 DEF Sent
<1>4. CASE k <= n
    BY <1>2, <1>3, <1>4
<1>5. CASE ~(k <= n)
    <2>1. k - n \in DOMAIN q /\ air'[b][k] = q[k - n]
        BY <1>2, <1>3, <1>5
    <2>2. \A j \in DOMAIN air[b] : j < k
        BY <1>2, <1>5
    <2> QED BY <2>1, <2>2
<1> QED BY <1>4, <1>5

\* The END, behind them.
LEMMA EndSent ==
    ASSUME Carries(Images), NEW b \in Boxes, air' = [air EXCEPT ![b] = Append(air[b], End)]
    PROVE  Sent(b, {"END"}) /\ \A c \in Boxes \ {b} : air'[c] = air[c]
<1> DEFINE P == Controls(Images) \cup Datas(Images)
           q == <<End>>
<1>1. air \in [Boxes -> Seq(P)] /\ End \in P /\ End.kind = "END"
    BY DEF Carries, End, Controls
<1> HIDE DEF P
<1>2. q \in Seq(P) /\ DOMAIN q = {1} /\ q[1].kind = "END"
    BY <1>1
<1>3. air[b] \in Seq(P) /\ Append(air[b], End) = air[b] \o q
    BY <1>1, AppendIsConcat
<1> HIDE DEF q
<1>4. air' = [air EXCEPT ![b] = air[b] \o q]
    BY <1>3
<1>5. \A k \in DOMAIN q : /\ q[k].kind \in {"END"} \cup {"DATA"}
                          /\ q[k].kind = "DATA" => q[k].frame[2] < (sWindow'[b] + 1) * W
    BY <1>2
<1> QED BY <1>1, <1>2, <1>4, <1>5, AppendSent

\* A window, whole or cut short by a failed read.
LEMMA SendWindowSends ==
    ASSUME TypeOK, Carries(Images), NEW b \in Boxes, NEW img \in Images, NEW kinds,
           NEW pre \in Seq(Controls(Images)), \A k \in DOMAIN pre : pre[k].kind \in kinds \ {"DATA"},
           NEW w \in Nat, NEW mask, NEW status,
           SendWindow(b, img, pre, w, mask, status), sWindow'[b] = w
    PROVE  /\ Sent(b, kinds)
           /\ \A c \in Boxes \ {b} : sState'[c] = sState[c] /\ air'[c] = air[c]
<1> DEFINE P == Controls(Images) \cup Datas(Images)
<1>1. PICK frames \in WindowData(img, w, mask) :
        \/ /\ air' = [air EXCEPT ![b] = @ \o pre \o frames]
           /\ sState' = [sState EXCEPT ![b] = "PUSHING"]
        \/ /\ \E k \in 0..(Len(frames) - 1) :
                air' = [air EXCEPT ![b] = @ \o pre \o SubSeq(frames, 1, k)]
           /\ sState' = [sState EXCEPT ![b] = "FAILED"]
    BY DEF SendWindow
<1>2. /\ frames \in Seq(Datas(Images))
      /\ \A k \in DOMAIN frames : frames[k].frame[2] < w * W + W
    BY WindowDataTyped
<1>3. (w + 1) * W = w * W + W
    BY Windows
<1>4. air \in [Boxes -> Seq(P)] /\ pre \in Seq(P)
    BY SeqMonotonic DEF Carries
<1>5. PICK q \in Seq(Datas(Images)) :
        /\ air' = [air EXCEPT ![b] = air[b] \o pre \o q]
        /\ \A k \in DOMAIN q : q[k].frame[2] < (w + 1) * W
    <2>1. CASE air' = [air EXCEPT ![b] = @ \o pre \o frames]
        BY <1>2, <1>3, <2>1
    <2>2. ASSUME NEW n \in 0..(Len(frames) - 1),
                 air' = [air EXCEPT ![b] = @ \o pre \o SubSeq(frames, 1, n)]
          PROVE  \E q \in Seq(Datas(Images)) :
                    /\ air' = [air EXCEPT ![b] = air[b] \o pre \o q]
                    /\ \A k \in DOMAIN q : q[k].frame[2] < (w + 1) * W
        <3> DEFINE q == SubSeq(frames, 1, n)
        <3>1. Len(frames) \in Nat /\ DOMAIN frames = 1..Len(frames)
            BY <1>2, LenProperties
        <3>2. \A k \in 1..n : k \in DOMAIN frames /\ frames[k] \in Datas(Images)
            BY <1>2, <3>1, ElementOfSeq
        <3>3. q \in Seq(Datas(Images)) /\ DOMAIN q = 1..n /\ \A k \in 1..n : q[k] = frames[k]
            BY <3>2, SubSeqProperties
        <3> HIDE DEF q
        <3>4. \A k \in DOMAIN q : q[k].frame[2] < (w + 1) * W
            BY <1>2, <1>3, <3>2, <3>3
        <3>5. air' = [air EXCEPT ![b] = air[b] \o pre \o q]
            BY <2>2 DEF q
        <3> QED BY <3>3, <3>4, <3>5
    <2> QED BY <1>1, <2>1, <2>2
<1> DEFINE r == pre \o q
<1>6. q \in Seq(P) /\ \A k \in DOMAIN q : q[k].kind = "DATA"
    <2>1. q \in Seq(P)
        BY SeqMonotonic
    <2>2. \A k \in DOMAIN q : q[k] \in Datas(Images)
        BY ElementOfSeq, LenProperties
    <2> QED BY <2>1, <2>2 DEF Datas
<1> HIDE DEF P
<1>7. /\ r \in Seq(P)
      /\ \A k \in DOMAIN r : \/ \E j \in DOMAIN pre : r[k] = pre[j]
                             \/ \E j \in DOMAIN q : r[k] = q[j]
    <2> DEFINE n == Len(pre)
               m == Len(q)
    <2>1. n \in Nat /\ m \in Nat /\ DOMAIN pre = 1..n /\ DOMAIN q = 1..m
        BY <1>4, <1>6, LenProperties
    <2>2. /\ r \in Seq(P) /\ DOMAIN r = 1..(n + m)
          /\ \A k \in 1..(n + m) : r[k] = IF k <= n THEN pre[k] ELSE q[k - n]
        BY <1>4, <1>6, ConcatProperties, LenProperties
    <2> HIDE DEF n, m, r
    <2>3. ASSUME NEW k \in 1..(n + m)
          PROVE  (\E j \in DOMAIN pre : r[k] = pre[j]) \/ (\E j \in DOMAIN q : r[k] = q[j])
        <3>1. k <= n => k \in DOMAIN pre
            BY <2>1
        <3>2. ~(k <= n) => k - n \in DOMAIN q
            BY <2>1
        <3> QED BY <2>2, <3>1, <3>2
    <2> QED BY <2>2, <2>3
<1>8. air[b] \o pre \o q = air[b] \o r
    BY <1>4, <1>6, ConcatAssociative
<1> HIDE DEF r
<1>9. \A k \in DOMAIN r : /\ r[k].kind \in kinds \cup {"DATA"}
                          /\ r[k].kind = "DATA" => r[k].frame[2] < (sWindow'[b] + 1) * W
    BY <1>5, <1>6, <1>7
<1>10. air' = [air EXCEPT ![b] = air[b] \o r]
    BY <1>5, <1>8
<1>11. Sent(b, kinds)
    BY <1>4, <1>7, <1>9, <1>10, AppendSent
<1>12. \A c \in Boxes \ {b} : sState'[c] = sState[c] /\ air'[c] = air[c]
    BY <1>1, <1>4, <1>10 DEF TypeOK
<1> QED BY <1>11, <1>12

\* What a step of box b, that does not start a push, does.  An END is sent only
\* after an ack, and a BEGIN only before the first.
BoxEffect(b) ==
    /\ \A c \in Boxes \ {b} : sState'[c] = sState[c] /\ air'[c] = air[c] /\ acks'[c] = acks[c]
    /\ UNCHANGED <<rvars, queue, ring, pushes, reboots>>
    /\ \A k \in DOMAIN acks'[b] : \E j \in DOMAIN acks[b] : acks'[b][k] = acks[b][j]
    /\ \/ sWindow'[b] = sWindow[b]
       \/ /\ sWindow'[b] = sWindow[b] + 1
          /\ \E j \in DOMAIN acks[b] : /\ acks[b][j].status = "WINDOW" /\ acks[b][j].missing = {}
                                       /\ acks[b][j].window = sWindow[b]
    /\ (endSent[b] => endSent'[b]) /\ (endSent'[b] => gotAnyAck'[b])
    /\ \/ Sent(b, {"END"}) /\ endSent'[b]
       \/ Sent(b, {"BEGIN"}) /\ ~gotAnyAck[b]
       \/ Sent(b, {})

\* The box's loop() takes an ack.
LEMMA OnAckEffect ==
    ASSUME TypeOK, Carries(Images), NEW b \in Boxes, endSent[b] => gotAnyAck[b], onAck(b)
    PROVE  BoxEffect(b)
<1> DEFINE a == Head(acks[b])
<1>1. /\ acks[b] \in Seq(AckSet) /\ acks[b] # <<>>
      /\ acks' = [acks EXCEPT ![b] = Tail(acks[b])]
      /\ UNCHANGED <<rvars, queue, ring, pushes, reboots>>
    BY DEF onAck, TypeOK
<1>2. /\ a = acks[b][1] /\ 1 \in DOMAIN acks[b]
      /\ \A k \in DOMAIN Tail(acks[b]) : k + 1 \in DOMAIN acks[b] /\ Tail(acks[b])[k] = acks[b][k + 1]
    BY <1>1, TailTyped, LenProperties, EmptySeq
<1>3. /\ \A c \in Boxes \ {b} : acks'[c] = acks[c]
      /\ \A k \in DOMAIN acks'[b] : \E j \in DOMAIN acks[b] : acks'[b][k] = acks[b][j]
    BY <1>1, <1>2 DEF TypeOK
<1>4. /\ sWindow \in [Boxes -> 0..MaxWindow] /\ sWindow[b] \in Nat
      /\ gotAnyAck \in [Boxes -> BOOLEAN] /\ endSent \in [Boxes -> BOOLEAN]
      /\ sState[b] = "PUSHING" => sImg[b] \in Images
    BY DEF TypeOK, Carries
<1>5. ASSUME UNCHANGED air PROVE Sent(b, {}) /\ \A c \in Boxes \ {b} : air'[c] = air[c]
    BY <1>5 DEF Sent
<1> HIDE DEF a
<1> USE DEF BoxEffect
<1>6. CASE sState[b] # "PUSHING" /\ IgnoreAck(b) /\ UNCHANGED <<gotAnyAck, retries>>
    BY <1>1, <1>3, <1>5, <1>6 DEF IgnoreAck
<1>7. ASSUME sState[b] = "PUSHING", gotAnyAck' = [gotAnyAck EXCEPT ![b] = TRUE] PROVE BoxEffect(b)
    <2>1. gotAnyAck'[b]
        BY <1>4, <1>7
    <2>2. CASE IgnoreAck(b)
        BY <1>1, <1>3, <1>5, <2>1, <2>2 DEF IgnoreAck
    <2>3. CASE EndPush(b, a)
        <3>1. \A c \in Boxes \ {b} : sState'[c] = sState[c]
            BY <2>3 DEF EndPush, TypeOK
        <3> QED BY <1>1, <1>3, <1>5, <2>1, <2>3, <3>1 DEF EndPush
    <2>4. ASSUME a.status = "WINDOW", a.missing = {}, IsCurrent(b, a), NextWindow(b)
          PROVE  BoxEffect(b)
        <3>1. sWindow'[b] = sWindow[b] + 1
            BY <1>4, <2>4 DEF NextWindow
        <3>2. \E j \in DOMAIN acks[b] : /\ acks[b][j].status = "WINDOW" /\ acks[b][j].missing = {}
                                        /\ acks[b][j].window = sWindow[b]
            BY <1>2, <2>4 DEF IsCurrent, a
        <3>3. CASE /\ air' = [air EXCEPT ![b] = Append(@, End)]
                   /\ endSent' = [endSent EXCEPT ![b] = TRUE]
                   /\ UNCHANGED sState
            <4>1. air' = [air EXCEPT ![b] = Append(air[b], End)]
                BY <3>3
            <4>2. Sent(b, {"END"}) /\ \A c \in Boxes \ {b} : air'[c] = air[c]
                BY <4>1, EndSent
            <4>3. endSent'[b]
                BY <1>4, <3>3
            <4> QED BY <1>1, <1>3, <2>1, <3>1, <3>2, <3>3, <4>2, <4>3
        <3>4. CASE /\ SendWindow(b, sImg[b], <<>>, sWindow[b] + 1, Slots, finalStatus[b])
                   /\ UNCHANGED endSent
            <4>1. Sent(b, {}) /\ \A c \in Boxes \ {b} : sState'[c] = sState[c] /\ air'[c] = air[c]
                <5>1. /\ <<>> \in Seq(Controls(Images)) /\ DOMAIN <<>> = {}
                      /\ sWindow[b] + 1 \in Nat /\ sImg[b] \in Images
                    BY <1>4, <1>7
                <5> QED BY <3>1, <3>4, <5>1, SendWindowSends
            <4> QED BY <1>1, <1>3, <2>1, <3>1, <3>2, <3>4, <4>1
        <3> QED BY <2>4, <3>3, <3>4 DEF NextWindow
    <2>5. CASE Retransmit(b, a.missing)
        <3>1. /\ SendWindow(b, sImg[b], <<>>, sWindow[b], a.missing, finalStatus[b])
              /\ UNCHANGED <<sWindow, endSent>>
            BY <2>5 DEF Retransmit
        <3>2. Sent(b, {}) /\ \A c \in Boxes \ {b} : sState'[c] = sState[c] /\ air'[c] = air[c]
            <4>1. <<>> \in Seq(Controls(Images)) /\ DOMAIN <<>> = {} /\ sImg[b] \in Images
                BY <1>4, <1>7
            <4> QED BY <1>4, <3>1, <4>1, SendWindowSends
        <3> QED BY <1>1, <1>3, <2>1, <3>1, <3>2
    <2> HIDE DEF BoxEffect
    <2> QED BY <1>7, <2>2, <2>3, <2>4, <2>5 DEF onAck, a
<1> HIDE DEF BoxEffect
<1> QED BY <1>6, <1>7 DEF onAck

\* The deadline passes.
LEMMA TimeoutEffect ==
    ASSUME TypeOK, Carries(Images), NEW b \in Boxes, endSent[b] => gotAnyAck[b], Timeout(b)
    PROVE  BoxEffect(b)
<1>1. /\ UNCHANGED <<sWindow, gotAnyAck, endSent, rvars, queue, ring, acks, pushes, reboots>>
      /\ air[b] = <<>> /\ sWindow[b] \in Nat /\ sImg[b] \in Images
    BY DEF Timeout, TypeOK, Carries
<1>2. /\ \A c \in Boxes \ {b} : acks'[c] = acks[c]
      /\ \A k \in DOMAIN acks'[b] : \E j \in DOMAIN acks[b] : acks'[b][k] = acks[b][j]
    BY <1>1
<1>3. CASE sState' = [sState EXCEPT ![b] = "FAILED"] /\ UNCHANGED air
    BY <1>1, <1>2, <1>3 DEF BoxEffect, Sent, TypeOK
<1>4. CASE endSent[b] /\ air' = [air EXCEPT ![b] = <<End>>] /\ UNCHANGED sState
    <2>1. air' = [air EXCEPT ![b] = Append(air[b], End)]
        BY <1>1, <1>4
    <2>2. Sent(b, {"END"}) /\ \A c \in Boxes \ {b} : air'[c] = air[c]
        BY <2>1, EndSent
    <2> QED BY <1>1, <1>2, <1>4, <2>2 DEF BoxEffect
<1>5. CASE SendWindow(b, sImg[b], Announce(b), sWindow[b], Slots, finalStatus[b])
    <2>1. CASE gotAnyAck[b]
        <3>1. Announce(b) \in Seq(Controls(Images)) /\ DOMAIN Announce(b) = {}
            BY <2>1 DEF Announce
        <3>2. Sent(b, {}) /\ \A c \in Boxes \ {b} : sState'[c] = sState[c] /\ air'[c] = air[c]
            BY <1>1, <1>5, <3>1, SendWindowSends
        <3> QED BY <1>1, <1>2, <3>2 DEF BoxEffect
    <2>2. CASE ~gotAnyAck[b]
        <3>1. Begin(sImg[b]) \in Controls(Images) /\ Begin(sImg[b]).kind = "BEGIN"
            BY <1>1 DEF Begin, Controls
        <3>2. /\ Announce(b) \in Seq(Controls(Images))
              /\ \A k \in DOMAIN Announce(b) : Announce(b)[k].kind \in {"BEGIN"} \ {"DATA"}
            BY <2>2, <3>1 DEF Announce
        <3>3. Sent(b, {"BEGIN"}) /\ \A c \in Boxes \ {b} : sState'[c] = sState[c] /\ air'[c] = air[c]
            BY <1>1, <1>5, <3>2, SendWindowSends
        <3> QED BY <1>1, <1>2, <2>2, <3>3 DEF BoxEffect
    <2> QED BY <2>1, <2>2
<1> QED BY <1>3, <1>4, <1>5 DEF Timeout

-----------------------------------------------------------------------------
(* Each step keeps what is said of a single push.                          *)

\* A step of the box.
LEMMA BoxKeepsPush ==
    ASSUME TypeOK, Carries(Images), Carries(Images)', NEW b \in Boxes, SinglePush(b), BoxEffect(b)
    PROVE  SinglePush(b)'
<1>1. Alone(b) /\ Paced(b) /\ EndsLast(b) /\ Session(b)
    BY DEF SinglePush
<1>2. /\ UNCHANGED <<ring, queue, rState, rImg, rSrc, rWindow, winBuf>>
      /\ \A k \in DOMAIN acks'[b] : \E j \in DOMAIN acks[b] : acks'[b][k] = acks[b][j]
      /\ (endSent[b] => endSent'[b]) /\ (endSent'[b] => gotAnyAck'[b])
    BY DEF BoxEffect, rvars
<1>3. DOMAIN air[b] \subseteq Nat /\ DOMAIN air'[b] \subseteq Nat /\ sWindow[b] \in Nat
    <2> DEFINE P == Controls(Images) \cup Datas(Images)
    <2>1. air'[b] \in Seq(P)
        BY DEF Carries
    <2> HIDE DEF P
    <2>2. DOMAIN air'[b] \subseteq Nat
        BY <2>1, LenProperties
    <2> QED BY <2>2, AirTyped
<1>4. \A k \in DOMAIN air'[b] :
        \/ k \in DOMAIN air[b] /\ air'[b][k] = air[b][k]
        \/ /\ \A j \in DOMAIN air[b] : j < k
           /\ \/ /\ air'[b][k].kind = "DATA"
                 /\ air'[b][k].frame[2] < (sWindow'[b] + 1) * W
              \/ air'[b][k].kind = "BEGIN" /\ ~gotAnyAck[b]
              \/ air'[b][k].kind = "END" /\ endSent'[b]
    BY DEF BoxEffect, Sent
<1>5. ASSUME NEW k \in DOMAIN air'[b], NEW l \in DOMAIN air'[b], k < l,
             air'[b][k].kind = "END", air'[b][l].kind = "BEGIN"
      PROVE  FALSE
    <2>1. l \in DOMAIN air[b] => k \in DOMAIN air[b] /\ air'[b][k] = air[b][k]
        BY <1>3, <1>4, <1>5
    <2>2. CASE l \in DOMAIN air[b] /\ air'[b][l] = air[b][l]
        BY <1>1, <1>5, <2>1, <2>2 DEF EndsLast
    <2>3. CASE ~(l \in DOMAIN air[b] /\ air'[b][l] = air[b][l])
        <3>1. Sent(b, {"BEGIN"}) /\ ~gotAnyAck[b]
            BY <1>5, <2>3 DEF BoxEffect, Sent
        <3>2. ~AirHas(b, "END")
            BY <1>1, <3>1 DEF EndsLast
        <3>3. air'[b][k].kind \in {"BEGIN", "DATA"}
            BY <1>5, <3>1, <3>2 DEF Sent, AirHas
        <3> QED BY <1>5, <3>3
    <2> QED BY <2>2, <2>3
<1>6. Alone(b)'
    BY <1>1, <1>2 DEF Alone, BoxEffect, Receiving
<1>7. Paced(b)'
    <2>1. \A x \in Nat : x < (sWindow[b] + 1) * W => x < (sWindow'[b] + 1) * W
        <3>1. CASE sWindow'[b] = sWindow[b]
            BY <3>1
        <3>2. CASE sWindow'[b] = sWindow[b] + 1
            <4> DEFINE m == (sWindow[b] + 1) * W
                       n == (sWindow'[b] + 1) * W
            <4>1. m \in Nat /\ n = m + W
                BY <1>3, <3>2, Windows
            <4> HIDE DEF m, n
            <4>2. \A x \in Nat : x < m => x < n
                BY <4>1
            <4> QED BY <4>2 DEF m, n
        <3> QED BY <3>1, <3>2 DEF BoxEffect
    <2>2. ASSUME NEW k \in DOMAIN queue' PROVE queue'[k][2] < (sWindow'[b] + 1) * W
        BY <1>1, <1>2, <2>1, QueueTyped DEF Paced
    <2>3. ASSUME NEW k \in DOMAIN air'[b], air'[b][k].kind = "DATA"
          PROVE  air'[b][k].frame[2] < (sWindow'[b] + 1) * W
        <3>1. CASE k \in DOMAIN air[b] /\ air'[b][k] = air[b][k]
            BY <1>1, <2>1, <2>3, <3>1, AirTyped DEF Paced
        <3> QED BY <1>4, <2>3, <3>1
    <2> QED BY <2>2, <2>3 DEF Paced
<1>8. EndsLast(b)'
    <2>1. AirHas(b, "END")' => endSent'[b]
        BY <1>1, <1>2, <1>4 DEF AirHas, EndsLast
    <2>2. RingHas("END")' => endSent'[b] /\ ~AirHas(b, "BEGIN")'
        BY <1>1, <1>2, <1>4 DEF AirHas, RingHas, EndsLast
    <2>3. \A k, l \in DOMAIN ring' :
            k < l /\ ring'[k].packet.kind = "END" => ring'[l].packet.kind # "BEGIN"
        BY <1>1, <1>2 DEF EndsLast
    <2> QED BY <1>2, <1>5, <2>1, <2>2, <2>3 DEF EndsLast
<1>9. Session(b)'
    <2>1. Receiving' = Receiving /\ Gapped' = Gapped
        BY <1>2 DEF Receiving, Gapped, windowExpectMask
    <2>2. CASE Receiving
        <3>1. Synced(b) /\ AcksFlashed(b) /\ Gapped
            BY <1>1, <2>2 DEF Session
        <3>2. AcksFlashed(b)'
            BY <1>2, <3>1 DEF AcksFlashed
        <3>3. Synced(b)'
            <4>1. rWindow \in Nat
                BY DEF TypeOK
            <4>2. CASE sWindow'[b] = sWindow[b]
                BY <1>2, <3>1, <4>2 DEF Synced
            <4>3. CASE sWindow'[b] = sWindow[b] + 1 /\ sWindow[b] < rWindow
                BY <1>2, <1>3, <3>1, <4>1, <4>3 DEF Synced
            <4> QED BY <3>1, <4>2, <4>3 DEF BoxEffect, AcksFlashed
        <3> QED BY <2>1, <2>2, <3>1, <3>2, <3>3 DEF Session
    <2>3. CASE ~Receiving /\ Fresh(b)
        <3>1. sWindow'[b] = sWindow[b]
            BY <2>3 DEF Fresh, BoxEffect
        <3>2. Fresh(b)'
            BY <1>2, <2>3, <3>1 DEF Fresh
        <3> QED BY <2>1, <2>3, <3>2 DEF Session
    <2>4. CASE ~Receiving /\ Over(b)
        <3>1. gotAnyAck[b] /\ endSent'[b]
            BY <1>1, <1>2, <2>4 DEF Over, EndsLast
        <3>2. Over(b)'
            BY <1>2, <1>4, <2>4, <3>1 DEF Over, AirHas, RingHas
        <3> QED BY <2>1, <2>4, <3>2 DEF Session
    <2> QED BY <1>1, <2>2, <2>3, <2>4 DEF Session
<1> QED BY <1>6, <1>7, <1>8, <1>9 DEF SinglePush

\* A packet of the box arrives or is lost.
LEMMA AirKeepsPush ==
    ASSUME TypeOK, Carries(Images), NEW b \in Boxes, SinglePush(b), Arrive(b) \/ Lose(b)
    PROVE  SinglePush(b)'
<1> DEFINE P == Controls(Images) \cup Datas(Images)
           R == [box : Boxes, packet : Controls(Images)]
           p == Head(air[b])
<1>1. Alone(b) /\ Paced(b) /\ EndsLast(b) /\ Session(b)
    BY DEF SinglePush
<1>2. /\ UNCHANGED <<sState, sWindow, gotAnyAck, endSent, acks>>
      /\ UNCHANGED <<rState, rImg, rSrc, rWindow, winBuf>>
    BY DEF Arrive, Lose, svars, rvars
<1>3. /\ air \in [Boxes -> Seq(P)] /\ air[b] \in Seq(P) /\ air[b] # <<>>
      /\ air' = [air EXCEPT ![b] = Tail(air[b])]
      /\ ring \in Seq(R) /\ queue \in Seq(FrameSet)
    BY DEF Arrive, Lose, Carries, TypeOK
<1>4. /\ \A c \in Boxes \ {b} : air'[c] = air[c]
      /\ 1 \in DOMAIN air[b] /\ p = air[b][1] /\ p \in P
      /\ DOMAIN air[b] \subseteq Nat
      /\ \A k \in DOMAIN air'[b] : /\ k \in Nat /\ k >= 1 /\ k + 1 \in DOMAIN air[b]
                                   /\ air'[b][k] = air[b][k + 1]
    <2> HIDE DEF P, p
    <2>1. air'[b] = Tail(air[b]) /\ \A c \in Boxes \ {b} : air'[c] = air[c]
        BY <1>3
    <2>2. p \in P /\ Tail(air[b]) \in Seq(P) /\ p = air[b][1] /\ 1 \in DOMAIN air[b]
        BY <1>3, TailTyped, LenProperties, EmptySeq DEF p
    <2>3. /\ \A k \in DOMAIN Tail(air[b]) : k + 1 \in DOMAIN air[b] /\ Tail(air[b])[k] = air[b][k + 1]
          /\ DOMAIN Tail(air[b]) = 1..Len(Tail(air[b])) /\ DOMAIN air[b] = 1..Len(air[b])
        BY <1>3, <2>2, TailTyped, LenProperties
    <2> QED BY <2>1, <2>2, <2>3
<1>5. \/ UNCHANGED <<ring, queue>>
      \/ ring' = Append(ring, [box |-> b, packet |-> p]) /\ p.kind # "DATA" /\ UNCHANGED queue
      \/ queue' = Append(queue, p.frame) /\ p.kind = "DATA" /\ UNCHANGED ring
    BY DEF Arrive, Lose
<1> HIDE DEF P, p
<1>6. /\ DOMAIN ring \subseteq Nat /\ DOMAIN ring' \subseteq Nat
      /\ \A k \in DOMAIN ring' :
            \/ k \in DOMAIN ring /\ ring'[k] = ring[k]
            \/ /\ \A j \in DOMAIN ring' : j <= k
               /\ ring'[k].box = b /\ ring'[k].packet = p
    <2> HIDE DEF R
    <2>1. DOMAIN ring = 1..Len(ring) /\ Len(ring) \in Nat
        BY <1>3, LenProperties
    <2>2. CASE UNCHANGED ring
        BY <2>1, <2>2
    <2>3. CASE ring' = Append(ring, [box |-> b, packet |-> p]) /\ p.kind # "DATA"
        <3> DEFINE e == [box |-> b, packet |-> p]
        <3>1. e \in R /\ e.box = b /\ e.packet = p
            BY <1>4, <2>3 DEF R, P, Datas
        <3> HIDE DEF e
        <3>2. ring' = Append(ring, e)
            BY <2>3 DEF e
        <3>3. /\ DOMAIN ring' = 1..(Len(ring) + 1)
              /\ \A k \in 1..Len(ring) : ring'[k] = ring[k]
              /\ ring'[Len(ring) + 1] = e
            BY <1>3, <3>1, <3>2, AppendProperties, LenProperties
        <3> QED BY <2>1, <3>1, <3>3
    <2> QED BY <1>5, <2>2, <2>3
<1>7. Alone(b)'
    BY <1>1, <1>2, <1>4, <1>6 DEF Alone, Receiving
<1>8. Paced(b)'
    <2>1. \A k \in DOMAIN air'[b] : air'[b][k].kind = "DATA" =>
            air'[b][k].frame[2] < (sWindow'[b] + 1) * W
        BY <1>1, <1>2, <1>4 DEF Paced
    <2>2. \A k \in DOMAIN queue' : queue'[k][2] < (sWindow'[b] + 1) * W
        <3>1. CASE UNCHANGED queue
            BY <1>1, <1>2, <3>1 DEF Paced
        <3>2. CASE queue' = Append(queue, p.frame) /\ p.kind = "DATA"
            <4>1. p.frame \in FrameSet /\ p.frame[2] < (sWindow[b] + 1) * W
                BY <1>1, <1>4, <3>2 DEF P, Controls, Datas, FrameSet, Paced
            <4>2. \A k \in DOMAIN queue' : \/ k \in DOMAIN queue /\ queue'[k] = queue[k]
                                           \/ queue'[k] = p.frame
                BY <1>3, <3>2, <4>1, AppendProperties, LenProperties
            <4> QED BY <1>1, <1>2, <4>1, <4>2 DEF Paced
        <3> QED BY <1>5, <3>1, <3>2
    <2> QED BY <2>1, <2>2 DEF Paced
<1>9. EndsLast(b)'
    <2>1. RingHas("END")' \/ AirHas(b, "END")' => endSent'[b]
        BY <1>1, <1>2, <1>4, <1>6 DEF RingHas, AirHas, EndsLast
    <2>2. RingHas("END")' => ~AirHas(b, "BEGIN")'
        <3>1. ASSUME p.kind = "END", NEW k \in DOMAIN air'[b] PROVE air'[b][k].kind # "BEGIN"
            BY <1>1, <1>4, <3>1 DEF EndsLast
        <3>2. AirHas(b, "BEGIN")' => AirHas(b, "BEGIN")
            BY <1>4 DEF AirHas
        <3>3. RingHas("END")' => RingHas("END") \/ p.kind = "END"
            BY <1>6 DEF RingHas
        <3> QED BY <1>1, <3>1, <3>2, <3>3 DEF AirHas, EndsLast
    <2>3. ASSUME NEW k \in DOMAIN ring', NEW l \in DOMAIN ring', k < l,
                 ring'[k].packet.kind = "END"
          PROVE  ring'[l].packet.kind # "BEGIN"
        <3>1. k \in DOMAIN ring /\ ring'[k] = ring[k]
            BY <1>6, <2>3
        <3>2. CASE l \in DOMAIN ring /\ ring'[l] = ring[l]
            BY <1>1, <2>3, <3>1, <3>2 DEF EndsLast
        <3>3. CASE ring'[l].packet = p
            BY <1>1, <1>4, <2>3, <3>1, <3>3 DEF EndsLast, RingHas, AirHas
        <3> QED BY <1>6, <3>2, <3>3
    <2>4. \A k, l \in DOMAIN air'[b] :
            k < l /\ air'[b][k].kind = "END" => air'[b][l].kind # "BEGIN"
        BY <1>1, <1>4 DEF EndsLast
    <2> QED BY <1>1, <1>2, <2>1, <2>2, <2>3, <2>4 DEF EndsLast
<1>10. Session(b)'
    <2>1. /\ Receiving' = Receiving /\ Gapped' = Gapped /\ Synced(b)' = Synced(b)
          /\ AcksFlashed(b)' = AcksFlashed(b) /\ Fresh(b)' = Fresh(b)
        BY <1>2 DEF Receiving, Gapped, windowExpectMask, Synced, AcksFlashed, Fresh
    <2>2. Over(b) => Over(b)'
        BY <1>2, <1>4, <1>6 DEF Over, RingHas, AirHas
    <2> QED BY <1>1, <2>1, <2>2 DEF Session
<1> QED BY <1>7, <1>8, <1>9, <1>10 DEF SinglePush

\* An ack is lost.
LEMMA LoseAckKeepsPush ==
    ASSUME TypeOK, NEW b \in Boxes, SinglePush(b), LoseAck(b)
    PROVE  SinglePush(b)'
<1>1. /\ acks[b] \in Seq(AckSet) /\ acks[b] # <<>>
      /\ acks' = [acks EXCEPT ![b] = Tail(acks[b])]
      /\ UNCHANGED <<svars, rvars, queue, ring, air>>
    BY DEF LoseAck, TypeOK
<1>2. \A k \in DOMAIN Tail(acks[b]) : k + 1 \in DOMAIN acks[b] /\ Tail(acks[b])[k] = acks[b][k + 1]
    BY <1>1, TailTyped
<1>3. /\ \A c \in Boxes \ {b} : acks'[c] = acks[c]
      /\ \A k \in DOMAIN acks'[b] : \E j \in DOMAIN acks[b] : acks'[b][k] = acks[b][j]
    BY <1>1, <1>2 DEF TypeOK
<1>4. /\ UNCHANGED <<sState, sWindow, gotAnyAck, endSent, queue, ring, air>>
      /\ UNCHANGED <<rState, rImg, rSrc, rWindow, winBuf>>
    BY <1>1 DEF svars, rvars
<1>5. Alone(b) /\ Paced(b) /\ EndsLast(b) /\ Session(b)
    BY DEF SinglePush
<1>6. Alone(b)'
    BY <1>3, <1>4, <1>5 DEF Alone, Receiving
<1>7. Paced(b)'
    BY <1>4, <1>5 DEF Paced
<1>8. EndsLast(b)'
    BY <1>4, <1>5 DEF EndsLast, RingHas, AirHas
<1>9. Session(b)'
    <2>1. Receiving' = Receiving /\ Gapped' = Gapped /\ Synced(b)' = Synced(b) /\ Over(b)' = Over(b)
        BY <1>4 DEF Receiving, Gapped, windowExpectMask, Synced, Over, RingHas, AirHas
    <2>2. (AcksFlashed(b) => AcksFlashed(b)') /\ (Fresh(b) => Fresh(b)')
        BY <1>3, <1>4 DEF AcksFlashed, Fresh
    <2> QED BY <1>5, <2>1, <2>2 DEF Session
<1> QED BY <1>6, <1>7, <1>8, <1>9 DEF SinglePush

\* A step of the device takes from its ring or its queue, and answers the box.
LEMMA DeviceTakes ==
    ASSUME TypeOK, Carries(Images), NEW b \in Boxes, SinglePush(b), UNCHANGED <<svars, air>>,
           ring' = ring \/ (ring # <<>> /\ ring' = Tail(ring)),
           queue' = queue \/ (queue # <<>> /\ queue' = Tail(queue)),
           \A c \in Boxes \ {b} : acks'[c] = acks[c],
           Receiving' => rSrc' = b, Session(b)'
    PROVE  SinglePush(b)'
<1> DEFINE R == [box : Boxes, packet : Controls(Images)]
<1>1. Alone(b) /\ Paced(b) /\ EndsLast(b)
    BY DEF SinglePush
<1>2. UNCHANGED <<sState, sWindow, gotAnyAck, endSent, air>>
    BY DEF svars
<1>3. ring \in Seq(R) /\ queue \in Seq(FrameSet)
    BY DEF Carries, TypeOK
<1> HIDE DEF R
<1>4. \/ ring' = ring
      \/ \A k \in DOMAIN ring' : k \in Nat /\ k + 1 \in DOMAIN ring /\ ring'[k] = ring[k + 1]
    <2>1. ring # <<>> =>
            /\ \A k \in DOMAIN Tail(ring) :
                k + 1 \in DOMAIN ring /\ Tail(ring)[k] = ring[k + 1]
            /\ DOMAIN Tail(ring) \subseteq Nat
        BY <1>3, TailTyped, LenProperties
    <2> QED BY <2>1
<1>5. \A k \in DOMAIN queue' : \E j \in DOMAIN queue : queue'[k] = queue[j]
    <2>1. queue # <<>> =>
            \A k \in DOMAIN Tail(queue) :
                k + 1 \in DOMAIN queue /\ Tail(queue)[k] = queue[k + 1]
        BY <1>3, TailTyped
    <2> QED BY <2>1
<1>6. Alone(b)'
    BY <1>1, <1>2, <1>4 DEF Alone
<1>7. Paced(b)'
    BY <1>1, <1>2, <1>5 DEF Paced
<1>8. EndsLast(b)'
    <2>1. /\ RingHas("END")' => RingHas("END")
          /\ AirHas(b, "BEGIN")' = AirHas(b, "BEGIN") /\ AirHas(b, "END")' = AirHas(b, "END")
        BY <1>2, <1>4 DEF RingHas, AirHas
    <2>2. ASSUME NEW k \in DOMAIN ring', NEW l \in DOMAIN ring', k < l,
                 ring'[k].packet.kind = "END"
          PROVE  ring'[l].packet.kind # "BEGIN"
        <3>1. CASE ring' = ring
            BY <1>1, <2>2, <3>1 DEF EndsLast
        <3>2. CASE ring' # ring
            BY <1>1, <1>4, <2>2, <3>2 DEF EndsLast
        <3> QED BY <3>1, <3>2
    <2> QED BY <1>1, <1>2, <2>1, <2>2 DEF EndsLast
<1> QED BY <1>6, <1>7, <1>8 DEF SinglePush

\* A window the image has wants its first frame.
LEMMA MaskHasFirst ==
    ASSUME rImg \in Images, rWindow \in Nat, rWindow * W < Frames[rImg]
    PROVE  0 \in windowExpectMask /\ ~TooLarge
<1> DEFINE at == rWindow * W
           r == Frames[rImg] - at
<1>1. at \in Nat /\ Frames[rImg] \in Nat /\ at < Frames[rImg]
    BY Windows
<1>2. windowExpectMask = IF r < 0 \/ r > W THEN Slots ELSE 0..(r - 1)
    BY DEF windowExpectMask
<1>3. WindowFrames = IF windowExpectMask = Slots THEN W ELSE r
    BY DEF WindowFrames
<1>4. TooLarge <=> at + WindowFrames > Frames[rImg]
    BY DEF TooLarge
<1> HIDE DEF at
<1>5. r \in Nat /\ r > 0 /\ at + r = Frames[rImg]
    BY <1>1
<1> HIDE DEF r
<1>6. windowExpectMask = Slots => W <= r
    <2>1. W - 1 \in Slots
        BY DEF Slots
    <2>2. CASE r > W
        BY <1>5, <2>2
    <2>3. CASE ~(r > W)
        BY <1>2, <1>5, <2>1, <2>3
    <2> QED BY <2>2, <2>3
<1>7. 0 \in windowExpectMask
    BY <1>2, <1>5 DEF Slots
<1> QED BY <1>1, <1>3, <1>4, <1>5, <1>6, <1>7

\* So a window that has just begun is not complete.
LEMMA GappedWhenEmpty ==
    ASSUME rImg' \in Images, rWindow' \in Nat, winBuf' = NoFrames
    PROVE  Gapped'
<1> SUFFICES ASSUME rWindow' * W < Frames[rImg'] PROVE 0 \in windowExpectMask' /\ DOMAIN winBuf' = {}
    BY DEF Gapped
<1> DEFINE at == rWindow' * W
           r == Frames[rImg'] - at
<1>1. at \in Nat /\ Frames[rImg'] \in Nat /\ at < Frames[rImg']
    BY Windows
<1>2. windowExpectMask' = IF r < 0 \/ r > W THEN Slots ELSE 0..(r - 1)
    BY DEF windowExpectMask
<1> HIDE DEF at
<1>3. r \in Nat /\ r > 0
    BY <1>1
<1> HIDE DEF r
<1> QED BY <1>2, <1>3 DEF Slots, NoFrames

\* The acks a step of the device adds.
LEMMA AckAdded ==
    ASSUME TypeOK, NEW b \in Boxes, NEW a \in AckSet, NEW n \in Nat, sendAck(b, a, n)
    PROVE  /\ \A c \in Boxes \ {b} : acks'[c] = acks[c]
           /\ \A k \in DOMAIN acks'[b] :
               acks'[b][k] = a \/ \E j \in DOMAIN acks[b] : acks'[b][k] = acks[b][j]
<1>1. \A c \in Boxes \ {b} : acks'[c] = acks[c]
    BY DEF sendAck, TypeOK
<1> QED BY <1>1, SendAckTyped

\* The device asks for what its window misses: that is never nothing.
LEMMA AskKeepsPush ==
    ASSUME TypeOK, Carries(Images), NEW b \in Boxes, SinglePush(b), Receiving,
           rWindow * W < Frames[rImg],
           sendAck(b, WindowAck(rWindow, windowExpectMask \ DOMAIN winBuf), 1),
           UNCHANGED <<svars, queue, air>>, UNCHANGED <<rState, rImg, rSrc, rWindow, winBuf>>,
           ring' = ring \/ (ring # <<>> /\ ring' = Tail(ring))
    PROVE  SinglePush(b)'
<1> DEFINE m == windowExpectMask \ DOMAIN winBuf
           a == WindowAck(rWindow, m)
<1>1. Synced(b) /\ AcksFlashed(b) /\ Gapped /\ rSrc = b
    BY DEF SinglePush, Session, Alone
<1>2. m # {}
    BY <1>1 DEF Gapped
<1>3. a \in AckSet /\ a.missing # {}
    <2>1. rImg \in Images /\ rWindow \in 0..MaxWindow /\ rWindow \in Nat
        BY DEF TypeOK, Carries, Receiving
    <2>2. m \in SUBSET Slots
        BY <2>1, MaskTyped
    <2> HIDE DEF m
    <2> QED BY <1>2, <2>1, <2>2, AcksTyped
<1>4. sendAck(b, a, 1) /\ sWindow' = sWindow
    BY DEF svars
<1> HIDE DEF a
<1>5. /\ \A c \in Boxes \ {b} : acks'[c] = acks[c]
      /\ \A k \in DOMAIN acks'[b] :
          acks'[b][k] = a \/ \E j \in DOMAIN acks[b] : acks'[b][k] = acks[b][j]
    BY <1>3, <1>4, AckAdded
<1>6. Session(b)'
    <2>1. AcksFlashed(b)'
        BY <1>1, <1>3, <1>5 DEF AcksFlashed
    <2>2. Receiving' /\ Synced(b)' /\ Gapped'
        BY <1>1, <1>4 DEF Receiving, Synced, Gapped, windowExpectMask
    <2> QED BY <2>1, <2>2 DEF Session
<1> QED BY <1>1, <1>5, <1>6, DeviceTakes

\* PUSH_BEGIN opens a session only where the box is at its first window.
LEMMA BeginKeepsPush ==
    ASSUME TypeOK, Carries(Images), NEW b \in Boxes, SinglePush(b), NEW img \in Images,
           onBegin(b, img), UNCHANGED <<svars, queue, air>>,
           ring # <<>>, ring' = Tail(ring), Head(ring).packet.kind = "BEGIN"
    PROVE  SinglePush(b)'
<1>1. Alone(b) /\ Session(b)
    BY DEF SinglePush
<1>2. UNCHANGED <<sWindow, endSent>>
    BY DEF svars
<1>3. RingHas("BEGIN")
    <2> DEFINE R == [box : Boxes, packet : Controls(Images)]
    <2>1. ring \in Seq(R)
        BY DEF Carries
    <2> HIDE DEF R
    <2>2. 1 \in DOMAIN ring /\ Head(ring) = ring[1]
        BY <2>1, LenProperties, EmptySeq
    <2> QED BY <2>2 DEF RingHas
<1>4. CASE UNCHANGED <<rvars, acks>>
    <2>1. UNCHANGED <<rState, rImg, rSrc, rWindow, winBuf>>
        BY <1>4 DEF rvars
    <2>2. Receiving' = Receiving /\ Gapped' = Gapped /\ Synced(b)' = Synced(b)
        BY <1>2, <2>1 DEF Receiving, Gapped, windowExpectMask, Synced
    <2>3. AcksFlashed(b)' = AcksFlashed(b) /\ Fresh(b)' = Fresh(b)
        BY <1>2, <1>4, <2>1 DEF AcksFlashed, Fresh
    <2>4. ~Over(b)
        BY <1>3 DEF Over
    <2>5. Session(b)' /\ (Receiving' => rSrc' = b)
        BY <1>1, <2>1, <2>2, <2>3, <2>4 DEF Session, Alone
    <2> QED BY <1>4, <2>5, DeviceTakes
<1>5. ASSUME ~Receiving PROVE Fresh(b)
    BY <1>1, <1>3, <1>5 DEF Session, Over
<1>6. CASE ~Receiving /\ fail(b, "FINAL_FLASH", 1)
    <2> DEFINE a == FinalAck("FINAL_FLASH", 1)
    <2>1. a \in AckSet /\ a.status # "WINDOW"
        BY AcksTyped DEF Finals
    <2>2. sendAck(b, a, 2) /\ rState' = "FAILED"
        BY <1>6 DEF fail
    <2> HIDE DEF a
    <2>3. /\ \A c \in Boxes \ {b} : acks'[c] = acks[c]
          /\ \A k \in DOMAIN acks'[b] :
              acks'[b][k] = a \/ \E j \in DOMAIN acks[b] : acks'[b][k] = acks[b][j]
        BY <2>1, <2>2, AckAdded
    <2>4. Fresh(b)'
        BY <1>2, <1>5, <1>6, <2>1, <2>3 DEF Fresh
    <2>5. Session(b)' /\ ~Receiving'
        BY <2>2, <2>4 DEF Session, Receiving
    <2> QED BY <2>3, <2>5, DeviceTakes
<1>7. CASE /\ ~Receiving /\ rImg' = img /\ rSrc' = b /\ rState' = "RECEIVING"
           /\ rWindow' = 0 /\ winBuf' = NoFrames /\ UNCHANGED acks
    <2>1. Fresh(b)
        BY <1>5, <1>7
    <2>2. Synced(b)' /\ AcksFlashed(b)'
        BY <1>2, <1>7, <2>1 DEF Fresh, Synced, AcksFlashed
    <2>3. Gapped'
        BY <1>7, GappedWhenEmpty
    <2>4. Session(b)'
        BY <1>7, <2>2, <2>3 DEF Session, Receiving
    <2> QED BY <1>7, <2>4, DeviceTakes
<1> QED BY <1>1, <1>4, <1>6, <1>7 DEF onBegin, Alone

\* PUSH_END asks for what is missing, or ends the session for good.
LEMMA EndKeepsPush ==
    ASSUME TypeOK, Carries(Images), NEW b \in Boxes, SinglePush(b),
           onEnd(b), UNCHANGED <<svars, queue, air>>,
           ring # <<>>, ring' = Tail(ring), Head(ring).packet.kind = "END"
    PROVE  SinglePush(b)'
<1>1. Alone(b) /\ EndsLast(b) /\ Session(b)
    BY DEF SinglePush
<1>2. UNCHANGED <<sWindow, endSent>>
    BY DEF svars
<1>3. /\ endSent[b] /\ ~AirHas(b, "BEGIN")
      /\ \A k \in DOMAIN ring' : k + 1 \in DOMAIN ring /\ ring'[k] = ring[k + 1]
                                /\ ring'[k].packet.kind # "BEGIN"
    <2> DEFINE R == [box : Boxes, packet : Controls(Images)]
    <2>1. ring \in Seq(R)
        BY DEF Carries
    <2> HIDE DEF R
    <2>2. 1 \in DOMAIN ring /\ Head(ring) = ring[1]
        BY <2>1, LenProperties, EmptySeq
    <2>3. /\ DOMAIN ring' \subseteq Nat /\ \A k \in DOMAIN ring' : k >= 1
          /\ \A k \in DOMAIN ring' : k + 1 \in DOMAIN ring /\ ring'[k] = ring[k + 1]
        BY <2>1, TailTyped, LenProperties
    <2>4. \A k \in DOMAIN ring' : 1 < k + 1
        BY <2>3
    <2> QED BY <1>1, <2>2, <2>3, <2>4 DEF EndsLast, RingHas
<1>4. Over(b)'
    BY <1>2, <1>3 DEF Over, RingHas, AirHas
<1>5. CASE UNCHANGED <<rvars, acks>>
    <2>1. UNCHANGED <<rState, rImg, rSrc, rWindow, winBuf>>
        BY <1>5 DEF rvars
    <2>2. Receiving' = Receiving /\ Gapped' = Gapped /\ Synced(b)' = Synced(b)
        BY <1>2, <2>1 DEF Receiving, Gapped, windowExpectMask, Synced
    <2>3. AcksFlashed(b)' = AcksFlashed(b)
        BY <1>5, <2>1 DEF AcksFlashed
    <2>4. Session(b)' /\ (Receiving' => rSrc' = b)
        BY <1>1, <1>4, <2>1, <2>2, <2>3 DEF Session, Alone
    <2> QED BY <1>5, <2>4, DeviceTakes
<1>6. CASE /\ Receiving /\ UNCHANGED <<rImg, rSrc, rWindow, winBuf, rState>>
           /\ rWindow * W < Frames[rImg]
           /\ sendAck(b, WindowAck(rWindow, windowExpectMask \ DOMAIN winBuf), 1)
    BY <1>1, <1>6, AskKeepsPush
<1>7. CASE Receiving /\ b = rSrc /\ Finalize(b)
    <2>1. PICK a \in AckSet : sendAck(b, a, 2) /\ rState' \in {"FAILED", "DONE"}
        <3>1. /\ FinalAck("FINAL_CRC", 0) \in AckSet /\ FinalAck("FINAL_FLASH", 1) \in AckSet
              /\ FinalAck("FINAL_OK", 0) \in AckSet
            BY AcksTyped DEF Finals
        <3> QED BY <1>7, <3>1 DEF Finalize, fail, BootIt
    <2>2. \A c \in Boxes \ {b} : acks'[c] = acks[c]
        BY <2>1, AckAdded
    <2>3. Session(b)' /\ ~Receiving'
        BY <1>4, <2>1 DEF Session, Receiving
    <2> QED BY <2>2, <2>3, DeviceTakes
<1> QED BY <1>5, <1>6, <1>7 DEF onEnd

\* A frame the window takes is of the window the box is in, and of the image.
LEMMA FrameOfBoxWindow ==
    ASSUME TypeOK, Carries(Images), NEW img \in Images, Carries({img}),
           NEW b \in Boxes, SinglePush(b), Receiving, queue # <<>>
    PROVE  LET frame == Head(queue) IN
           /\ frame \in FramesOf({img}) /\ frame[2] \in Nat /\ rImg = img
           /\ ~IsFlashed(frame) => /\ rWindow = sWindow[b]
                                   /\ ~IsFuture(frame) => rWindow * W < Frames[rImg]
<1> DEFINE frame == Head(queue)
<1>1. rWindow \in Nat /\ sWindow[b] \in Nat /\ queue \in Seq(FramesOf({img})) /\ rImg = img
    BY DEF TypeOK, Carries, Receiving
<1>2. frame \in FramesOf({img}) /\ 1 \in DOMAIN queue /\ frame = queue[1]
    BY <1>1, TailTyped, LenProperties, EmptySeq
<1>3. frame[2] \in Nat /\ frame[2] < Frames[img]
    BY <1>2, FramesOfDef
<1>4. frame[2] < (sWindow[b] + 1) * W /\ sWindow[b] <= rWindow /\ rWindow <= sWindow[b] + 1
    BY <1>2 DEF SinglePush, Paced, Session, Synced
<1> HIDE DEF frame
<1>5. ASSUME ~IsFlashed(frame) PROVE rWindow = sWindow[b] /\ rWindow * W < Frames[rImg]
    <2> DEFINE at == rWindow * W
    <2>1. at \in Nat /\ at <= frame[2]
        BY <1>1, <1>3, <1>5, Windows DEF IsFlashed
    <2>2. rWindow # sWindow[b] + 1
        BY <1>3, <1>4, <2>1
    <2>3. rWindow = sWindow[b]
        BY <1>1, <1>4, <2>2
    <2> HIDE DEF at
    <2>4. at < Frames[img]
        BY <1>3, <2>1
    <2> QED BY <1>1, <2>3, <2>4 DEF at
<1> QED BY <1>1, <1>2, <1>3, <1>5 DEF frame

\* loop() takes a frame: the device moves on to the next window only when the
\* box is still in this one.
LEMMA DrainKeepsPush ==
    ASSUME TypeOK, Carries(Images), NEW img \in Images, Carries({img}), FlashWorks,
           NEW b \in Boxes, SinglePush(b), DrainFrame
    PROVE  SinglePush(b)'
<1> DEFINE frame == Head(queue)
<1>1. /\ Receiving /\ queue # <<>> /\ queue' = Tail(queue)
      /\ UNCHANGED <<svars, rImg, rSrc, ring, air>>
      /\ sWindow' = sWindow
    BY DEF DrainFrame, svars
<1>2. /\ Synced(b) /\ AcksFlashed(b) /\ Gapped /\ rSrc = b
      /\ rWindow \in 0..MaxWindow /\ rWindow \in Nat /\ rImg \in Images
    BY <1>1 DEF SinglePush, Session, Alone, TypeOK, Carries, Receiving
<1>3. /\ frame[2] \in Nat
      /\ ~IsFlashed(frame) => /\ rWindow = sWindow[b]
                              /\ ~IsFuture(frame) => rWindow * W < Frames[rImg]
    BY <1>1, FrameOfBoxWindow
<1>4. \/ IsFlashed(frame) /\ ReAck(frame)
      \/ UNCHANGED <<rState, rWindow, winBuf, written, boot, acks>>
      \/ ~IsFlashed(frame) /\ ~IsFuture(frame) /\ Store(frame)
    BY DEF DrainFrame
<1> HIDE DEF frame
<1>5. ASSUME UNCHANGED <<rState, rWindow, winBuf>>
      PROVE  Receiving' /\ Synced(b)' /\ Gapped'
    BY <1>1, <1>2, <1>5 DEF Receiving, Synced, Gapped, windowExpectMask
<1>6. CASE UNCHANGED <<rState, rWindow, winBuf, written, boot, acks>>
    <2>1. AcksFlashed(b)'
        BY <1>2, <1>6 DEF AcksFlashed
    <2>2. Session(b)'
        BY <1>5, <1>6, <2>1 DEF Session
    <2> QED BY <1>1, <1>2, <1>6, <2>2, DeviceTakes
<1>7. CASE /\ IsFlashed(frame) /\ UNCHANGED <<rState, rWindow, winBuf>>
           /\ sendAck(rSrc, WindowAck(frame[2] \div W, {}), 1)
    <2> DEFINE w == frame[2] \div W
               a == WindowAck(w, {})
    <2>1. w \in Nat /\ w < rWindow
        BY <1>2, <1>3, <1>7, Windows DEF IsFlashed
    <2>2. a \in AckSet /\ a.window < rWindow
        <3> HIDE DEF w
        <3>1. w \in 0..MaxWindow /\ {} \in SUBSET Slots
            BY <1>2, <2>1, MaxWindowIsBig
        <3> QED BY <2>1, <3>1, AcksTyped
    <2>3. sendAck(b, a, 1)
        BY <1>2, <1>7
    <2> HIDE DEF a
    <2>4. /\ \A c \in Boxes \ {b} : acks'[c] = acks[c]
          /\ \A k \in DOMAIN acks'[b] :
              acks'[b][k] = a \/ \E j \in DOMAIN acks[b] : acks'[b][k] = acks[b][j]
        BY <2>2, <2>3, AckAdded
    <2>5. AcksFlashed(b)'
        BY <1>2, <1>7, <2>2, <2>4 DEF AcksFlashed
    <2>6. Session(b)'
        BY <1>5, <1>7, <2>5 DEF Session
    <2> QED BY <1>1, <1>2, <2>4, <2>6, DeviceTakes
<1>8. CASE ~IsFlashed(frame) /\ ~IsFuture(frame) /\ Store(frame)
    <2> DEFINE buf == Joined(frame)
    <2>1. \/ windowExpectMask \subseteq DOMAIN buf /\ finishWindow(buf)
          \/ /\ ~(windowExpectMask \subseteq DOMAIN buf)
             /\ winBuf' = buf /\ UNCHANGED <<rState, rWindow, acks>>
        BY <1>8 DEF Store, Joined
    <2> HIDE DEF buf
    <2>2. CASE /\ ~(windowExpectMask \subseteq DOMAIN buf)
               /\ winBuf' = buf /\ UNCHANGED <<rState, rWindow, acks>>
        <3>1. Gapped'
            BY <1>1, <2>2 DEF Gapped, windowExpectMask
        <3>2. Receiving' /\ Synced(b)' /\ AcksFlashed(b)'
            BY <1>1, <1>2, <2>2 DEF Receiving, Synced, AcksFlashed
        <3>3. Session(b)'
            BY <3>1, <3>2 DEF Session
        <3> QED BY <1>1, <1>2, <2>2, <3>3, DeviceTakes
    <2>3. CASE finishWindow(buf)
        <3>1. ~TooLarge
            BY <1>2, <1>3, <1>8, MaskHasFirst
        <3>2. FlashWindow(buf) /\ winBuf' = NoFrames
            BY <2>3, <3>1 DEF finishWindow, WriteFails, FlashWorks
        <3> DEFINE a == WindowAck(rWindow, {})
        <3>3. a \in AckSet /\ a.window = rWindow
            BY <1>2, {} \in SUBSET Slots, AcksTyped
        <3>4. sendAck(b, a, 2) /\ rWindow' = rWindow + 1 /\ UNCHANGED rState
            BY <1>2, <3>2 DEF FlashWindow
        <3> HIDE DEF a
        <3>5. /\ \A c \in Boxes \ {b} : acks'[c] = acks[c]
              /\ \A k \in DOMAIN acks'[b] :
                  acks'[b][k] = a \/ \E j \in DOMAIN acks[b] : acks'[b][k] = acks[b][j]
            BY <3>3, <3>4, AckAdded
        <3>6. Synced(b)'
            BY <1>1, <1>2, <1>3, <1>8, <3>4 DEF Synced
        <3>7. AcksFlashed(b)'
            <4>1. \A k \in DOMAIN acks[b] : acks[b][k].status = "WINDOW" => acks[b][k].window \in Int
                <5>1. acks[b] \in Seq(AckSet)
                    BY DEF TypeOK
                <5>2. \A k \in DOMAIN acks[b] : acks[b][k] \in AckSet
                    BY <5>1, LenProperties, ElementOfSeq
                <5> QED BY <5>2, MaxWindowIsBig DEF AckSet
            <4> QED BY <1>2, <3>3, <3>4, <3>5, <4>1 DEF AcksFlashed
        <3>8. Gapped'
            BY <1>1, <1>2, <3>2, <3>4, GappedWhenEmpty
        <3>9. Session(b)' /\ (Receiving' => rSrc' = b)
            BY <1>1, <1>2, <3>4, <3>6, <3>7, <3>8 DEF Session, Receiving
        <3> QED BY <1>1, <3>5, <3>9, DeviceTakes
    <2> QED BY <2>1, <2>2, <2>3
<1> QED BY <1>4, <1>6, <1>7, <1>8 DEF ReAck

\* loop() asks again.
LEMMA PeriodicKeepsPush ==
    ASSUME TypeOK, Carries(Images), NEW img \in Images, Carries({img}), Placed,
           NEW b \in Boxes, SinglePush(b), PeriodicAck
    PROVE  SinglePush(b)'
<1>1. /\ Receiving /\ DOMAIN winBuf # {}
      /\ sendAck(rSrc, WindowAck(rWindow, windowExpectMask \ DOMAIN winBuf), 1)
      /\ UNCHANGED <<svars, queue, air>> /\ UNCHANGED <<rState, rImg, rSrc, rWindow, winBuf>>
      /\ ring' = ring
    BY DEF PeriodicAck, rvars
<1>2. rSrc = b /\ rImg = img /\ rWindow \in Nat
    BY <1>1 DEF SinglePush, Alone, Carries, TypeOK, Receiving
<1>3. rWindow * W < Frames[rImg]
    <2>1. PICK i \in DOMAIN winBuf : TRUE
        BY <1>1
    <2>2. i \in Nat /\ winBuf[i] \in FramesOf({img}) /\ winBuf[i][2] = rWindow * W + i
        <3>1. i \in Nat
            BY DEF TypeOK, Slots
        <3>2. winBuf[i] \in FramesOf({img})
            BY DEF Carries
        <3>3. winBuf[i][2] = rWindow * W + i
            BY <1>1 DEF Placed
        <3> QED BY <3>1, <3>2, <3>3
    <2>3. winBuf[i][2] < Frames[img]
        BY <2>2, FramesOfDef
    <2> DEFINE at == rWindow * W
    <2>4. at \in Nat /\ at + i < Frames[img]
        BY <1>2, <2>2, <2>3, Windows
    <2> HIDE DEF at
    <2>5. at < Frames[img]
        BY <2>2, <2>4
    <2> QED BY <1>2, <2>5 DEF at
<1> QED BY <1>1, <1>2, <1>3, AskKeepsPush

\* The first push of all.
LEMMA StartBeginsPush ==
    ASSUME TypeOK, Carries(Images), Quiet, NEW b \in Boxes, NEW img \in Images, start(b, img)
    PROVE  SinglePush(b)'
<1>1. /\ SendWindow(b, img, <<Begin(img)>>, 0, Slots, "NONE")
      /\ sWindow' = [sWindow EXCEPT ![b] = 0] /\ endSent' = [endSent EXCEPT ![b] = FALSE]
      /\ UNCHANGED <<rState, queue, ring, acks>>
    BY DEF start, rvars
<1>2. sWindow'[b] = 0 /\ ~endSent'[b]
    BY <1>1 DEF TypeOK
<1>3. /\ \A c \in Boxes : sState[c] = "IDLE" /\ air[c] = <<>> /\ acks[c] = <<>>
      /\ ring' = <<>> /\ queue' = <<>> /\ ~Receiving' /\ acks'[b] = <<>>
    BY <1>1 DEF Quiet, Receiving
<1>4. Sent(b, {"BEGIN"}) /\ \A c \in Boxes \ {b} : sState'[c] = sState[c] /\ air'[c] = air[c]
    <2>1. Begin(img) \in Controls(Images) /\ Begin(img).kind = "BEGIN"
        BY DEF Begin, Controls
    <2>2. <<Begin(img)>> \in Seq(Controls(Images))
          /\ \A k \in DOMAIN <<Begin(img)>> : <<Begin(img)>>[k].kind \in {"BEGIN"} \ {"DATA"}
        BY <2>1
    <2> QED BY <1>1, <1>2, <2>2, SendWindowSends
<1>5. \A k \in DOMAIN air'[b] :
        \/ air'[b][k].kind = "BEGIN"
        \/ air'[b][k].kind = "DATA" /\ air'[b][k].frame[2] < (sWindow'[b] + 1) * W
    BY <1>3, <1>4 DEF Sent
<1>6. Alone(b)'
    BY <1>1, <1>3, <1>4 DEF Alone
<1>7. Paced(b)'
    BY <1>3, <1>5 DEF Paced
<1>8. EndsLast(b)'
    BY <1>2, <1>3, <1>5 DEF EndsLast, RingHas, AirHas
<1>9. Session(b)'
    BY <1>2, <1>3 DEF Session, Fresh
<1> QED BY <1>6, <1>7, <1>8, <1>9 DEF SinglePush

-----------------------------------------------------------------------------
(* The invariant.                                                          *)

\* A step of a single push on a device that stays on.
LEMMA PushStep ==
    ASSUME PushInv, PushInv', FlashWorks, pushes = 1, pushes' = 1, reboots' = 0,
           NEW b \in Boxes, SinglePush(b), [Next]_vars
    PROVE  SinglePush(b)'
<1>1. TypeOK /\ Carries(Images) /\ OneImage /\ Placed /\ Carries(Images)'
    BY DEF PushInv
<1>2. PICK img \in Images : Carries({img})
    BY <1>1 DEF OneImage
<1>3. endSent[b] => gotAnyAck[b]
    BY DEF SinglePush, EndsLast
<1>4. \A c \in Boxes \ {b} : sState[c] = "IDLE" /\ air[c] = <<>> /\ acks[c] = <<>>
    BY DEF SinglePush, Alone
<1>5. ASSUME NEW c \in Boxes, NEW i \in Images, start(c, i) PROVE SinglePush(b)'
    BY <1>5 DEF start
<1>6. ASSUME NEW c \in Boxes, onAck(c) PROVE SinglePush(b)'
    <2>1. c = b
        BY <1>4, <1>6 DEF onAck
    <2> QED BY <1>1, <1>3, <1>6, <2>1, OnAckEffect, BoxKeepsPush
<1>7. ASSUME NEW c \in Boxes, Timeout(c) PROVE SinglePush(b)'
    <2>1. c = b
        BY <1>4, <1>7 DEF Timeout
    <2> QED BY <1>1, <1>3, <1>7, <2>1, TimeoutEffect, BoxKeepsPush
<1>8. ASSUME NEW c \in Boxes, Arrive(c) \/ Lose(c) PROVE SinglePush(b)'
    <2>1. c = b
        BY <1>4, <1>8 DEF Arrive, Lose
    <2> QED BY <1>1, <1>8, <2>1, AirKeepsPush
<1>9. ASSUME NEW c \in Boxes, LoseAck(c) PROVE SinglePush(b)'
    <2>1. c = b
        BY <1>4, <1>9 DEF LoseAck
    <2> QED BY <1>1, <1>9, <2>1, LoseAckKeepsPush
<1>10. ASSUME onControl PROVE SinglePush(b)'
    <2> DEFINE R == [box : Boxes, packet : Controls(Images)]
               c == Head(ring)
    <2>1. ring \in Seq(R) /\ ring # <<>> /\ ring' = Tail(ring) /\ UNCHANGED <<svars, queue, air>>
        BY <1>1, <1>10 DEF onControl, receive, Carries
    <2>2. c \in R /\ c.box = b
        <3> HIDE DEF R
        <3>1. c \in R /\ 1 \in DOMAIN ring /\ c = ring[1]
            BY <2>1, TailTyped, LenProperties, EmptySeq
        <3> QED BY <3>1 DEF SinglePush, Alone
    <2>3. CASE c.packet.kind = "BEGIN" /\ onBegin(c.box, c.packet.img)
        <3>1. c.packet.img \in Images
            BY <2>2, <2>3 DEF Controls
        <3> QED BY <1>1, <2>1, <2>2, <2>3, <3>1, BeginKeepsPush
    <2>4. CASE c.packet.kind = "END" /\ onEnd(c.box)
        BY <1>1, <2>1, <2>2, <2>4, EndKeepsPush
    <2> QED BY <1>10, <2>3, <2>4 DEF onControl
<1>11. ASSUME DrainFrame PROVE SinglePush(b)'
    BY <1>1, <1>2, <1>11, DrainKeepsPush
<1>12. ASSUME PeriodicAck PROVE SinglePush(b)'
    BY <1>1, <1>2, <1>12, PeriodicKeepsPush
<1>13. ASSUME Reboot PROVE SinglePush(b)'
    BY <1>1, <1>13 DEF Reboot, TypeOK
<1>14. ASSUME UNCHANGED vars PROVE SinglePush(b)'
    BY <1>14 DEF vars, svars, rvars, SinglePush, Alone, Paced, EndsLast, RingHas, AirHas, Session,
                 Receiving, Synced, AcksFlashed, Gapped, windowExpectMask, Fresh, Over
<1> QED BY <1>5, <1>6, <1>7, <1>8, <1>9, <1>10, <1>11, <1>12, <1>13, <1>14 DEF Next, Box, Device

\* Nothing moves before the first push.
LEMMA QuietStep ==
    ASSUME TypeOK, Quiet, [Next]_vars, pushes = 0, pushes' = 0, reboots' = 0
    PROVE  Quiet'
<1>1. /\ \A c \in Boxes : sState[c] = "IDLE" /\ air[c] = <<>> /\ acks[c] = <<>>
      /\ ring = <<>> /\ queue = <<>> /\ ~Receiving
    BY DEF Quiet, Receiving
<1>2. ASSUME NEW c \in Boxes, NEW i \in Images, start(c, i) PROVE FALSE
    BY <1>2 DEF start
<1>3. ASSUME NEW c \in Boxes, onAck(c) \/ Timeout(c) \/ Arrive(c) \/ Lose(c) \/ LoseAck(c)
      PROVE  FALSE
    BY <1>1, <1>3 DEF onAck, Timeout, Arrive, Lose, LoseAck
<1>4. ASSUME Device PROVE FALSE
    BY <1>1, <1>4 DEF Device, onControl, receive, DrainFrame, PeriodicAck
<1>5. ASSUME Reboot PROVE FALSE
    BY <1>5 DEF Reboot, TypeOK
<1>6. UNCHANGED vars
    BY <1>2, <1>3, <1>4, <1>5 DEF Next, Box
<1> QED BY <1>6 DEF vars, svars, rvars, Quiet

\* A device that restarted once has done so ever after.
LEMMA RebootsCount ==
    ASSUME TypeOK, [Next]_vars, reboots' = 0
    PROVE  reboots = 0
<1>1. ASSUME NEW c \in Boxes, NEW i \in Images, start(c, i) PROVE reboots' = reboots
    BY <1>1 DEF start
<1>2. ASSUME NEW c \in Boxes, onAck(c) \/ Timeout(c) \/ Arrive(c) \/ Lose(c) \/ LoseAck(c)
      PROVE  reboots' = reboots
    BY <1>2 DEF onAck, Timeout, Arrive, Lose, LoseAck
<1>3. ASSUME Device \/ UNCHANGED vars PROVE reboots' = reboots
    BY <1>3 DEF Device, onControl, DrainFrame, PeriodicAck, vars
<1>4. ASSUME Reboot PROVE FALSE
    BY <1>4 DEF Reboot, TypeOK
<1> QED BY <1>1, <1>2, <1>3, <1>4 DEF Next, Box

\* What box, air, ring, queue, acks and device agree on during a single push
\* is invariant.
THEOREM LockstepInvariance == Spec => []LockInv
<1>1. Init => LockInv
    BY DEF Init, LockInv, Quiet
<1>2. PushInv /\ PushInv' /\ LockInv /\ [Next]_vars => LockInv'
    <2> SUFFICES ASSUME PushInv, PushInv', LockInv, [Next]_vars, reboots' = 0, FlashWorks
                 PROVE  (pushes' = 0 => Quiet') /\ (pushes' = 1 => \E b \in Boxes : SinglePush(b)')
        BY DEF LockInv, FlashWorks
    <2>1. TypeOK /\ Carries(Images) /\ pushes \in Nat
        <3>1. TypeOK /\ Carries(Images)
            BY DEF PushInv
        <3> QED BY <3>1 DEF TypeOK
    <2>2. (pushes = 0 => Quiet) /\ (pushes = 1 => \E b \in Boxes : SinglePush(b))
        BY <2>1, RebootsCount DEF LockInv
    <2>3. CASE pushes' = pushes
        <3>1. ASSUME pushes = 0 PROVE Quiet'
            BY <2>1, <2>2, <2>3, <3>1, QuietStep
        <3>2. ASSUME pushes = 1 PROVE \E b \in Boxes : SinglePush(b)'
            BY <2>2, <2>3, <3>2, PushStep
        <3> QED BY <2>3, <3>1, <3>2
    <2>4. ASSUME NEW b \in Boxes, NEW img \in Images, start(b, img)
          PROVE  (pushes' = 0 => Quiet') /\ (pushes' = 1 => \E c \in Boxes : SinglePush(c)')
        <3>1. pushes' = pushes + 1
            BY <2>4 DEF start
        <3>2. ASSUME pushes = 0 PROVE SinglePush(b)'
            BY <2>1, <2>2, <2>4, <3>2, StartBeginsPush
        <3> QED BY <2>1, <3>1, <3>2
    <2> QED BY <2>3, <2>4, PushesCount
<1> QED BY PushInvariance, <1>1, <1>2, PTL DEF Spec

\* In a single push to a device that stays on and can write its flash, the box
\* never leaves a window the device has not flashed, and the device is never
\* more than the one window ahead whose ack the box has not heard.
THEOREM LockstepKept == Spec => []Lockstep
<1>1. PushInv /\ LockInv => Lockstep
    <2> SUFFICES ASSUME PushInv, LockInv, Receiving, pushes <= 1, reboots = 0, FlashWorks
                 PROVE  sWindow[rSrc] <= rWindow /\ rWindow <= sWindow[rSrc] + 1
        BY DEF Lockstep, Receiving
    <2>1. pushes = 0 \/ pushes = 1
        BY DEF PushInv, TypeOK
    <2>2. PICK b \in Boxes : SinglePush(b)
        BY <2>1 DEF LockInv, Quiet, Receiving
    <2> QED BY <2>2 DEF SinglePush, Alone, Session, Synced
<1> QED BY PushInvariance, LockstepInvariance, <1>1, PTL
=============================================================================
