--------------------------- MODULE EspNowPushProofs ---------------------------
(***************************************************************************)
(* Proofs about EspNowPush, for every number of boxes, every set of images *)
(* that fit the flash, every window and ring size and every choice of      *)
(* faults, losses, restarts and interleavings.                             *)
(***************************************************************************)
EXTENDS EspNowPush, SequenceTheorems, FiniteSetTheorems, TLAPS

\* The parameters' types; that images fit the flash is cited where it matters.
LEMMA Parameters ==
    /\ \A img \in Images : Frames[img] \in Nat /\ Frames[img] > 0
    /\ W \in Nat /\ W > 0 /\ RingCap \in Nat /\ QueueCap \in Nat
    /\ MaxRetries \in Nat /\ MaxEndRetries \in Nat
    /\ MaxPushes \in Nat /\ MaxReboots \in Nat
    BY PushAssumption

USE Parameters

-----------------------------------------------------------------------------
(* Frames, packets and acks.                                               *)

\* Window numbers are naturals.
LEMMA MaxWindowIsBig == MaxWindow \in Nat /\ MaxWindow > 2 /\ 0 \in 0..MaxWindow
    BY DEF MaxWindow

\* What a frame is.
LEMMA FramesOfDef ==
    ASSUME NEW S \in SUBSET Images, NEW f
    PROVE  f \in FramesOf(S) <=> \E img \in S, i \in Nat : i < Frames[img] /\ f = <<img, i>>
<1>1. ASSUME f \in FramesOf(S) PROVE \E img \in S, i \in Nat : i < Frames[img] /\ f = <<img, i>>
    <2>1. PICK img \in S : f \in {<<img, i>> : i \in 0..(Frames[img] - 1)}
        BY <1>1 DEF FramesOf
    <2>2. PICK i \in 0..(Frames[img] - 1) : f = <<img, i>>
        BY <2>1
    <2>3. Frames[img] \in Nat
        OBVIOUS
    <2> QED BY <2>1, <2>2, <2>3
<1>2. ASSUME NEW img \in S, NEW i \in Nat, i < Frames[img], f = <<img, i>> PROVE f \in FramesOf(S)
    <2>1. i \in 0..(Frames[img] - 1)
        BY <1>2
    <2> QED BY <1>2, <2>1 DEF FramesOf
<1> QED BY <1>1, <1>2

\* More images, more frames and packets.
LEMMA FramesGrow ==
    ASSUME NEW T, NEW S \in SUBSET T
    PROVE  /\ FramesOf(S) \subseteq FramesOf(T)
           /\ Controls(S) \subseteq Controls(T)
           /\ Datas(S) \subseteq Datas(T)
<1>1. FramesOf(S) \subseteq FramesOf(T)
    BY DEF FramesOf
<1> QED BY <1>1 DEF Controls, Datas

\* The frames of a window are the image's, and lie in that window.
LEMMA WindowDataTyped ==
    ASSUME NEW S \in SUBSET Images, NEW img \in S, NEW w \in Nat, NEW mask,
           NEW frames \in WindowData(img, w, mask)
    PROVE  /\ frames \in Seq(Datas(S))
           /\ \A k \in DOMAIN frames : w * W <= frames[k].frame[2] /\ frames[k].frame[2] < w * W + W
<1> DEFINE a == w * W
           idxs == {i \in a..(a + W - 1) : i - a \in mask /\ i < Frames[img]}
           n == Cardinality(idxs)
<1>1. a \in Nat
    OBVIOUS
<1>2. n \in Nat
    <2> HIDE DEF a
    <2>1. IsFiniteSet(a..(a + W - 1))
        BY <1>1, FS_Interval
    <2>2. idxs \subseteq a..(a + W - 1)
        OBVIOUS
    <2> QED BY <2>1, <2>2, FS_Subset, FS_CardinalityType
<1>3. PICK s \in [1..n -> idxs] : frames = [k \in DOMAIN s |-> Data(<<img, s[k]>>)]
    BY DEF WindowData
<1> HIDE DEF n
<1>4. DOMAIN frames = 1..n /\ \A k \in 1..n : frames[k] = Data(<<img, s[k]>>)
    BY <1>3
<1>5. ASSUME NEW k \in 1..n
      PROVE  frames[k] \in Datas(S) /\ a <= frames[k].frame[2] /\ frames[k].frame[2] < a + W
    <2> HIDE DEF a
    <2>1. s[k] \in Int /\ a <= s[k] /\ s[k] < a + W /\ s[k] < Frames[img]
        BY <1>1, <1>3
    <2>2. <<img, s[k]>> \in FramesOf(S)
        BY <1>1, <2>1, FramesOfDef
    <2> QED BY <1>4, <2>1, <2>2 DEF Data, Datas
<1>6. frames = [k \in 1..n |-> frames[k]]
    BY <1>3, <1>4
<1>7. frames \in [1..n -> Datas(S)]
    BY <1>5, <1>6
<1> QED BY <1>2, <1>4, <1>5, <1>7, SeqDef

\* The packets a box sends are of the image it sends; a failed read ends the push.
LEMMA SendWindowTyped ==
    ASSUME TypeOK, NEW S \in SUBSET Images, air \in [Boxes -> Seq(Controls(S) \cup Datas(S))],
           NEW b \in Boxes, NEW img \in S, NEW pre \in Seq(Controls(S)), NEW w \in Nat, NEW mask,
           NEW status \in Statuses, SendWindow(b, img, pre, w, mask, status)
    PROVE  /\ air' \in [Boxes -> Seq(Controls(S) \cup Datas(S))]
           /\ \E st \in {"PUSHING", "FAILED"} : sState' = [sState EXCEPT ![b] = st]
           /\ finalStatus' \in [Boxes -> Statuses]
<1> DEFINE P == Controls(S) \cup Datas(S)
<1>1. PICK frames \in WindowData(img, w, mask) :
        \/ /\ air' = [air EXCEPT ![b] = @ \o pre \o frames]
           /\ sState' = [sState EXCEPT ![b] = "PUSHING"]
           /\ finalStatus' = [finalStatus EXCEPT ![b] = status]
        \/ /\ \E k \in 0..(Len(frames) - 1) :
                air' = [air EXCEPT ![b] = @ \o pre \o SubSeq(frames, 1, k)]
           /\ sState' = [sState EXCEPT ![b] = "FAILED"]
           /\ finalStatus' = [finalStatus EXCEPT ![b] = "FINAL_FLASH"]
    BY DEF SendWindow
<1>2. frames \in Seq(P) /\ pre \in Seq(P)
    BY WindowDataTyped, SeqMonotonic
<1>3. ASSUME NEW q \in Seq(P) PROVE air[b] \o pre \o q \in Seq(P)
    <2> HIDE DEF P
    <2>1. air[b] \in Seq(P)
        BY DEF P
    <2>2. air[b] \o pre \in Seq(P)
        BY <1>2, <2>1, ConcatProperties
    <2> QED BY <2>2, ConcatProperties
<1>4. ASSUME NEW k \in 0..(Len(frames) - 1) PROVE SubSeq(frames, 1, k) \in Seq(P)
    <2> HIDE DEF P
    <2>1. \A i \in 1..k : frames[i] \in P
        BY <1>2, ElementOfSeq
    <2> QED BY <2>1, SubSeqProperties
<1>5. air' \in [Boxes -> Seq(P)]
    <2> HIDE DEF P
    <2>1. PICK q \in Seq(P) : air' = [air EXCEPT ![b] = air[b] \o pre \o q]
        <3>1. CASE air' = [air EXCEPT ![b] = @ \o pre \o frames]
            BY <1>2, <3>1
        <3>2. CASE \E k \in 0..(Len(frames) - 1) :
                        air' = [air EXCEPT ![b] = @ \o pre \o SubSeq(frames, 1, k)]
            BY <1>4, <3>2
        <3> QED BY <1>1, <3>1, <3>2
    <2> QED BY <1>3, <2>1 DEF P
<1>6. finalStatus' \in [Boxes -> Statuses]
    <2>1. "FINAL_FLASH" \in Statuses
        BY DEF Statuses, Finals
    <2>2. finalStatus \in [Boxes -> Statuses]
        BY DEF TypeOK
    <2>3. \/ finalStatus' = [finalStatus EXCEPT ![b] = status]
          \/ finalStatus' = [finalStatus EXCEPT ![b] = "FINAL_FLASH"]
        BY <1>1
    <2> QED BY <2>1, <2>2, <2>3
<1> QED BY <1>1, <1>5, <1>6

\* The device's acks: their copies fit the box's ring.
LEMMA SendAckTyped ==
    ASSUME TypeOK, NEW b \in Boxes, NEW a \in AckSet, NEW n \in Nat, sendAck(b, a, n)
    PROVE  /\ acks' \in [Boxes -> Seq(AckSet)]
           /\ \A c \in Boxes : Len(acks'[c]) <= RingCap
           /\ \A c \in Boxes : \A k \in DOMAIN acks'[c] :
                \/ k \in DOMAIN acks[c] /\ acks'[c][k] = acks[c][k]
                \/ c = b /\ acks'[c][k] = a
<1> DEFINE m == IF n < RingCap - Len(acks[b]) THEN n ELSE RingCap - Len(acks[b])
           copies == [k \in 1..m |-> a]
<1>1. acks[b] \in Seq(AckSet) /\ Len(acks[b]) \in Nat /\ Len(acks[b]) <= RingCap
    BY LenProperties DEF TypeOK
<1>2. m \in Nat /\ Len(acks[b]) + m <= RingCap
    <2>1. \A l \in Nat : l <= RingCap =>
            LET r == IF n < RingCap - l THEN n ELSE RingCap - l IN r \in Nat /\ l + r <= RingCap
        BY SMT
    <2> QED BY <1>1, <2>1
<1>3. acks' = [acks EXCEPT ![b] = acks[b] \o copies]
    BY DEF sendAck
<1> HIDE DEF m
<1>4. copies \in Seq(AckSet) /\ Len(copies) = m /\ \A k \in 1..m : copies[k] = a
    BY <1>2
<1> HIDE DEF copies
<1> DEFINE q == acks[b] \o copies
<1>5. /\ q \in Seq(AckSet) /\ Len(q) = Len(acks[b]) + m
      /\ \A k \in 1..(Len(acks[b]) + m) :
            q[k] = IF k <= Len(acks[b]) THEN acks[b][k] ELSE copies[k - Len(acks[b])]
    BY <1>1, <1>4, ConcatProperties
<1>6. ASSUME NEW k \in DOMAIN q PROVE (k \in DOMAIN acks[b] /\ q[k] = acks[b][k]) \/ q[k] = a
    BY <1>1, <1>2, <1>4, <1>5, LenProperties
<1> HIDE DEF q
<1>7. acks' = [acks EXCEPT ![b] = q] /\ Len(q) <= RingCap
    BY <1>2, <1>3, <1>5 DEF q
<1> QED BY <1>5, <1>6, <1>7 DEF TypeOK

\* A packet leaves a queue.
LEMMA TailTyped ==
    ASSUME NEW T, NEW q \in Seq(T), q # <<>>
    PROVE  /\ Head(q) \in T /\ Tail(q) \in Seq(T)
           /\ Len(Tail(q)) < Len(q)
           /\ \A k \in DOMAIN Tail(q) : k + 1 \in DOMAIN q /\ Tail(q)[k] = q[k + 1]
    BY HeadTailProperties, LenProperties, EmptySeq

-----------------------------------------------------------------------------
(* The box's steps.  S is any set of images that names every image there   *)
(* is: Images for the types, one image while there was a single push.      *)

\* Nothing new is heard of a boot slot that stays as it is.
LEMMA BootStays ==
    ASSUME NEW S, Carries(S), boot' = boot, \A c \in Boxes : FinalOkHeard(c)' => FinalOkHeard(c)
    PROVE  /\ boot' = Old \/ Booted(S)'
           /\ (\E b \in Boxes : FinalOkHeard(b)') => Booted(S)'
    BY DEF Carries, Booted

\* The device is not involved.
LEMMA DeviceStays ==
    ASSUME NEW S, Carries(S), UNCHANGED <<rvars, queue, ring>>
    PROVE  /\ ring' \in Seq([box : Boxes, packet : Controls(S)])
           /\ queue' \in Seq(FramesOf(S))
           /\ rImg' \in S \/ (rImg' = NoImage /\ rState' = "IDLE")
           /\ \A i \in DOMAIN winBuf' : winBuf'[i] \in FramesOf(S)
           /\ written' \in Seq(FramesOf(S))
    BY DEF Carries, rvars

\* A push starts.
LEMMA StartKeeps ==
    ASSUME TypeOK, Bounded, NEW S \in SUBSET Images, Carries(S),
           NEW b \in Boxes, NEW img \in S, start(b, img)
    PROVE  TypeOK' /\ Bounded' /\ Carries(S)'
<1>1. air \in [Boxes -> Seq(Controls(S) \cup Datas(S))] /\ <<Begin(img)>> \in Seq(Controls(S))
    <2>1. Begin(img) \in Controls(S)
        BY DEF Begin, Controls
    <2> QED BY <2>1 DEF Carries
<1>2. SendWindow(b, img, <<Begin(img)>>, 0, Slots, "NONE") /\ "NONE" \in Statuses
    BY DEF start, Statuses
<1>3. PICK st \in {"PUSHING", "FAILED"} : sState' = [sState EXCEPT ![b] = st]
    BY <1>1, <1>2, SendWindowTyped
<1>4. air' \in [Boxes -> Seq(Controls(S) \cup Datas(S))] /\ finalStatus' \in [Boxes -> Statuses]
    BY <1>1, <1>2, SendWindowTyped
<1>5. /\ sImg' = [sImg EXCEPT ![b] = img]
      /\ sWindow' = [sWindow EXCEPT ![b] = 0]
      /\ gotAnyAck' = [gotAnyAck EXCEPT ![b] = FALSE]
      /\ endSent' = [endSent EXCEPT ![b] = FALSE]
      /\ retries' = [retries EXCEPT ![b] = 0]
      /\ pushes < MaxPushes /\ pushes' = pushes + 1
      /\ UNCHANGED <<finalDetail, rvars, queue, inLoop, ring, acks, reboots>>
    BY DEF start
<1>6. TypeOK'
    <2>1. \A c \in Boxes : retries'[c] <= 1 + IF endSent'[c] THEN MaxEndRetries ELSE MaxRetries
        BY <1>5 DEF TypeOK
    <2>2. retries' \in [Boxes -> Nat] /\ pushes' \in 0..MaxPushes
        BY <1>5 DEF TypeOK
    <2>3. sWindow' \in [Boxes -> 0..MaxWindow] /\ sImg' \in [Boxes -> Images \cup {NoImage}]
        BY <1>5, MaxWindowIsBig DEF TypeOK
    <2> QED BY <1>3, <1>4, <1>5, <2>1, <2>2, <2>3 DEF TypeOK, rvars
<1>7. Bounded'
    <2>1. \A c \in Boxes : sState'[c] = "PUSHING" =>
            retries'[c] <= IF endSent'[c] THEN MaxEndRetries ELSE MaxRetries
        BY <1>3, <1>5 DEF TypeOK, Bounded
    <2> QED BY <1>5, <2>1 DEF Bounded, Receiving, rvars
<1>8. Carries(S)'
    <2>1. \A c \in Boxes : FinalOkHeard(c)' => FinalOkHeard(c)
        BY <1>3, <1>5 DEF TypeOK, FinalOkHeard
    <2>2. boot' = boot
        BY <1>5 DEF rvars
    <2>3. \A c \in Boxes : sImg'[c] \in S \/ (sImg'[c] = NoImage /\ sState'[c] = "IDLE")
        BY <1>3, <1>5 DEF TypeOK, Carries
    <2> QED BY <1>4, <1>5, <2>1, <2>2, <2>3, BootStays, DeviceStays DEF Carries
<1> QED BY <1>6, <1>7, <1>8

\* The deadline passes.
LEMMA TimeoutKeeps ==
    ASSUME TypeOK, Bounded, NEW S \in SUBSET Images, Carries(S), NEW b \in Boxes, Timeout(b)
    PROVE  TypeOK' /\ Bounded' /\ Carries(S)'
<1> DEFINE Max == IF endSent[b] THEN MaxEndRetries ELSE MaxRetries
<1>1. air \in [Boxes -> Seq(Controls(S) \cup Datas(S))] /\ sImg[b] \in S /\ sWindow[b] \in Nat
    BY DEF Timeout, Carries, TypeOK
<1>2. /\ retries' = [retries EXCEPT ![b] = retries[b] + 1] /\ sState[b] = "PUSHING"
      /\ UNCHANGED <<sImg, sWindow, gotAnyAck, endSent, finalDetail, rvars, queue, inLoop, ring,
                     acks, pushes, reboots>>
    BY DEF Timeout
<1>3. \E st \in {"PUSHING", "FAILED"} :
        /\ sState' = [sState EXCEPT ![b] = st]
        /\ air' \in [Boxes -> Seq(Controls(S) \cup Datas(S))]
        /\ finalStatus' \in [Boxes -> Statuses]
        /\ st = "PUSHING" => retries[b] + 1 <= Max
    <2>1. CASE /\ retries[b] + 1 > Max
               /\ sState' = [sState EXCEPT ![b] = "FAILED"]
               /\ finalStatus' = [finalStatus EXCEPT ![b] = "GAVE_UP"]
               /\ UNCHANGED air
        <3>1. "GAVE_UP" \in Statuses
            BY DEF Statuses
        <3> QED BY <1>1, <2>1, <3>1 DEF TypeOK
    <2>2. CASE /\ ~(retries[b] + 1 > Max)
               /\ air' = [air EXCEPT ![b] = <<End>>]
               /\ UNCHANGED <<sState, finalStatus>>
        <3>1. <<End>> \in Seq(Controls(S) \cup Datas(S))
            BY DEF End, Controls
        <3>2. sState' = [sState EXCEPT ![b] = "PUSHING"]
            BY <1>2, <2>2 DEF TypeOK
        <3> QED BY <1>1, <2>2, <3>1, <3>2 DEF TypeOK
    <2>3. CASE /\ ~(retries[b] + 1 > Max)
               /\ SendWindow(b, sImg[b], Announce(b), sWindow[b], Slots, finalStatus[b])
        <3>1. Announce(b) \in Seq(Controls(S))
            <4>1. Begin(sImg[b]) \in Controls(S)
                BY <1>1 DEF Begin, Controls
            <4>2. <<>> \in Seq(Controls(S)) /\ <<Begin(sImg[b])>> \in Seq(Controls(S))
                BY <4>1
            <4> QED BY <4>2 DEF Announce
        <3>2. finalStatus[b] \in Statuses
            BY DEF TypeOK
        <3>3. /\ air' \in [Boxes -> Seq(Controls(S) \cup Datas(S))]
              /\ \E st \in {"PUSHING", "FAILED"} : sState' = [sState EXCEPT ![b] = st]
              /\ finalStatus' \in [Boxes -> Statuses]
            BY <1>1, <2>3, <3>1, <3>2, SendWindowTyped
        <3>4. retries[b] + 1 <= Max
            BY <2>3 DEF TypeOK
        <3> QED BY <3>3, <3>4
    <2> QED BY <2>1, <2>2, <2>3 DEF Timeout
<1>4. PICK st \in {"PUSHING", "FAILED"} :
        /\ sState' = [sState EXCEPT ![b] = st]
        /\ st = "PUSHING" => retries[b] + 1 <= Max
    BY <1>3
<1>5. retries[b] <= Max /\ Max \in Nat /\ retries[b] \in Nat
    BY <1>2 DEF Bounded, TypeOK
<1>6. TypeOK'
    <2>1. \A c \in Boxes : retries'[c] <= 1 + IF endSent[c] THEN MaxEndRetries ELSE MaxRetries
        BY <1>2, <1>5 DEF TypeOK
    <2>2. retries' \in [Boxes -> Nat]
        BY <1>2, <1>5 DEF TypeOK
    <2> QED BY <1>2, <1>3, <2>1, <2>2 DEF TypeOK, rvars
<1>7. Bounded'
    BY <1>2, <1>4 DEF TypeOK, Bounded, Receiving, rvars
<1>8. Carries(S)'
    <2>1. \A c \in Boxes : FinalOkHeard(c)' => FinalOkHeard(c)
        BY <1>2, <1>4 DEF TypeOK, FinalOkHeard
    <2>2. boot' = boot
        BY <1>2 DEF rvars
    <2>3. \A c \in Boxes : sImg'[c] \in S \/ (sImg'[c] = NoImage /\ sState'[c] = "IDLE")
        BY <1>1, <1>2, <1>4 DEF TypeOK, Carries
    <2> QED BY <1>2, <1>3, <2>1, <2>2, <2>3, BootStays, DeviceStays DEF Carries
<1> QED BY <1>6, <1>7, <1>8

\* A box hears the next ack.
LEMMA OnAckKeeps ==
    ASSUME TypeOK, Bounded, NEW S \in SUBSET Images, Carries(S), NEW b \in Boxes, onAck(b)
    PROVE  TypeOK' /\ Bounded' /\ Carries(S)'
<1> DEFINE a == Head(acks[b])
           Air == [Boxes -> Seq(Controls(S) \cup Datas(S))]
           Effect ==
            /\ sWindow' \in [Boxes -> 0..MaxWindow] /\ air' \in Air
            /\ \E st \in {"IDLE", "PUSHING", "DONE", "FAILED"} :
                /\ sState' = [sState EXCEPT ![b] = st]
                /\ st = "DONE" => sState[b] = "DONE" \/ a.status = "FINAL_OK"
                /\ st = "IDLE" <=> sState[b] = "IDLE"
                /\ st = "PUSHING" => sState[b] = "PUSHING"
            /\ finalStatus' \in [Boxes -> Statuses] /\ finalDetail' \in [Boxes -> {0, 1}]
            /\ endSent' \in [Boxes -> BOOLEAN]
            /\ \A c \in Boxes : endSent'[c] # endSent[c] => c = b /\ sState[b] = "PUSHING"
<1>1. /\ acks[b] \in Seq(AckSet) /\ acks[b] # <<>>
      /\ acks' = [acks EXCEPT ![b] = Tail(acks[b])]
      /\ UNCHANGED <<sImg, rvars, queue, inLoop, ring, pushes, reboots>>
    BY DEF onAck, TypeOK
<1>2. /\ a \in AckSet /\ a = acks[b][1] /\ 1 \in DOMAIN acks[b]
      /\ Tail(acks[b]) \in Seq(AckSet) /\ Len(Tail(acks[b])) <= Len(acks[b])
      /\ \A k \in DOMAIN Tail(acks[b]) : k + 1 \in DOMAIN acks[b] /\ Tail(acks[b])[k] = acks[b][k + 1]
    BY <1>1, TailTyped, LenProperties, EmptySeq
<1>3. /\ air \in Air
      /\ sState[b] = "PUSHING" => sImg[b] \in S
    BY DEF Carries, TypeOK
<1> HIDE DEF a
<1>0. /\ sWindow \in [Boxes -> 0..MaxWindow] /\ endSent \in [Boxes -> BOOLEAN]
      /\ finalStatus \in [Boxes -> Statuses] /\ finalDetail \in [Boxes -> {0, 1}]
      /\ sState \in [Boxes -> {"IDLE", "PUSHING", "DONE", "FAILED"}]
    BY DEF TypeOK
<1>4. Effect
    <2>1. CASE IgnoreAck(b)
        <3>1. sState' = [sState EXCEPT ![b] = sState[b]] /\ sState[b] \in {"IDLE", "PUSHING", "DONE", "FAILED"}
            BY <2>1 DEF IgnoreAck, TypeOK
        <3> QED BY <1>3, <2>1, <3>1 DEF IgnoreAck, TypeOK
    <2>2. CASE sState[b] = "PUSHING" /\ a.status # "WINDOW" /\ EndPush(b, a)
        <3>1. a.status \in Finals /\ a.detail \in {0, 1} /\ a.status \in Statuses
            BY <1>2, <2>2 DEF AckSet, Statuses
        <3>2. finalDetail' \in [Boxes -> {0, 1}] /\ finalStatus' \in [Boxes -> Statuses]
            BY <1>0, <2>2, <3>1 DEF EndPush
        <3>3. \E st \in {"DONE", "FAILED"} :
                sState' = [sState EXCEPT ![b] = st] /\ (st = "DONE" => a.status = "FINAL_OK")
            BY <2>2 DEF EndPush
        <3>4. UNCHANGED <<sWindow, endSent, air>>
            BY <2>2 DEF EndPush
        <3> QED BY <1>0, <1>3, <2>2, <3>2, <3>3, <3>4
    <2>3. ASSUME sState[b] = "PUSHING", a.status = "WINDOW", IsCurrent(b, a), NextWindow(b)
          PROVE  Effect
        <3>1. a.window < MaxWindow /\ sWindow[b] = a.window
            BY <1>2, <2>3 DEF Bounded, IsCurrent, a
        <3>2. sWindow[b] + 1 \in 0..MaxWindow /\ sWindow[b] + 1 \in Nat
            BY <3>1, MaxWindowIsBig DEF TypeOK
        <3>3. sWindow' = [sWindow EXCEPT ![b] = sWindow[b] + 1] /\ UNCHANGED finalDetail
            BY <2>3 DEF NextWindow
        <3>4. CASE /\ air' = [air EXCEPT ![b] = Append(@, End)]
                   /\ endSent' = [endSent EXCEPT ![b] = TRUE]
                   /\ UNCHANGED <<sState, finalStatus>>
            <4>1. End \in Controls(S)
                BY DEF End, Controls
            <4>2. air' \in Air
                BY <1>3, <3>4, <4>1, AppendProperties
            <4>3. sState' = [sState EXCEPT ![b] = "PUSHING"]
                BY <2>3, <3>4 DEF TypeOK
            <4> QED BY <1>0, <2>3, <3>2, <3>3, <3>4, <4>2, <4>3
        <3>5. CASE /\ SendWindow(b, sImg[b], <<>>, sWindow[b] + 1, Slots, finalStatus[b])
                   /\ UNCHANGED endSent
            <4>1. <<>> \in Seq(Controls(S)) /\ finalStatus[b] \in Statuses
                BY DEF TypeOK
            <4>2. /\ air' \in Air
                  /\ \E st \in {"PUSHING", "FAILED"} : sState' = [sState EXCEPT ![b] = st]
                  /\ finalStatus' \in [Boxes -> Statuses]
                BY <1>3, <2>3, <3>2, <3>5, <4>1, SendWindowTyped
            <4> QED BY <1>0, <2>3, <3>2, <3>3, <3>5, <4>2
        <3> QED BY <2>3, <3>4, <3>5 DEF NextWindow
    <2>4. ASSUME sState[b] = "PUSHING", Retransmit(b, a.missing) PROVE Effect
        <3>1. /\ SendWindow(b, sImg[b], <<>>, sWindow[b], a.missing, finalStatus[b])
              /\ UNCHANGED <<sWindow, endSent, finalDetail>>
            BY <2>4 DEF Retransmit
        <3>2. <<>> \in Seq(Controls(S)) /\ finalStatus[b] \in Statuses /\ sWindow[b] \in Nat
            BY DEF TypeOK
        <3>3. /\ air' \in Air
              /\ \E st \in {"PUSHING", "FAILED"} : sState' = [sState EXCEPT ![b] = st]
              /\ finalStatus' \in [Boxes -> Statuses]
            BY <1>3, <2>4, <3>1, <3>2, SendWindowTyped
        <3> QED BY <1>0, <2>4, <3>1, <3>3
    <2> HIDE DEF Effect
    <2> QED BY <2>1, <2>2, <2>3, <2>4 DEF onAck, a
<1>5. PICK st \in {"IDLE", "PUSHING", "DONE", "FAILED"} :
        /\ sState' = [sState EXCEPT ![b] = st]
        /\ st = "DONE" => sState[b] = "DONE" \/ a.status = "FINAL_OK"
        /\ st = "IDLE" <=> sState[b] = "IDLE"
        /\ st = "PUSHING" => sState[b] = "PUSHING"
    BY <1>4
<1>6. /\ gotAnyAck' \in [Boxes -> BOOLEAN] /\ retries' \in [Boxes -> Nat]
      /\ \/ sState[b] = "PUSHING" /\ retries' = [retries EXCEPT ![b] = 0]
         \/ sState[b] # "PUSHING" /\ retries' = retries
    <2>1. gotAnyAck' \in [Boxes -> BOOLEAN]
        <3>1. gotAnyAck' = gotAnyAck \/ gotAnyAck' = [gotAnyAck EXCEPT ![b] = TRUE]
            BY DEF onAck
        <3> QED BY <3>1, Zenon DEF TypeOK
    <2>2. \/ sState[b] = "PUSHING" /\ retries' = [retries EXCEPT ![b] = 0]
          \/ sState[b] # "PUSHING" /\ retries' = retries
        BY DEF onAck
    <2> QED BY <2>1, <2>2 DEF TypeOK
<1>7. TypeOK'
    <2>1. \A c \in Boxes : retries'[c] <= 1 + IF endSent'[c] THEN MaxEndRetries ELSE MaxRetries
        <3> SUFFICES ASSUME NEW c \in Boxes
                     PROVE  retries'[c] <= 1 + IF endSent'[c] THEN MaxEndRetries ELSE MaxRetries
            OBVIOUS
        <3>1. retries[c] \in Nat /\ retries[c] <= 1 + IF endSent[c] THEN MaxEndRetries ELSE MaxRetries
            BY DEF TypeOK
        <3>2. retries'[c] = 0 \/ (retries'[c] = retries[c] /\ endSent'[c] = endSent[c])
            BY <1>4, <1>6 DEF TypeOK
        <3> QED BY <3>1, <3>2
    <2>2. acks' \in [Boxes -> Seq(AckSet)] /\ \A c \in Boxes : Len(acks'[c]) <= RingCap
        <3>1. Len(Tail(acks[b])) <= RingCap
            BY <1>1, <1>2, LenProperties DEF TypeOK
        <3> QED BY <1>1, <1>2, <3>1 DEF TypeOK
    <2>3. sState' \in [Boxes -> {"IDLE", "PUSHING", "DONE", "FAILED"}]
        BY <1>5 DEF TypeOK
    <2> QED BY <1>1, <1>4, <1>6, <2>1, <2>2, <2>3 DEF TypeOK, rvars
<1>8. \A c \in Boxes : \A k \in DOMAIN acks'[c] :
        \E j \in DOMAIN acks[c] : acks'[c][k] = acks[c][j]
    BY <1>1, <1>2 DEF TypeOK
<1>9. Bounded'
    <2>1. \A c \in Boxes : sState'[c] = "PUSHING" =>
            retries'[c] <= IF endSent'[c] THEN MaxEndRetries ELSE MaxRetries
        <3> SUFFICES ASSUME NEW c \in Boxes, sState'[c] = "PUSHING"
                     PROVE  retries'[c] <= IF endSent'[c] THEN MaxEndRetries ELSE MaxRetries
            OBVIOUS
        <3>1. sState[c] = "PUSHING"
            BY <1>0, <1>5
        <3>2. retries'[c] = 0 \/ (retries'[c] = retries[c] /\ endSent'[c] = endSent[c])
            BY <1>4, <1>6 DEF TypeOK
        <3>3. retries[c] <= IF endSent[c] THEN MaxEndRetries ELSE MaxRetries
            BY <3>1 DEF Bounded
        <3> QED BY <3>2, <3>3
    <2>2. \A c \in Boxes : \A k \in DOMAIN acks'[c] :
            acks'[c][k].status = "WINDOW" => acks'[c][k].window < MaxWindow
        BY <1>8 DEF Bounded
    <2> QED BY <1>1, <2>1, <2>2 DEF Bounded, Receiving, rvars
<1>10. Carries(S)'
    <2>1. ASSUME NEW c \in Boxes, FinalOkHeard(c)' PROVE FinalOkHeard(c)
        <3>1. CASE sState'[c] = "DONE"
            <4>1. sState[c] = "DONE" \/ (c = b /\ a.status = "FINAL_OK")
                BY <1>0, <1>5, <3>1
            <4> QED BY <1>2, <4>1 DEF FinalOkHeard
        <3>2. CASE \E k \in DOMAIN acks'[c] : acks'[c][k].status = "FINAL_OK"
            BY <1>8, <3>2 DEF FinalOkHeard
        <3> QED BY <2>1, <3>1, <3>2 DEF FinalOkHeard
    <2>2. boot' = boot
        BY <1>1 DEF rvars
    <2>3. \A c \in Boxes : sImg'[c] \in S \/ (sImg'[c] = NoImage /\ sState'[c] = "IDLE")
        BY <1>1, <1>5 DEF TypeOK, Carries
    <2>4. air' \in Air
        BY <1>4
    <2>5. UNCHANGED <<rvars, queue, ring>>
        BY <1>1
    <2>6. /\ boot' = Old \/ Booted(S)'
          /\ (\E c \in Boxes : FinalOkHeard(c)') => Booted(S)'
        <3>1. \A c \in Boxes : FinalOkHeard(c)' => FinalOkHeard(c)
            BY <2>1
        <3> QED BY <2>2, <3>1, BootStays
    <2> HIDE DEF Effect
    <2> QED BY <2>3, <2>4, <2>5, <2>6, DeviceStays DEF Carries
<1> QED BY <1>7, <1>9, <1>10

-----------------------------------------------------------------------------
(* The air.                                                                *)

\* The boxes are not involved.
LEMMA BoxesStay ==
    ASSUME TypeOK, Bounded, NEW S, Carries(S), UNCHANGED <<svars, rvars, acks>>,
           air' \in [Boxes -> Seq(Controls(S) \cup Datas(S))],
           ring' \in Seq([box : Boxes, packet : Controls(S)]), Len(ring') <= RingCap,
           queue' \in Seq(FramesOf(S)), queue' \in Seq(FrameSet), Len(queue') <= QueueCap,
           inLoop' \in BOOLEAN, UNCHANGED <<pushes, reboots>>
    PROVE  TypeOK' /\ Bounded' /\ Carries(S)'
<1>1. TypeOK'
    BY DEF TypeOK, svars, rvars
<1>2. Bounded'
    BY DEF Bounded, Receiving, svars, rvars
<1>3. Carries(S)'
    BY DEF Carries, FinalOkHeard, Booted, svars, rvars
<1> QED BY <1>1, <1>2, <1>3

\* A packet of box b arrives or is lost.
LEMMA AirKeeps ==
    ASSUME TypeOK, Bounded, NEW S \in SUBSET Images, Carries(S), NEW b \in Boxes,
           Arrive(b) \/ Lose(b)
    PROVE  TypeOK' /\ Bounded' /\ Carries(S)'
<1> DEFINE P == Controls(S) \cup Datas(S)
           p == Head(air[b])
<1>1. air \in [Boxes -> Seq(P)] /\ air[b] # <<>> /\ air' = [air EXCEPT ![b] = Tail(air[b])]
    BY DEF Carries, Arrive, Lose
<1>2. p \in P /\ Tail(air[b]) \in Seq(P)
    <2> HIDE DEF P
    <2> QED BY <1>1, TailTyped
<1>3. air' \in [Boxes -> Seq(P)]
    <2> HIDE DEF P
    <2> QED BY <1>1, <1>2
<1>4. /\ ring \in Seq([box : Boxes, packet : Controls(S)]) /\ Len(ring) <= RingCap
      /\ queue \in Seq(FramesOf(S)) /\ queue \in Seq(FrameSet) /\ Len(queue) <= QueueCap
    BY DEF TypeOK, Carries
<1>5. UNCHANGED <<svars, rvars, inLoop, acks, pushes, reboots>>
    BY DEF Arrive, Lose
<1>6. CASE p.kind # "DATA" /\ Takes(b, p) /\ ring' = Append(ring, [box |-> b, packet |-> p])
           /\ UNCHANGED queue
    <2>1. p \in Controls(S) /\ Len(ring) < RingCap
        BY <1>2, <1>6 DEF Datas, Takes
    <2>2. ring' \in Seq([box : Boxes, packet : Controls(S)]) /\ Len(ring') <= RingCap
        <3> DEFINE c == [box |-> b, packet |-> p]
        <3>1. c \in [box : Boxes, packet : Controls(S)]
            BY <2>1
        <3> HIDE DEF c
        <3>2. ring' = Append(ring, c)
            BY <1>6 DEF c
        <3> QED BY <1>4, <2>1, <3>1, <3>2, AppendProperties, LenProperties
    <2> QED BY <1>3, <1>4, <1>5, <1>6, <2>2, BoxesStay DEF TypeOK
<1>7. CASE p.kind = "DATA" /\ Takes(b, p) /\ queue' = Append(queue, p.frame) /\ UNCHANGED ring
    <2>1. p.frame \in FramesOf(S) /\ p.frame \in FrameSet /\ Len(queue) < QueueCap
        BY <1>2, <1>7, FramesGrow DEF Controls, Datas, Takes, FrameSet
    <2>2. queue' \in Seq(FramesOf(S)) /\ queue' \in Seq(FrameSet) /\ Len(queue') <= QueueCap
        BY <1>4, <1>7, <2>1, AppendProperties, LenProperties
    <2> QED BY <1>3, <1>4, <1>5, <1>7, <2>2, BoxesStay DEF TypeOK
<1>8. CASE UNCHANGED <<ring, queue>>
    BY <1>3, <1>4, <1>5, <1>8, BoxesStay DEF TypeOK
<1> QED BY <1>6, <1>7, <1>8 DEF Arrive, Lose

\* An ack is lost.
LEMMA LoseAckKeeps ==
    ASSUME TypeOK, Bounded, NEW S \in SUBSET Images, Carries(S), NEW b \in Boxes, LoseAck(b)
    PROVE  TypeOK' /\ Bounded' /\ Carries(S)'
<1>1. /\ acks[b] \in Seq(AckSet) /\ acks[b] # <<>>
      /\ acks' = [acks EXCEPT ![b] = Tail(acks[b])]
      /\ UNCHANGED <<svars, rvars, queue, inLoop, ring, air, pushes, reboots>>
    BY DEF LoseAck, TypeOK
<1>2. /\ Tail(acks[b]) \in Seq(AckSet) /\ Len(Tail(acks[b])) <= Len(acks[b])
      /\ \A k \in DOMAIN Tail(acks[b]) : k + 1 \in DOMAIN acks[b] /\ Tail(acks[b])[k] = acks[b][k + 1]
    BY <1>1, TailTyped, LenProperties
<1>3. \A c \in Boxes : \A k \in DOMAIN acks'[c] :
        \E j \in DOMAIN acks[c] : acks'[c][k] = acks[c][j]
    BY <1>1, <1>2 DEF TypeOK
<1>4. TypeOK'
    <2>1. Len(Tail(acks[b])) <= RingCap
        BY <1>1, <1>2, LenProperties DEF TypeOK
    <2>2. acks' \in [Boxes -> Seq(AckSet)] /\ \A c \in Boxes : Len(acks'[c]) <= RingCap
        BY <1>1, <1>2, <2>1 DEF TypeOK
    <2> QED BY <1>1, <2>2 DEF TypeOK, svars, rvars
<1>5. Bounded'
    BY <1>1, <1>3 DEF Bounded, Receiving, svars, rvars
<1>6. Carries(S)'
    <2>1. \A c \in Boxes : FinalOkHeard(c)' => FinalOkHeard(c)
        BY <1>1, <1>3 DEF FinalOkHeard, svars
    <2>2. boot' = boot /\ UNCHANGED <<sImg, sState, air>> /\ UNCHANGED <<rvars, queue, ring>>
        BY <1>1 DEF rvars, svars
    <2> QED BY <2>1, <2>2, BootStays, DeviceStays DEF Carries
<1> QED BY <1>4, <1>5, <1>6

-----------------------------------------------------------------------------
(* The device's steps.                                                     *)

\* What a step of the device has to keep, with the images of S.
DeviceOK(S) ==
    /\ rState \in {"IDLE", "RECEIVING", "DONE", "FAILED"}
    /\ rImg \in S \/ (rImg = NoImage /\ rState = "IDLE")
    /\ rSrc \in Boxes \cup {NoBox} /\ (Receiving => rSrc \in Boxes)
    /\ rWindow \in 0..MaxWindow /\ rWindow < MaxWindow
    /\ DOMAIN winBuf \subseteq Slots /\ \A i \in DOMAIN winBuf : winBuf[i] \in FramesOf(S)
    /\ written \in Seq(FramesOf(S))
    /\ acks \in [Boxes -> Seq(AckSet)] /\ \A b \in Boxes : Len(acks[b]) <= RingCap
    /\ \A b \in Boxes : \A k \in DOMAIN acks[b] :
        acks[b][k].status = "WINDOW" => acks[b][k].window < MaxWindow
    /\ boot = Old \/ Booted(S)
    /\ (\E b \in Boxes : FinalOkHeard(b)) => Booted(S)

\* It holds in every state.
LEMMA DeviceIsOK ==
    ASSUME TypeOK, Bounded, NEW S \in SUBSET Images, Carries(S)
    PROVE  DeviceOK(S)
    BY DEF TypeOK, Bounded, Carries, DeviceOK

\* A step that touches none of its parts keeps it.
LEMMA DeviceUntouched ==
    ASSUME NEW S, DeviceOK(S),
           UNCHANGED <<sState, rState, rImg, rSrc, rWindow, winBuf, written, boot, acks>>
    PROVE  DeviceOK(S)'
    BY DEF DeviceOK, FinalOkHeard, Booted, Receiving

\* It is all a step of the device has to keep.
LEMMA DeviceKeeps ==
    ASSUME TypeOK, Bounded, NEW S \in SUBSET Images, Carries(S), DeviceOK(S)',
           UNCHANGED <<svars, air, pushes>>, reboots' \in 0..MaxReboots, inLoop' \in BOOLEAN,
           ring' \in Seq([box : Boxes, packet : Controls(S)]), Len(ring') <= RingCap,
           queue' \in Seq(FramesOf(S)), Len(queue') <= QueueCap
    PROVE  TypeOK' /\ Bounded' /\ Carries(S)'
<1>1. TypeOK'
    <2>1. queue' \in Seq(FrameSet) /\ written' \in Seq(FrameSet)
        BY FramesGrow, SeqMonotonic DEF DeviceOK, FrameSet
    <2>2. \A i \in DOMAIN winBuf' : winBuf'[i] \in FrameSet
        BY FramesGrow DEF DeviceOK, FrameSet
    <2>3. rImg' \in Images \cup {NoImage}
        BY DEF DeviceOK
    <2> QED BY <2>1, <2>2, <2>3 DEF TypeOK, DeviceOK, svars
<1>2. Bounded'
    BY DEF Bounded, DeviceOK, Receiving, svars
<1>3. Carries(S)'
    BY DEF Carries, DeviceOK, svars
<1> QED BY <1>1, <1>2, <1>3

\* Sending an ack keeps what is said of acks.
LEMMA SendAckKeeps ==
    ASSUME TypeOK, Bounded, NEW S \in SUBSET Images, Carries(S), NEW b \in Boxes,
           NEW a \in AckSet, NEW n \in Nat, sendAck(b, a, n), UNCHANGED sState,
           a.status = "WINDOW" => a.window < MaxWindow,
           boot' = boot \/ Booted(S)', a.status = "FINAL_OK" => Booted(S)'
    PROVE  /\ acks' \in [Boxes -> Seq(AckSet)] /\ \A c \in Boxes : Len(acks'[c]) <= RingCap
           /\ \A c \in Boxes : \A k \in DOMAIN acks'[c] :
                acks'[c][k].status = "WINDOW" => acks'[c][k].window < MaxWindow
           /\ boot' = Old \/ Booted(S)'
           /\ (\E c \in Boxes : FinalOkHeard(c)') => Booted(S)'
<1>1. /\ acks' \in [Boxes -> Seq(AckSet)]
      /\ \A c \in Boxes : Len(acks'[c]) <= RingCap
      /\ \A c \in Boxes : \A k \in DOMAIN acks'[c] :
            \/ k \in DOMAIN acks[c] /\ acks'[c][k] = acks[c][k]
            \/ c = b /\ acks'[c][k] = a
    BY SendAckTyped
<1>2. \A c \in Boxes : \A k \in DOMAIN acks'[c] :
            acks'[c][k].status = "WINDOW" => acks'[c][k].window < MaxWindow
    BY <1>1 DEF Bounded
<1>3. \A c \in Boxes : FinalOkHeard(c)' => FinalOkHeard(c) \/ Booted(S)'
    BY <1>1 DEF FinalOkHeard
<1>4. boot' = boot => (Booted(S) => Booted(S)')
    BY DEF Booted
<1> QED BY <1>1, <1>2, <1>3, <1>4 DEF Carries

\* The acks the device sends.
LEMMA AcksTyped ==
    /\ \A w \in 0..MaxWindow, m \in SUBSET Slots :
        /\ WindowAck(w, m) \in AckSet /\ WindowAck(w, m).window = w
        /\ WindowAck(w, m).status = "WINDOW" /\ WindowAck(w, m).missing = m
    /\ \A st \in Finals, d \in {0, 1} : FinalAck(st, d) \in AckSet /\ FinalAck(st, d).status = st
    BY DEF WindowAck, FinalAck, AckSet

\* fail() leaves the device as it must be.
LEMMA FailOK ==
    ASSUME TypeOK, Bounded, NEW S \in SUBSET Images, Carries(S), NEW b \in Boxes,
           NEW st \in {"FINAL_CRC", "FINAL_FLASH"}, NEW d \in {0, 1}, fail(b, st, d),
           UNCHANGED <<sState, rWindow>>, rImg' \in S, rSrc' \in Boxes,
           DOMAIN winBuf' \subseteq Slots, \A i \in DOMAIN winBuf' : winBuf'[i] \in FramesOf(S)
    PROVE  DeviceOK(S)'
<1>1. FinalAck(st, d) \in AckSet /\ FinalAck(st, d).status = st /\ 2 \in Nat
    BY AcksTyped DEF Finals
<1>2. /\ rState' = "FAILED" /\ written' = <<>> /\ boot' = boot
      /\ sendAck(b, FinalAck(st, d), 2)
    BY DEF fail
<1> DEFINE a == FinalAck(st, d)
<1>3. a \in AckSet /\ a.status # "WINDOW" /\ a.status # "FINAL_OK" /\ sendAck(b, a, 2)
    BY <1>1, <1>2
<1> HIDE DEF a
<1>4. /\ acks' \in [Boxes -> Seq(AckSet)] /\ \A c \in Boxes : Len(acks'[c]) <= RingCap
      /\ \A c \in Boxes : \A k \in DOMAIN acks'[c] :
            acks'[c][k].status = "WINDOW" => acks'[c][k].window < MaxWindow
      /\ boot' = Old \/ Booted(S)'
      /\ (\E c \in Boxes : FinalOkHeard(c)') => Booted(S)'
    BY <1>1, <1>2, <1>3, SendAckKeeps
<1>5. written' \in Seq(FramesOf(S))
    BY <1>2
<1>6. rWindow' \in 0..MaxWindow /\ rWindow' < MaxWindow
    BY DEF TypeOK, Bounded
<1> QED BY <1>2, <1>4, <1>5, <1>6 DEF DeviceOK, Receiving

\* A window ack leaves the device as it must be.
LEMMA WindowAckOK ==
    ASSUME TypeOK, Bounded, NEW S \in SUBSET Images, Carries(S), NEW b \in Boxes,
           NEW w \in 0..MaxWindow, w < MaxWindow, NEW m \in SUBSET Slots, NEW n \in Nat,
           sendAck(b, WindowAck(w, m), n), UNCHANGED <<sState, boot>>
    PROVE  /\ acks' \in [Boxes -> Seq(AckSet)] /\ \A c \in Boxes : Len(acks'[c]) <= RingCap
           /\ \A c \in Boxes : \A k \in DOMAIN acks'[c] :
                acks'[c][k].status = "WINDOW" => acks'[c][k].window < MaxWindow
           /\ boot' = Old \/ Booted(S)'
           /\ (\E c \in Boxes : FinalOkHeard(c)') => Booted(S)'
<1> DEFINE a == WindowAck(w, m)
<1>1. a \in AckSet /\ a.status = "WINDOW" /\ a.status # "FINAL_OK" /\ a.window < MaxWindow
    BY AcksTyped
<1>2. sendAck(b, a, n)
    OBVIOUS
<1> HIDE DEF a
<1> QED BY <1>1, <1>2, SendAckKeeps

\* PUSH_BEGIN.
LEMMA OnBeginOK ==
    ASSUME TypeOK, Bounded, NEW S \in SUBSET Images, Carries(S), NEW b \in Boxes, NEW img \in S,
           onBegin(b, img), UNCHANGED sState
    PROVE  DeviceOK(S)'
<1>1. DeviceOK(S) /\ S \subseteq Images
    BY DeviceIsOK
<1>2. CASE Receiving /\ sendAck(b, FinalAck("BUSY", 0), 1) /\ UNCHANGED rvars
    <2> DEFINE a == FinalAck("BUSY", 0)
    <2>1. a \in AckSet /\ a.status # "WINDOW" /\ a.status # "FINAL_OK" /\ sendAck(b, a, 1) /\ 1 \in Nat
        BY <1>2, AcksTyped DEF Finals
    <2>2. boot' = boot
        BY <1>2 DEF rvars
    <2> HIDE DEF a
    <2>3. /\ acks' \in [Boxes -> Seq(AckSet)] /\ \A c \in Boxes : Len(acks'[c]) <= RingCap
          /\ \A c \in Boxes : \A k \in DOMAIN acks'[c] :
                acks'[c][k].status = "WINDOW" => acks'[c][k].window < MaxWindow
          /\ boot' = Old \/ Booted(S)'
          /\ (\E c \in Boxes : FinalOkHeard(c)') => Booted(S)'
        BY <2>1, <2>2, SendAckKeeps
    <2> QED BY <1>1, <1>2, <2>3 DEF DeviceOK, Receiving, rvars
<1>3. CASE /\ ~Receiving /\ rImg' = img /\ rSrc' = b /\ fail(b, "FINAL_FLASH", 1)
           /\ UNCHANGED <<rWindow, winBuf>>
    <2>1. /\ DOMAIN winBuf' \subseteq Slots /\ \A i \in DOMAIN winBuf' : winBuf'[i] \in FramesOf(S)
          /\ rImg' \in S /\ rSrc' \in Boxes
        BY <1>1, <1>3 DEF DeviceOK
    <2> QED BY <1>3, <2>1, FailOK
<1>4. CASE /\ ~Receiving /\ rImg' = img /\ rSrc' = b /\ rState' = "RECEIVING"
           /\ rWindow' = 0 /\ winBuf' = NoFrames /\ written' = <<>>
           /\ UNCHANGED <<acks, boot>>
    <2>1. DOMAIN winBuf' = {}
        BY <1>4 DEF NoFrames
    <2>2. rWindow' \in 0..MaxWindow /\ rWindow' < MaxWindow
        BY <1>4, MaxWindowIsBig
    <2>3. written' \in Seq(FramesOf(S))
        BY <1>4
    <2>4. (boot = Old \/ Booted(S))' /\ ((\E c \in Boxes : FinalOkHeard(c)) => Booted(S))'
        BY <1>1, <1>4 DEF DeviceOK, FinalOkHeard, Booted
    <2> QED BY <1>1, <1>4, <2>1, <2>2, <2>3, <2>4 DEF DeviceOK, Receiving
<1>5. CASE UNCHANGED <<rvars, acks>>
    BY <1>1, <1>5 DEF DeviceOK, FinalOkHeard, Booted, Receiving, rvars
<1> QED BY <1>2, <1>3, <1>4, <1>5 DEF onBegin

\* Whole windows.
LEMMA Windows ==
    ASSUME NEW a \in Nat, NEW c \in Nat
    PROVE  /\ a * W \in Nat
           /\ (a + 1) * W = a * W + W
           /\ a * W <= c * W => a <= c
           /\ \A x \in Nat : x < c * W => x \div W \in Nat /\ x \div W < c
<1>1. a * W \in Nat /\ (a + 1) * W = a * W + W
    OBVIOUS
<1>2. a * W <= c * W => a <= c
    <2> SUFFICES ASSUME a >= c + 1 PROVE ~(a * W <= c * W)
        OBVIOUS
    <2>1. PICK d \in Nat : a = c + 1 + d
        BY a - c - 1 \in Nat
    <2>2. a * W = c * W + W + d * W /\ d * W \in Nat /\ c * W \in Nat
        BY <2>1
    <2> QED BY <2>2
<1>3. ASSUME NEW x \in Nat, x < c * W PROVE x \div W \in Nat /\ x \div W < c
    <2> DEFINE q == x \div W
    <2>1. q \in Nat /\ q * W <= x
        OBVIOUS
    <2> HIDE DEF q
    <2>2. q * W < c * W
        BY <1>3, <2>1
    <2>3. ~(q >= c)
        <3> SUFFICES ASSUME q >= c PROVE FALSE
            OBVIOUS
        <3>1. PICK d \in Nat : q = c + d
            BY <2>1, q - c \in Nat
        <3>2. q * W = c * W + d * W /\ d * W \in Nat /\ c * W \in Nat
            BY <3>1
        <3> QED BY <2>2, <3>2
    <2> QED BY <2>1, <2>3 DEF q
<1> QED BY <1>1, <1>2, <1>3

\* The frames a window wants are slots, and as many as the window has.
LEMMA MaskTyped ==
    ASSUME rImg \in Images, rWindow \in Nat
    PROVE  /\ windowExpectMask \subseteq Slots
           /\ WindowFrames \in Nat /\ WindowFrames <= W
           /\ \A k \in 1..WindowFrames : k - 1 \in windowExpectMask
           /\ \/ WindowFrames = W
              \/ rWindow * W + WindowFrames = Frames[rImg]
<1> DEFINE r == Frames[rImg] - rWindow * W
<1>1. r \in Int /\ rWindow * W \in Nat /\ Frames[rImg] \in Nat
    BY Windows
<1>2. windowExpectMask = IF r < 0 \/ r > W THEN Slots ELSE 0..(r - 1)
    BY DEF windowExpectMask
<1>3. WindowFrames = IF windowExpectMask = Slots THEN W ELSE r
    BY DEF WindowFrames
<1>4. r = Frames[rImg] - rWindow * W
    OBVIOUS
<1> HIDE DEF r
<1> QED BY <1>1, <1>2, <1>3, <1>4 DEF Slots

\* The window that is flashed lies in the image, so there is a number for the next.
LEMMA NextWindowFits ==
    ASSUME rImg \in Images, rWindow \in Nat, ~TooLarge
    PROVE  rWindow + 1 < MaxWindow /\ rWindow * W + WindowFrames <= Frames[rImg]
<1>1. WindowFrames \in Nat /\ rWindow * W \in Nat /\ Frames[rImg] \in Nat
    BY MaskTyped, Windows
<1>2. rWindow * W + WindowFrames <= Frames[rImg]
    BY <1>1 DEF TooLarge
<1> DEFINE m == MaxWindow - 2
<1>3. m \in Nat /\ Frames[rImg] <= m * W
    BY PushAssumption, MaxWindowIsBig
<1>4. m * W \in Nat
    BY <1>3
<1>5. rWindow * W <= m * W
    <2> HIDE DEF m
    <2> QED BY <1>1, <1>2, <1>3, <1>4
<1>6. rWindow <= m
    <2> HIDE DEF m
    <2> QED BY <1>3, <1>5, Windows
<1> QED BY <1>2, <1>6, MaxWindowIsBig

\* What is flashed is compared with the image that was announced; only the
\* whole of it is booted.
LEMMA FinalizeOK ==
    ASSUME TypeOK, Bounded, NEW S \in SUBSET Images, Carries(S), NEW b \in Boxes, Receiving,
           Finalize(b), UNCHANGED <<sState, rImg, rSrc, rWindow, winBuf>>
    PROVE  DeviceOK(S)'
<1>1. DeviceOK(S) /\ rImg \in S /\ rSrc \in Boxes
    BY DeviceIsOK DEF DeviceOK, Receiving
<1>2. /\ DOMAIN winBuf' \subseteq Slots /\ \A i \in DOMAIN winBuf' : winBuf'[i] \in FramesOf(S)
      /\ rImg' \in S /\ rSrc' \in Boxes
    BY <1>1 DEF DeviceOK
<1>3. CASE fail(b, "FINAL_CRC", 0) \/ fail(b, "FINAL_FLASH", 1)
    BY <1>2, <1>3, FailOK
<1>4. CASE written = Content(rImg) /\ BootIt(b)
    <2> DEFINE a == FinalAck("FINAL_OK", 0)
    <2>1. /\ boot' = Content(rImg) /\ written' = <<>> /\ rState' = "DONE"
          /\ sendAck(b, a, 2)
        BY <1>4 DEF BootIt
    <2>2. a \in AckSet /\ a.status # "WINDOW" /\ 2 \in Nat
        BY AcksTyped DEF Finals
    <2>3. Booted(S)'
        BY <1>1, <2>1 DEF Booted, Content
    <2> HIDE DEF a
    <2>4. /\ acks' \in [Boxes -> Seq(AckSet)] /\ \A c \in Boxes : Len(acks'[c]) <= RingCap
          /\ \A c \in Boxes : \A k \in DOMAIN acks'[c] :
                acks'[c][k].status = "WINDOW" => acks'[c][k].window < MaxWindow
        BY <2>1, <2>2, <2>3, SendAckKeeps
    <2>5. written' \in Seq(FramesOf(S))
        BY <2>1
    <2>6. rWindow' \in 0..MaxWindow /\ rWindow' < MaxWindow
        BY <1>1 DEF DeviceOK
    <2> QED BY <1>2, <2>1, <2>3, <2>4, <2>5, <2>6 DEF DeviceOK, Receiving
<1> QED BY <1>3, <1>4 DEF Finalize

\* PUSH_END.
LEMMA OnEndOK ==
    ASSUME TypeOK, Bounded, NEW S \in SUBSET Images, Carries(S), NEW b \in Boxes, onEnd(b),
           UNCHANGED sState
    PROVE  DeviceOK(S)'
<1>1. DeviceOK(S) /\ S \subseteq Images
    BY DeviceIsOK
<1>2. CASE UNCHANGED <<rvars, acks>>
    BY <1>1, <1>2 DEF DeviceOK, FinalOkHeard, Booted, Receiving, rvars
<1>3. CASE /\ Receiving
           /\ UNCHANGED <<rImg, rSrc, rWindow, winBuf>>
           /\ sendAck(b, WindowAck(rWindow, windowExpectMask \ DOMAIN winBuf), 1)
           /\ UNCHANGED <<rState, written, boot>>
    <2>1. rImg \in Images /\ rWindow \in Nat /\ rWindow \in 0..MaxWindow /\ rWindow < MaxWindow
        BY <1>1, <1>3 DEF DeviceOK, Receiving
    <2>2. windowExpectMask \ DOMAIN winBuf \in SUBSET Slots
        BY <2>1, MaskTyped
    <2> DEFINE m == windowExpectMask \ DOMAIN winBuf
    <2>3. sendAck(b, WindowAck(rWindow, m), 1) /\ 1 \in Nat /\ UNCHANGED <<sState, boot>>
        BY <1>3
    <2> HIDE DEF m
    <2>4. m \in SUBSET Slots
        BY <2>2 DEF m
    <2>5. /\ acks' \in [Boxes -> Seq(AckSet)] /\ \A c \in Boxes : Len(acks'[c]) <= RingCap
          /\ \A c \in Boxes : \A k \in DOMAIN acks'[c] :
                acks'[c][k].status = "WINDOW" => acks'[c][k].window < MaxWindow
          /\ boot' = Old \/ Booted(S)'
          /\ (\E c \in Boxes : FinalOkHeard(c)') => Booted(S)'
        BY <2>1, <2>3, <2>4, WindowAckOK
    <2> QED BY <1>1, <1>3, <2>5 DEF DeviceOK, Receiving
<1>4. CASE Receiving /\ UNCHANGED <<rImg, rSrc, rWindow, winBuf>> /\ Finalize(b)
    BY <1>4, FinalizeOK
<1> QED BY <1>2, <1>3, <1>4 DEF onEnd

\* A complete window goes to flash, or the device fails.
LEMMA FinishWindowOK ==
    ASSUME TypeOK, Bounded, NEW S \in SUBSET Images, Carries(S), Receiving, NEW buf,
           DOMAIN buf \subseteq Slots, \A i \in DOMAIN buf : buf[i] \in FramesOf(S),
           windowExpectMask \subseteq DOMAIN buf, finishWindow(buf),
           UNCHANGED <<sState, rImg, rSrc>>
    PROVE  DeviceOK(S)'
<1>1. /\ DeviceOK(S) /\ rImg \in S /\ rImg \in Images /\ rSrc \in Boxes
      /\ rWindow \in Nat /\ rWindow \in 0..MaxWindow /\ rWindow < MaxWindow
    BY DeviceIsOK DEF DeviceOK, Receiving
<1>2. CASE fail(rSrc, "FINAL_FLASH", 1) /\ winBuf' = buf /\ UNCHANGED rWindow
    BY <1>1, <1>2, FailOK
<1>3. CASE FlashWindow(buf) /\ winBuf' = NoFrames
    <2> DEFINE flashed == [k \in 1..WindowFrames |-> buf[k - 1]]
    <2>1. /\ ~TooLarge /\ written' = written \o flashed /\ rWindow' = rWindow + 1
          /\ sendAck(rSrc, WindowAck(rWindow, {}), 2) /\ UNCHANGED <<rState, boot>>
        BY <1>3 DEF FlashWindow
    <2>2. written' \in Seq(FramesOf(S))
        <3>1. WindowFrames \in Nat /\ \A k \in 1..WindowFrames : buf[k - 1] \in FramesOf(S)
            BY <1>1, MaskTyped
        <3>2. flashed \in Seq(FramesOf(S))
            BY <3>1
        <3>3. written \in Seq(FramesOf(S))
            BY <1>1 DEF DeviceOK
        <3> HIDE DEF flashed
        <3> QED BY <2>1, <3>2, <3>3, ConcatProperties
    <2>3. rWindow' \in 0..MaxWindow /\ rWindow' < MaxWindow
        BY <1>1, <2>1, NextWindowFits, MaxWindowIsBig
    <2>4. /\ acks' \in [Boxes -> Seq(AckSet)] /\ \A c \in Boxes : Len(acks'[c]) <= RingCap
          /\ \A c \in Boxes : \A k \in DOMAIN acks'[c] :
                acks'[c][k].status = "WINDOW" => acks'[c][k].window < MaxWindow
          /\ boot' = Old \/ Booted(S)'
          /\ (\E c \in Boxes : FinalOkHeard(c)') => Booted(S)'
        BY <1>1, <2>1, {} \in SUBSET Slots, 2 \in Nat, WindowAckOK
    <2>5. DOMAIN winBuf' = {}
        BY <1>3 DEF NoFrames
    <2> QED BY <1>1, <2>1, <2>2, <2>3, <2>4, <2>5 DEF DeviceOK, Receiving
<1> QED BY <1>2, <1>3 DEF finishWindow

\* The window a frame of the current window joins.
Joined(frame) ==
    LET i == frame[2] - rWindow * W
    IN  [j \in DOMAIN winBuf \cup {i} |-> IF j = i THEN frame ELSE winBuf[j]]

\* A frame of the current window.
LEMMA StoreOK ==
    ASSUME TypeOK, Bounded, NEW S \in SUBSET Images, Carries(S), Receiving,
           NEW frame \in FramesOf(S), ~IsFlashed(frame), ~IsFuture(frame), Store(frame),
           UNCHANGED <<sState, rImg, rSrc>>
    PROVE  DeviceOK(S)'
<1>1. DeviceOK(S)
    BY DeviceIsOK
<1>2. frame[2] \in Nat /\ rWindow * W \in Nat
    <2>1. PICK img \in S, n \in Nat : frame = <<img, n>>
        BY FramesOfDef
    <2>2. rWindow \in Nat
        BY DEF TypeOK
    <2> QED BY <2>1, <2>2, Windows
<1> DEFINE i == frame[2] - rWindow * W
           buf == Joined(frame)
<1>3. i \in Slots
    BY <1>2 DEF IsFlashed, IsFuture, Slots
<1>4. /\ DOMAIN buf = DOMAIN winBuf \cup {i}
      /\ \A j \in DOMAIN buf : buf[j] = IF j = i THEN frame ELSE winBuf[j]
    BY DEF Joined
<1>5. \/ windowExpectMask \subseteq DOMAIN buf /\ finishWindow(buf)
      \/ winBuf' = buf /\ UNCHANGED <<rState, rWindow, written, boot, acks>>
    BY DEF Store, Joined
<1> HIDE DEF i, buf
<1>6. DOMAIN buf \subseteq Slots /\ \A j \in DOMAIN buf : buf[j] \in FramesOf(S)
    BY <1>1, <1>3, <1>4 DEF DeviceOK
<1>7. CASE windowExpectMask \subseteq DOMAIN buf /\ finishWindow(buf)
    BY <1>6, <1>7, FinishWindowOK
<1>8. CASE winBuf' = buf /\ UNCHANGED <<rState, rWindow, written, boot, acks>>
    BY <1>1, <1>6, <1>8 DEF DeviceOK, FinalOkHeard, Booted, Receiving
<1> QED BY <1>5, <1>7, <1>8

\* loop() takes a frame of the queue.
LEMMA DrainFrameKeeps ==
    ASSUME TypeOK, Bounded, NEW S \in SUBSET Images, Carries(S), DrainFrame
    PROVE  TypeOK' /\ Bounded' /\ Carries(S)'
<1> DEFINE frame == Head(queue)
<1>1. /\ Receiving /\ queue # <<>> /\ queue' = Tail(queue)
      /\ UNCHANGED <<svars, rImg, rSrc, ring, air, pushes, reboots>>
      /\ inLoop' \in BOOLEAN
    BY DEF DrainFrame
<1>2. DeviceOK(S) /\ queue \in Seq(FramesOf(S)) /\ Len(queue) <= QueueCap
    BY DeviceIsOK DEF Carries, TypeOK
<1>3. frame \in FramesOf(S) /\ queue' \in Seq(FramesOf(S)) /\ Len(queue') <= QueueCap
    BY <1>1, <1>2, TailTyped, LenProperties
<1>4. frame[2] \in Nat
    BY <1>3, FramesOfDef
<1>5. \/ IsFlashed(frame) /\ ReAck(frame)
      \/ UNCHANGED <<rState, rWindow, winBuf, written, boot, acks>>
      \/ ~IsFlashed(frame) /\ ~IsFuture(frame) /\ Store(frame)
    BY DEF DrainFrame
<1> HIDE DEF frame
<1> SUFFICES DeviceOK(S)'
    BY <1>1, <1>2, <1>3, DeviceKeeps DEF Carries, TypeOK
<1>6. CASE UNCHANGED <<rState, rWindow, winBuf, written, boot, acks>>
    <2>1. sState' = sState
        BY <1>1 DEF svars
    <2> QED BY <1>1, <1>2, <1>6, <2>1, DeviceUntouched
<1>7. CASE IsFlashed(frame) /\ ReAck(frame) /\ sendAck(rSrc, WindowAck(frame[2] \div W, {}), 1)
    <2> DEFINE w == frame[2] \div W
    <2>1. rWindow \in Nat /\ rWindow < MaxWindow /\ rSrc \in Boxes
        BY <1>1, <1>2 DEF DeviceOK, Receiving
    <2>2. w \in Nat /\ w < rWindow
        BY <1>4, <1>7, <2>1, Windows DEF IsFlashed
    <2>3. sendAck(rSrc, WindowAck(w, {}), 1) /\ UNCHANGED <<sState, boot>>
        BY <1>1, <1>7 DEF ReAck, svars
    <2> HIDE DEF w
    <2>4. w \in 0..MaxWindow /\ w < MaxWindow
        BY <2>1, <2>2, MaxWindowIsBig
    <2>5. /\ acks' \in [Boxes -> Seq(AckSet)] /\ \A c \in Boxes : Len(acks'[c]) <= RingCap
          /\ \A c \in Boxes : \A k \in DOMAIN acks'[c] :
                acks'[c][k].status = "WINDOW" => acks'[c][k].window < MaxWindow
          /\ boot' = Old \/ Booted(S)'
          /\ (\E c \in Boxes : FinalOkHeard(c)') => Booted(S)'
        BY <2>1, <2>3, <2>4, {} \in SUBSET Slots, 1 \in Nat, WindowAckOK
    <2>6. UNCHANGED <<rState, rImg, rSrc, rWindow, winBuf, written, boot>>
        BY <1>1, <1>7 DEF ReAck
    <2> QED BY <1>2, <2>5, <2>6 DEF DeviceOK, Receiving
<1>8. CASE ~IsFlashed(frame) /\ ~IsFuture(frame) /\ Store(frame)
    <2>1. UNCHANGED <<sState, rImg, rSrc>>
        BY <1>1 DEF svars
    <2> QED BY <1>1, <1>3, <1>8, <2>1, StoreOK
<1> QED
    <2>1. ReAck(frame) => \/ sendAck(rSrc, WindowAck(frame[2] \div W, {}), 1)
                          \/ UNCHANGED <<rState, rWindow, winBuf, written, boot, acks>>
        BY DEF ReAck
    <2> QED BY <1>5, <1>6, <1>7, <1>8, <2>1

\* loop() takes a control packet of its ring.
LEMMA OnControlKeeps ==
    ASSUME TypeOK, Bounded, NEW S \in SUBSET Images, Carries(S), onControl
    PROVE  TypeOK' /\ Bounded' /\ Carries(S)'
<1> DEFINE c == Head(ring)
           R == [box : Boxes, packet : Controls(S)]
<1>1. /\ ring \in Seq(R) /\ ring # <<>> /\ ring' = Tail(ring) /\ Len(ring) <= RingCap
      /\ UNCHANGED <<svars, queue, inLoop, air, pushes, reboots>>
    BY DEF onControl, receive, Carries, TypeOK
<1>2. c \in R /\ ring' \in Seq(R) /\ Len(ring') <= RingCap
    <2> HIDE DEF R
    <2> QED BY <1>1, TailTyped, LenProperties
<1>3. \/ c.packet.kind = "BEGIN" /\ onBegin(c.box, c.packet.img)
      \/ c.packet.kind = "END" /\ onEnd(c.box)
    BY DEF onControl
<1> HIDE DEF c
<1>4. sState' = sState /\ c.box \in Boxes /\ (c.packet.kind = "BEGIN" => c.packet.img \in S)
    BY <1>1, <1>2 DEF svars, Controls
<1>5. DeviceOK(S)'
    <2>1. CASE c.packet.kind = "BEGIN" /\ onBegin(c.box, c.packet.img)
        BY <1>4, <2>1, OnBeginOK
    <2>2. CASE onEnd(c.box)
        BY <1>4, <2>2, OnEndOK
    <2> QED BY <1>3, <2>1, <2>2
<1>6. /\ reboots' \in 0..MaxReboots /\ inLoop' \in BOOLEAN
      /\ queue' \in Seq(FramesOf(S)) /\ Len(queue') <= QueueCap
    BY <1>1 DEF TypeOK, Carries
<1> QED BY <1>1, <1>2, <1>5, <1>6, DeviceKeeps

\* loop() asks again for what is missing.
LEMMA PeriodicAckKeeps ==
    ASSUME TypeOK, Bounded, NEW S \in SUBSET Images, Carries(S), PeriodicAck
    PROVE  TypeOK' /\ Bounded' /\ Carries(S)'
<1> DEFINE m == windowExpectMask \ DOMAIN winBuf
<1>1. /\ Receiving /\ sendAck(rSrc, WindowAck(rWindow, m), 1)
      /\ UNCHANGED <<svars, rvars, queue, inLoop, ring, air, pushes, reboots>>
    BY DEF PeriodicAck
<1>2. /\ DeviceOK(S) /\ rImg \in Images /\ rSrc \in Boxes
      /\ rWindow \in Nat /\ rWindow \in 0..MaxWindow /\ rWindow < MaxWindow
    BY <1>1, DeviceIsOK DEF DeviceOK, Receiving
<1>3. m \in SUBSET Slots
    BY <1>2, MaskTyped
<1> HIDE DEF m
<1>4. UNCHANGED <<sState, boot>> /\ UNCHANGED <<rState, rImg, rSrc, rWindow, winBuf, written>>
    BY <1>1 DEF svars, rvars
<1>5. /\ acks' \in [Boxes -> Seq(AckSet)] /\ \A b \in Boxes : Len(acks'[b]) <= RingCap
      /\ \A b \in Boxes : \A k \in DOMAIN acks'[b] :
            acks'[b][k].status = "WINDOW" => acks'[b][k].window < MaxWindow
      /\ boot' = Old \/ Booted(S)'
      /\ (\E b \in Boxes : FinalOkHeard(b)') => Booted(S)'
    BY <1>1, <1>2, <1>3, <1>4, 1 \in Nat, WindowAckOK
<1>6. DeviceOK(S)'
    BY <1>2, <1>4, <1>5 DEF DeviceOK, Receiving
<1> QED BY <1>1, <1>6, DeviceKeeps DEF Carries, TypeOK

\* The device restarts.
LEMMA RebootKeeps ==
    ASSUME TypeOK, Bounded, NEW S \in SUBSET Images, Carries(S), Reboot
    PROVE  TypeOK' /\ Bounded' /\ Carries(S)'
<1>1. /\ rState' = "IDLE" /\ rImg' = NoImage /\ rSrc' = NoBox
      /\ rWindow' = 0 /\ winBuf' = NoFrames /\ written' = <<>>
      /\ queue' = <<>> /\ inLoop' = FALSE /\ ring' = <<>>
      /\ UNCHANGED <<svars, boot, air, acks, pushes>>
      /\ reboots < MaxReboots /\ reboots' = reboots + 1
    BY DEF Reboot
<1>2. DeviceOK(S)
    BY DeviceIsOK
<1>3. DOMAIN winBuf' = {} /\ rWindow' \in 0..MaxWindow /\ rWindow' < MaxWindow
    BY <1>1, MaxWindowIsBig DEF NoFrames
<1>4. sState' = sState
    BY <1>1 DEF svars
<1>5. (boot = Old \/ Booted(S))' /\ ((\E b \in Boxes : FinalOkHeard(b)) => Booted(S))'
    BY <1>1, <1>2, <1>4 DEF DeviceOK, FinalOkHeard, Booted
<1>6. DeviceOK(S)'
    BY <1>1, <1>2, <1>3, <1>5 DEF DeviceOK, Receiving
<1>7. reboots' \in 0..MaxReboots /\ RingCap >= 0 /\ QueueCap >= 0
    BY <1>1 DEF TypeOK
<1>8. /\ ring' \in Seq([box : Boxes, packet : Controls(S)]) /\ Len(ring') <= RingCap
      /\ queue' \in Seq(FramesOf(S)) /\ Len(queue') <= QueueCap
    BY <1>1, <1>7
<1> QED BY <1>1, <1>6, <1>7, <1>8, DeviceKeeps

-----------------------------------------------------------------------------
(* The invariant.                                                          *)

\* A step that starts no push of an image outside S adds none.
LEMMA StepKeeps ==
    ASSUME TypeOK, Bounded, NEW S \in SUBSET Images, Carries(S), [Next]_vars,
           \A b \in Boxes : \A img \in Images : start(b, img) => img \in S
    PROVE  TypeOK' /\ Bounded' /\ Carries(S)'
<1>1. CASE \E b \in Boxes : \E img \in Images : start(b, img)
    BY <1>1, StartKeeps
<1>2. CASE \E b \in Boxes : onAck(b)
    BY <1>2, OnAckKeeps
<1>3. CASE \E b \in Boxes : Timeout(b)
    BY <1>3, TimeoutKeeps
<1>4. CASE \E b \in Boxes : Arrive(b) \/ Lose(b)
    BY <1>4, AirKeeps
<1>5. CASE \E b \in Boxes : LoseAck(b)
    BY <1>5, LoseAckKeeps
<1>6. CASE onControl
    BY <1>6, OnControlKeeps
<1>7. CASE DrainFrame
    BY <1>7, DrainFrameKeeps
<1>8. CASE PeriodicAck
    BY <1>8, PeriodicAckKeeps
<1>9. CASE Reboot
    BY <1>9, RebootKeeps
<1>10. CASE UNCHANGED vars
    <2>1. TypeOK'
        BY <1>10 DEF TypeOK, vars, svars, rvars
    <2>2. Bounded'
        BY <1>10 DEF Bounded, Receiving, vars, svars, rvars
    <2>3. Carries(S)'
        BY <1>10 DEF Carries, FinalOkHeard, Booted, vars, svars, rvars
    <2> QED BY <2>1, <2>2, <2>3
<1> QED BY <1>1, <1>2, <1>3, <1>4, <1>5, <1>6, <1>7, <1>8, <1>9, <1>10 DEF Next, Box, Device

\* What names images of S names images of a larger set.
LEMMA CarriesGrows ==
    ASSUME NEW T \in SUBSET Images, NEW S \in SUBSET T, Carries(S)
    PROVE  Carries(T)
<1>1. /\ FramesOf(S) \subseteq FramesOf(T)
      /\ Controls(S) \cup Datas(S) \subseteq Controls(T) \cup Datas(T)
      /\ [box : Boxes, packet : Controls(S)] \subseteq [box : Boxes, packet : Controls(T)]
    BY FramesGrow
<1>2. /\ Seq(FramesOf(S)) \subseteq Seq(FramesOf(T))
      /\ Seq(Controls(S) \cup Datas(S)) \subseteq Seq(Controls(T) \cup Datas(T))
      /\ Seq([box : Boxes, packet : Controls(S)]) \subseteq Seq([box : Boxes, packet : Controls(T)])
    BY <1>1, SeqMonotonic
<1>3. air \in [Boxes -> Seq(Controls(T) \cup Datas(T))]
    BY <1>2 DEF Carries
<1> QED BY <1>1, <1>2, <1>3 DEF Carries, Booted

\* Only the start of a push is counted as one.
LEMMA PushesCount ==
    ASSUME [Next]_vars
    PROVE  pushes' = pushes \/ \E b \in Boxes : \E img \in Images : start(b, img)
<1>1. ASSUME NEW b \in Boxes, onAck(b) \/ Timeout(b) PROVE pushes' = pushes
    BY <1>1 DEF onAck, Timeout
<1>2. ASSUME NEW b \in Boxes, Arrive(b) \/ Lose(b) \/ LoseAck(b) PROVE pushes' = pushes
    BY <1>2 DEF Arrive, Lose, LoseAck
<1>3. ASSUME Device \/ Reboot PROVE pushes' = pushes
    BY <1>3 DEF Device, onControl, DrainFrame, PeriodicAck, Reboot
<1>4. ASSUME UNCHANGED vars PROVE pushes' = pushes
    BY <1>4 DEF vars
<1> QED BY <1>1, <1>2, <1>3, <1>4 DEF Next, Box

\* No push, no image; one push, one image.
LEMMA OneImageKept ==
    ASSUME TypeOK, Bounded, OneImage, [Next]_vars
    PROVE  OneImage'
<1>1. CASE \E b \in Boxes : \E img \in Images : start(b, img)
    <2>1. PICK b \in Boxes, img \in Images : start(b, img)
        BY <1>1
    <2>2. pushes \in Nat /\ pushes' = pushes + 1
        BY <2>1 DEF start, TypeOK
    <2>3. ASSUME pushes' = 1 PROVE Carries({img})'
        <3>1. Carries({})
            BY <2>2, <2>3 DEF OneImage
        <3>2. Carries({img})
            BY <3>1, CarriesGrows
        <3> QED BY <2>1, <3>2, img \in {img}, StartKeeps
    <2>4. pushes' = 1 => \E i \in Images : Carries({i})'
        BY <2>3
    <2> QED BY <2>2, <2>4 DEF OneImage
<1>2. CASE ~\E b \in Boxes : \E img \in Images : start(b, img)
    <2>1. pushes' = pushes
        BY <1>2, PushesCount
    <2>2. ASSUME NEW S \in SUBSET Images, Carries(S) PROVE Carries(S)'
        BY <1>2, <2>2, StepKeeps
    <2>3. pushes = 0 => Carries({})'
        BY <2>2 DEF OneImage
    <2>4. ASSUME pushes = 1 PROVE \E img \in Images : Carries({img})'
        <3>1. PICK img \in Images : Carries({img})
            BY <2>4 DEF OneImage
        <3>2. Carries({img})'
            BY <2>2, <3>1
        <3> QED BY <3>2
    <2> QED BY <2>1, <2>3, <2>4 DEF OneImage
<1> QED BY <1>1, <1>2

\* A frame goes to the place its index says: the window it joins ...
LEMMA JoinedPlaced ==
    ASSUME TypeOK, Bounded, NEW S \in SUBSET Images, Carries(S), Receiving, Placed,
           NEW frame \in FramesOf(S), ~IsFlashed(frame), ~IsFuture(frame)
    PROVE  /\ \A j \in DOMAIN Joined(frame) : Joined(frame)[j][2] = rWindow * W + j
           /\ DOMAIN Joined(frame) \subseteq Slots
<1>1. PICK img \in S, n \in Nat : frame = <<img, n>>
    BY FramesOfDef
<1>2. rWindow * W \in Nat /\ frame[2] \in Nat
    BY <1>1, Windows DEF TypeOK
<1> DEFINE i == frame[2] - rWindow * W
<1>3. i \in Slots /\ frame[2] = rWindow * W + i
    BY <1>2 DEF IsFlashed, IsFuture, Slots
<1>4. /\ DOMAIN Joined(frame) = DOMAIN winBuf \cup {i}
      /\ \A j \in DOMAIN Joined(frame) : Joined(frame)[j] = IF j = i THEN frame ELSE winBuf[j]
    BY DEF Joined
<1> HIDE DEF i
<1>5. \A j \in DOMAIN winBuf : winBuf[j][2] = rWindow * W + j
    BY DEF Placed
<1> QED BY <1>3, <1>4, <1>5 DEF TypeOK

\* ... and the flash.
LEMMA FlashPlaced ==
    ASSUME TypeOK, Bounded, NEW S \in SUBSET Images, Carries(S), Receiving, Placed, NEW buf,
           windowExpectMask \subseteq DOMAIN buf,
           \A j \in DOMAIN buf : buf[j][2] = rWindow * W + j,
           FlashWindow(buf), winBuf' = NoFrames, rImg' = rImg
    PROVE  Placed'
<1> DEFINE flashed == [k \in 1..WindowFrames |-> buf[k - 1]]
           at == rWindow * W
<1>1. /\ ~TooLarge /\ written' = written \o flashed /\ rWindow' = rWindow + 1 /\ rState' = rState
    BY DEF FlashWindow
<1>2. rImg \in Images /\ rWindow \in Nat
    BY DEF TypeOK, Carries, Receiving
<1>3. /\ WindowFrames \in Nat /\ WindowFrames <= W /\ at \in Nat /\ (rWindow + 1) * W = at + W
      /\ at + WindowFrames <= Frames[rImg]
      /\ WindowFrames = W \/ at + WindowFrames = Frames[rImg]
      /\ \A k \in 1..WindowFrames : k - 1 \in DOMAIN buf
    <2>1. at \in Nat /\ (rWindow + 1) * W = at + W
        BY <1>2, Windows
    <2>2. at + WindowFrames <= Frames[rImg]
        BY <1>1, <1>2, NextWindowFits
    <2>3. WindowFrames = W \/ at + WindowFrames = Frames[rImg]
        BY <1>2, MaskTyped
    <2>4. \A k \in 1..WindowFrames : k - 1 \in DOMAIN buf
        BY <1>2, MaskTyped
    <2> QED BY <1>2, <2>1, <2>2, <2>3, <2>4, MaskTyped
<1>4. Frames[rImg] \in Nat
    BY <1>2
<1> HIDE DEF at
<1>5. written \in Seq(FrameSet) /\ Len(written) = at
    <2>1. at <= Frames[rImg]
        BY <1>3, <1>4
    <2> QED BY <2>1 DEF Placed, TypeOK, at
<1>6. /\ flashed = [k \in 1..WindowFrames |-> flashed[k]]
      /\ \A k \in 1..WindowFrames : flashed[k][2] = at + (k - 1)
    <2>1. \A j \in DOMAIN buf : buf[j][2] = at + j
        BY DEF at
    <2>2. \A k \in 1..WindowFrames : flashed[k] = buf[k - 1]
        OBVIOUS
    <2> HIDE DEF flashed
    <2>3. \A k \in 1..WindowFrames : flashed[k][2] = at + (k - 1)
        BY <1>3, <2>1, <2>2
    <2> QED BY <2>3 DEF flashed
<1>7. flashed \in Seq({flashed[k] : k \in 1..WindowFrames}) /\ Len(flashed) = WindowFrames
    <2> HIDE DEF flashed
    <2> DEFINE T == {flashed[k] : k \in 1..WindowFrames}
    <2>1. \A k \in 1..WindowFrames : flashed[k] \in T
        OBVIOUS
    <2> HIDE DEF T
    <2>2. flashed \in [1..WindowFrames -> T]
        BY <1>6, <2>1
    <2>3. flashed \in Seq(T) /\ Len(flashed) = WindowFrames
        BY <1>3, <2>2, SeqDef
    <2> QED BY <2>3 DEF T
<1> HIDE DEF flashed
<1>8. /\ Len(written') = at + WindowFrames /\ DOMAIN written' = 1..(at + WindowFrames)
      /\ \A k \in 1..(at + WindowFrames) :
            written'[k] = IF k <= at THEN written[k] ELSE flashed[k - at]
    <2> DEFINE T == FrameSet \cup {flashed[k] : k \in 1..WindowFrames}
    <2>1. written \in Seq(T) /\ flashed \in Seq(T)
        BY <1>5, <1>7, SeqMonotonic
    <2> HIDE DEF T
    <2>2. /\ Len(written \o flashed) = Len(written) + Len(flashed)
          /\ written \o flashed \in Seq(T)
          /\ \A k \in 1..(Len(written) + Len(flashed)) : (written \o flashed)[k] =
                IF k <= Len(written) THEN written[k] ELSE flashed[k - Len(written)]
        BY <2>1, ConcatProperties
    <2> QED BY <1>1, <1>5, <1>7, <2>2, LenProperties
<1>9. ASSUME NEW k \in DOMAIN written' PROVE written'[k][2] = k - 1
    <2>1. k \in 1..(at + WindowFrames) /\ at \in Nat
        BY <1>3, <1>8, <1>9
    <2>2. CASE k <= at
        <3>1. k \in DOMAIN written
            BY <1>5, <2>1, <2>2, LenProperties
        <3> QED BY <1>8, <2>1, <2>2, <3>1 DEF Placed
    <2>3. CASE ~(k <= at)
        <3>1. k - at \in 1..WindowFrames /\ at + (k - at - 1) = k - 1
            BY <1>3, <2>1, <2>3
        <3>2. written'[k] = flashed[k - at]
            BY <1>8, <2>1, <2>3
        <3> QED BY <1>6, <3>1, <3>2
    <2> QED BY <2>2, <2>3
<1>10. Len(written') = IF rWindow' * W <= Frames[rImg'] THEN rWindow' * W ELSE Frames[rImg']
    <2>1. rWindow' * W = at + W
        BY <1>1, <1>3
    <2> QED BY <1>3, <1>4, <1>8, <2>1
<1>11. DOMAIN winBuf' = {}
    BY DEF NoFrames
<1> QED BY <1>9, <1>10, <1>11 DEF Placed

\* Whatever the device is doing.
LEMMA PlacedStays ==
    ASSUME Placed, UNCHANGED <<rState, rImg, rWindow, winBuf, written>>
    PROVE  Placed'
    BY DEF Placed, Receiving

\* Nothing is flashed and nothing received.
LEMMA PlacedEmpty ==
    ASSUME written' = <<>>, rState' # "RECEIVING"
    PROVE  Placed'
    BY DEF Placed, Receiving

\* Every step keeps the frames in their places.
LEMMA PlacedKept ==
    ASSUME TypeOK, Bounded, Carries(Images), Placed, [Next]_vars
    PROVE  Placed'
<1>1. ASSUME NEW b \in Boxes, Box(b) \/ Arrive(b) \/ Lose(b) \/ LoseAck(b) PROVE Placed'
    <2>1. UNCHANGED rvars
        BY <1>1 DEF Box, start, onAck, Timeout, Arrive, Lose, LoseAck
    <2> QED BY <2>1, PlacedStays DEF rvars
<1>2. ASSUME onControl PROVE Placed'
    <2> DEFINE c == Head(ring)
    <2>1. (c.packet.kind = "BEGIN" /\ onBegin(c.box, c.packet.img)) \/ onEnd(c.box)
        BY <1>2 DEF onControl
    <2>2. c.packet.kind = "BEGIN" => c.packet.img \in Images
        <3>1. ring \in Seq([box : Boxes, packet : Controls(Images)]) /\ ring # <<>>
            BY <1>2 DEF onControl, receive, Carries
        <3>2. c \in [box : Boxes, packet : Controls(Images)]
            BY <3>1, TailTyped
        <3> QED BY <3>2 DEF Controls
    <2> HIDE DEF c
    <2>3. CASE c.packet.img \in Images /\ onBegin(c.box, c.packet.img)
        <3>1. CASE UNCHANGED rvars
            BY <3>1, PlacedStays DEF rvars
        <3>2. CASE fail(c.box, "FINAL_FLASH", 1)
            BY <3>2, PlacedEmpty DEF fail
        <3>3. CASE rWindow' = 0 /\ winBuf' = NoFrames /\ written' = <<>> /\ rImg' = c.packet.img
                   /\ c.packet.img \in Images
            <4>1. DOMAIN winBuf' = {} /\ Len(written') = 0 /\ DOMAIN written' = {}
                BY <3>3 DEF NoFrames
            <4>2. rWindow' * W = 0 /\ 0 <= Frames[rImg']
                BY <3>3
            <4> QED BY <4>1, <4>2 DEF Placed
        <3> QED BY <2>3, <3>1, <3>2, <3>3 DEF onBegin
    <2>4. CASE onEnd(c.box)
        <3>1. CASE UNCHANGED <<rState, rImg, rWindow, winBuf, written>>
            BY <3>1, PlacedStays
        <3>2. CASE Finalize(c.box)
            BY <3>2, PlacedEmpty DEF Finalize, fail, BootIt
        <3> QED BY <2>4, <3>1, <3>2 DEF onEnd, rvars
    <2> QED BY <2>1, <2>2, <2>3, <2>4
<1>3. ASSUME DrainFrame PROVE Placed'
    <2> DEFINE frame == Head(queue)
    <2>1. Receiving /\ queue # <<>> /\ UNCHANGED <<rImg, rSrc>>
        BY <1>3 DEF DrainFrame
    <2>2. \/ UNCHANGED <<rState, rWindow, winBuf, written, boot>>
          \/ ~IsFlashed(frame) /\ ~IsFuture(frame) /\ Store(frame)
        BY <1>3 DEF DrainFrame, ReAck
    <2>3. frame \in FramesOf(Images)
        BY <2>1, TailTyped DEF Carries
    <2> HIDE DEF frame
    <2>4. CASE UNCHANGED <<rState, rWindow, winBuf, written, boot>>
        BY <2>1, <2>4, PlacedStays
    <2>5. CASE ~IsFlashed(frame) /\ ~IsFuture(frame) /\ Store(frame)
        <3> DEFINE buf == Joined(frame)
        <3>1. \A j \in DOMAIN buf : buf[j][2] = rWindow * W + j
            BY <2>1, <2>3, <2>5, JoinedPlaced
        <3>2. \/ windowExpectMask \subseteq DOMAIN buf /\ finishWindow(buf)
              \/ winBuf' = buf /\ UNCHANGED <<rState, rWindow, written>>
            BY <2>5 DEF Store, Joined
        <3> HIDE DEF buf
        <3>3. CASE winBuf' = buf /\ UNCHANGED <<rState, rWindow, written>>
            BY <2>1, <3>1, <3>3 DEF Placed, Receiving
        <3>4. CASE fail(rSrc, "FINAL_FLASH", 1)
            BY <3>4, PlacedEmpty DEF fail
        <3>5. CASE windowExpectMask \subseteq DOMAIN buf /\ FlashWindow(buf) /\ winBuf' = NoFrames
            BY <2>1, <3>1, <3>5, FlashPlaced
        <3> QED BY <3>2, <3>3, <3>4, <3>5 DEF finishWindow
    <2> QED BY <2>2, <2>4, <2>5
<1>4. ASSUME PeriodicAck PROVE Placed'
    BY <1>4, PlacedStays DEF PeriodicAck, rvars
<1>5. ASSUME Reboot PROVE Placed'
    BY <1>5, PlacedEmpty DEF Reboot
<1>6. ASSUME UNCHANGED vars PROVE Placed'
    BY <1>6, PlacedStays DEF vars, rvars
<1> QED BY <1>1, <1>2, <1>3, <1>4, <1>5, <1>6 DEF Next, Device

\* It holds at first.
LEMMA InitInv == Init => PushInv
<1> SUFFICES ASSUME Init PROVE PushInv
    OBVIOUS
<1>1. DOMAIN winBuf = {} /\ written = <<>> /\ queue = <<>> /\ ring = <<>>
    BY DEF Init, NoFrames
<1>2. \A b \in Boxes : acks[b] = <<>> /\ air[b] = <<>> /\ sState[b] = "IDLE" /\ sImg[b] = NoImage
    BY DEF Init
<1>3. TypeOK
    <2>1. acks \in [Boxes -> Seq(AckSet)] /\ \A b \in Boxes : Len(acks[b]) <= RingCap
        BY DEF Init
    <2>2. written \in Seq(FrameSet) /\ queue \in Seq(FrameSet)
          /\ Len(ring) <= RingCap /\ Len(queue) <= QueueCap
        BY <1>1
    <2>3. pushes \in 0..MaxPushes /\ reboots \in 0..MaxReboots
        BY DEF Init
    <2>4. finalStatus \in [Boxes -> Statuses] /\ sWindow \in [Boxes -> 0..MaxWindow]
          /\ rWindow \in 0..MaxWindow
        BY MaxWindowIsBig DEF Init, Statuses
    <2>5. /\ retries \in [Boxes -> Nat]
          /\ \A b \in Boxes : retries[b] <= 1 + IF endSent[b] THEN MaxEndRetries ELSE MaxRetries
        BY DEF Init
    <2> QED BY <1>1, <2>1, <2>2, <2>3, <2>4, <2>5 DEF Init, TypeOK
<1>4. Bounded
    BY <1>2, MaxWindowIsBig DEF Init, Bounded, Receiving
<1>5. Carries({})
    <2>1. air \in [Boxes -> Seq(Controls({}) \cup Datas({}))]
        BY DEF Init
    <2>2. /\ ring \in Seq([box : Boxes, packet : Controls({})])
          /\ queue \in Seq(FramesOf({})) /\ written \in Seq(FramesOf({}))
        BY <1>1
    <2>3. \A b \in Boxes : ~FinalOkHeard(b)
        BY <1>2 DEF FinalOkHeard
    <2> QED BY <1>1, <1>2, <2>1, <2>2, <2>3 DEF Init, Carries
<1>6. Carries(Images)
    BY <1>5, CarriesGrows
<1>7. OneImage
    BY <1>5 DEF Init, OneImage
<1>8. Placed
    BY <1>1 DEF Init, Placed, Receiving
<1> QED BY <1>3, <1>4, <1>6, <1>7, <1>8 DEF PushInv

\* The invariant that the others follow from is one.
THEOREM PushInvariance == Spec => []PushInv
<1>1. PushInv /\ [Next]_vars => PushInv'
    <2> SUFFICES ASSUME PushInv, [Next]_vars PROVE PushInv'
        OBVIOUS
    <2>1. TypeOK /\ Bounded /\ Carries(Images) /\ OneImage /\ Placed
        BY DEF PushInv
    <2>2. TypeOK' /\ Bounded' /\ Carries(Images)'
        BY <2>1, StepKeeps
    <2>3. OneImage'
        BY <2>1, OneImageKept
    <2>4. Placed'
        BY <2>1, PlacedKept
    <2> QED BY <2>2, <2>3, <2>4 DEF PushInv
<1> QED BY InitInv, <1>1, PTL DEF Spec

\* The variables have their types: no queue or ring overflows, no window
\* number wraps, and no retry goes beyond its limit.
THEOREM PushTyping == Spec => []TypeOK
<1>1. PushInv => TypeOK
    BY DEF PushInv
<1> QED BY PushInvariance, <1>1, PTL

\* The boot slot only ever selects a complete image, whatever is lost,
\* interleaved or restarted, and however many boxes push.
THEOREM BootWhole == Spec => []BootIsWhole
<1>1. PushInv => BootIsWhole
    BY DEF PushInv, Carries, Booted, BootIsWhole
<1> QED BY PushInvariance, <1>1, PTL

\* What a device has flashed of a single push is the beginning of the image,
\* in its order, before any CRC is compared.
THEOREM PrefixWritten == Spec => []WrittenIsPrefix
<1>1. PushInv => WrittenIsPrefix
    <2> SUFFICES ASSUME PushInv, rState = "RECEIVING", pushes <= 1
                 PROVE  written = SubSeq(Content(rImg), 1, Len(written))
        BY DEF WrittenIsPrefix
    <2>1. TypeOK /\ OneImage /\ Placed
        BY DEF PushInv
    <2>2. pushes = 0 \/ pushes = 1
        BY <2>1 DEF TypeOK
    <2>3. PICK img \in Images : Carries({img})
        BY <2>1, <2>2 DEF OneImage, Carries
    <2>4. rImg = img /\ written \in Seq(FramesOf({img}))
        BY <2>3 DEF Carries
    <2> DEFINE n == Len(written)
    <2>5. n \in Nat /\ DOMAIN written = 1..n /\ written = [k \in 1..n |-> written[k]]
        BY <2>4, LenProperties
    <2>6. n <= Frames[img]
        BY <2>1, <2>4 DEF Placed, Receiving
    <2> HIDE DEF n
    <2>7. ASSUME NEW k \in 1..n PROVE written[k] = Content(img)[k]
        <3>1. written[k] \in FramesOf({img}) /\ written[k][2] = k - 1
            BY <2>1, <2>4, <2>5, ElementOfSeq DEF Placed, n
        <3>2. written[k] = <<img, k - 1>>
            BY <3>1, FramesOfDef
        <3> QED BY <2>5, <2>6, <3>2 DEF Content
    <2>8. SubSeq(Content(img), 1, n) = [k \in 1..n |-> Content(img)[k]]
        BY <2>5
    <2> QED BY <2>4, <2>5, <2>7, <2>8 DEF n
<1> QED BY PushInvariance, <1>1, PTL

\* A box that reports its push as done, the only one so far, has its image
\* booted by the device.
THEOREM DoneBooted == Spec => []DoneIsBooted
<1>1. PushInv => DoneIsBooted
    <2> SUFFICES ASSUME PushInv, NEW b \in Boxes, sState[b] = "DONE", pushes <= 1
                 PROVE  boot = Content(sImg[b])
        BY DEF DoneIsBooted
    <2>1. pushes = 0 \/ pushes = 1
        BY DEF PushInv, TypeOK
    <2>2. PICK img \in Images : Carries({img})
        <3>1. OneImage
            BY DEF PushInv
        <3>2. pushes # 0
            BY <3>1 DEF OneImage, Carries
        <3> QED BY <2>1, <3>1, <3>2 DEF OneImage
    <2>3. sImg[b] = img /\ Booted({img})
        BY <2>2 DEF Carries, FinalOkHeard
    <2> QED BY <2>3 DEF Booted
<1> QED BY PushInvariance, <1>1, PTL
=============================================================================
