------------------------------ MODULE EspNowPush ------------------------------
(***************************************************************************)
(* The firmware push over ESP-NOW (src/src/EspNowPush.cpp): config boxes   *)
(* stream an image in windows of raw frames to one device, which flashes   *)
(* a window once it is complete and acknowledges it.                       *)
(*                                                                         *)
(* Packets travel from a box to the device in order, and may be lost.  On  *)
(* arrival the WiFi task splits them: control packets go to the receive    *)
(* ring of EspNowService, raw frames straight to the frame queue, and the  *)
(* device's loop() takes from both.  A frame's content is the image and    *)
(* the index it was read from, and the CRC of what was flashed matches iff *)
(* its frames are those of the announced image in their order.             *)
(***************************************************************************)
EXTENDS Integers, Sequences, FiniteSets

CONSTANTS
    Boxes,       \* the config boxes, EspNowPushSender
    Frames,      \* [images -> number of frames]
    W,           \* PUSH_WINDOW_FRAMES
    RingCap,     \* what a receive ring holds, RX_RING - 1
    QueueCap,    \* what the frame queue holds, QUEUE - 1
    MaxRetries, MaxEndRetries,  \* 20 and 8 in the code
    Faults,      \* which of "read", "begin", "write", "end" can fail
    MaxPushes, MaxReboots       \* bounds of the exploration

Images == DOMAIN Frames
MaxWindow == 65535  \* window numbers are u16

\* An image fits the flash partition it is for, a few thousand windows.
ASSUME PushAssumption ==
    /\ \A img \in Images : Frames[img] \in Nat \ {0} /\ Frames[img] <= (MaxWindow - 2) * W
    /\ W \in Nat \ {0} /\ RingCap \in Nat /\ QueueCap \in Nat
    /\ MaxRetries \in Nat /\ MaxEndRetries \in Nat
    /\ Faults \subseteq {"read", "begin", "write", "end"}
    /\ MaxPushes \in Nat /\ MaxReboots \in Nat

NoImage == "none"
NoBox == "nobody"
Slots == 0..(W - 1)
NoFrames == [i \in {} |-> <<>>]
Old == <<"old firmware">>
Content(img) == [i \in 1..Frames[img] |-> <<img, i - 1>>]
FramesOf(S) == UNION {{<<img, i>> : i \in 0..(Frames[img] - 1)} : img \in S}
FrameSet == FramesOf(Images)
ImageWindows(img) == (Frames[img] + W - 1) \div W

\* Packets: a box's PUSH_BEGIN, PUSH_END and raw frames, the device's acks.
Begin(img) == [kind |-> "BEGIN", img |-> img]
End == [kind |-> "END"]
Data(frame) == [kind |-> "DATA", frame |-> frame]
WindowAck(w, missing) == [status |-> "WINDOW", window |-> w, missing |-> missing, detail |-> 0]
FinalAck(status, detail) ==
    [status |-> status, window |-> MaxWindow, missing |-> {}, detail |-> detail]

VARIABLES
    \* EspNowPushSender, one per box
    sState, sImg, sWindow, gotAnyAck, endSent, retries, finalStatus, finalDetail,
    \* EspNowPushReceiver; the domain of winBuf is _haveMask, written is what
    \* Update.write got, of which _bytesDone and _crc are sums; inLoop is loop()
    \* between two frames of the queue it is draining
    rState, rImg, rSrc, rWindow, winBuf, written, queue, inLoop,
    boot,     \* what the boot slot selects
    ring,     \* the device's receive ring
    air,      \* air[b]: packets on their way from box b to the device
    acks,     \* acks[b]: packets on their way to box b or in its ring
    pushes, reboots

svars == <<sState, sImg, sWindow, gotAnyAck, endSent, retries, finalStatus, finalDetail>>
rvars == <<rState, rImg, rSrc, rWindow, winBuf, written, boot>>
vars == <<svars, rvars, queue, inLoop, ring, air, acks, pushes, reboots>>

Init ==
    /\ sState = [b \in Boxes |-> "IDLE"]
    /\ sImg = [b \in Boxes |-> NoImage]
    /\ sWindow = [b \in Boxes |-> 0]
    /\ gotAnyAck = [b \in Boxes |-> FALSE]
    /\ endSent = [b \in Boxes |-> FALSE]
    /\ retries = [b \in Boxes |-> 0]
    /\ finalStatus = [b \in Boxes |-> "NONE"]
    /\ finalDetail = [b \in Boxes |-> 0]
    /\ rState = "IDLE" /\ rImg = NoImage /\ rSrc = NoBox
    /\ rWindow = 0 /\ winBuf = NoFrames /\ written = <<>>
    /\ queue = <<>> /\ inLoop = FALSE /\ ring = <<>>
    /\ boot = Old
    /\ air = [b \in Boxes |-> <<>>]
    /\ acks = [b \in Boxes |-> <<>>]
    /\ pushes = 0 /\ reboots = 0

-----------------------------------------------------------------------------
(* The sender.                                                             *)

\* The raw frames of window w that mask selects and the image has, in their
\* order: a set of one sequence.
WindowData(img, w, mask) ==
    LET idxs == {i \in w * W..(w * W + W - 1) : i - w * W \in mask /\ i < Frames[img]}
    IN  {[k \in DOMAIN s |-> Data(<<img, s[k]>>)] : s \in
            {s \in [1..Cardinality(idxs) -> idxs] : \A k, l \in DOMAIN s : k < l => s[k] < s[l]}}

\* Sends the packets pre, then the frames; a read that fails ends the push
\* where it fails.  status is the one the push has otherwise.
SendWindow(b, img, pre, w, mask, status) ==
    \E frames \in WindowData(img, w, mask) :
        \/ /\ air' = [air EXCEPT ![b] = @ \o pre \o frames]
           /\ sState' = [sState EXCEPT ![b] = "PUSHING"]
           /\ finalStatus' = [finalStatus EXCEPT ![b] = status]
        \/ /\ "read" \in Faults
           /\ \E k \in 0..(Len(frames) - 1) :
                air' = [air EXCEPT ![b] = @ \o pre \o SubSeq(frames, 1, k)]
           /\ sState' = [sState EXCEPT ![b] = "FAILED"]
           /\ finalStatus' = [finalStatus EXCEPT ![b] = "FINAL_FLASH"]

\* A user starts a push: the last one has ended, its packets have died out.
start(b, img) ==
    /\ sState[b] # "PUSHING" /\ pushes < MaxPushes
    /\ air[b] = <<>> /\ acks[b] = <<>> /\ \A k \in DOMAIN ring : ring[k].box # b
    /\ pushes' = pushes + 1
    /\ sImg' = [sImg EXCEPT ![b] = img]
    /\ sWindow' = [sWindow EXCEPT ![b] = 0]
    /\ gotAnyAck' = [gotAnyAck EXCEPT ![b] = FALSE]
    /\ endSent' = [endSent EXCEPT ![b] = FALSE]
    /\ retries' = [retries EXCEPT ![b] = 0]
    /\ SendWindow(b, img, <<Begin(img)>>, 0, Slots, "NONE")
    /\ UNCHANGED <<finalDetail, rvars, queue, inLoop, ring, acks, reboots>>

\* An ack that says nothing new: another window's, or none while not pushing.
IgnoreAck(b) ==
    UNCHANGED <<sState, sWindow, endSent, finalStatus, finalDetail, air>>

EndPush(b, a) ==
    /\ sState' = [sState EXCEPT ![b] = IF a.status = "FINAL_OK" THEN "DONE" ELSE "FAILED"]
    /\ finalStatus' = [finalStatus EXCEPT ![b] = a.status]
    /\ finalDetail' = [finalDetail EXCEPT ![b] = IF a.status = "FINAL_OK" THEN @ ELSE a.detail]
    /\ UNCHANGED <<sWindow, endSent, air>>

NextWindow(b) ==
    /\ sWindow' = [sWindow EXCEPT ![b] = @ + 1]
    /\ UNCHANGED finalDetail
    /\ IF sWindow[b] + 1 >= ImageWindows(sImg[b])
       THEN /\ air' = [air EXCEPT ![b] = Append(@, End)]
            /\ endSent' = [endSent EXCEPT ![b] = TRUE]
            /\ UNCHANGED <<sState, finalStatus>>
       ELSE /\ SendWindow(b, sImg[b], <<>>, sWindow[b] + 1, Slots, finalStatus[b])
            /\ UNCHANGED endSent

Retransmit(b, missing) ==
    /\ SendWindow(b, sImg[b], <<>>, sWindow[b], missing, finalStatus[b])
    /\ UNCHANGED <<sWindow, endSent, finalDetail>>

\* A box that takes any window ack for its current window's.
AnyIsCurrent(b, a) == TRUE
IsCurrent(b, a) == a.window = sWindow[b]

\* The box's loop() hands the next packet of its ring to onControl.
onAck(b) ==
    /\ acks[b] # <<>>
    /\ acks' = [acks EXCEPT ![b] = Tail(@)]
    /\ LET a == Head(acks[b]) IN
       IF sState[b] # "PUSHING"
       THEN IgnoreAck(b) /\ UNCHANGED <<gotAnyAck, retries>>
       ELSE /\ gotAnyAck' = [gotAnyAck EXCEPT ![b] = TRUE]
            /\ retries' = [retries EXCEPT ![b] = 0]
            /\ \/ a.status # "WINDOW" /\ EndPush(b, a)
               \/ a.status = "WINDOW" /\ ~IsCurrent(b, a) /\ IgnoreAck(b)
               \/ a.status = "WINDOW" /\ IsCurrent(b, a) /\ a.missing = {} /\ NextWindow(b)
               \/ a.status = "WINDOW" /\ IsCurrent(b, a) /\ a.missing # {}
                    /\ Retransmit(b, a.missing)
    /\ UNCHANGED <<sImg, rvars, queue, inLoop, ring, pushes, reboots>>

\* Until the first ack the device may have missed the BEGIN: it is sent again.
\* (AnnounceOnce: a box that sends it only once.)
AnnounceOnce(b) == <<>>
Announce(b) == IF gotAnyAck[b] THEN <<>> ELSE <<Begin(sImg[b])>>

\* The deadline passed.  It is hundreds of times a packet's time on the air.
Timeout(b) ==
    /\ sState[b] = "PUSHING" /\ air[b] = <<>>
    /\ IF retries[b] + 1 > (IF endSent[b] THEN MaxEndRetries ELSE MaxRetries)
       THEN /\ sState' = [sState EXCEPT ![b] = "FAILED"]
            /\ finalStatus' = [finalStatus EXCEPT ![b] = "GAVE_UP"]
            /\ UNCHANGED <<air, endSent>>
       ELSE IF endSent[b]
            THEN air' = [air EXCEPT ![b] = <<End>>] /\ UNCHANGED <<sState, finalStatus, endSent>>
            ELSE /\ SendWindow(b, sImg[b], Announce(b), sWindow[b], Slots, finalStatus[b])
                 /\ UNCHANGED endSent
    /\ retries' = [retries EXCEPT ![b] = @ + 1]
    /\ UNCHANGED <<sImg, sWindow, gotAnyAck, finalDetail, rvars, queue, inLoop, ring, acks,
                   pushes, reboots>>

-----------------------------------------------------------------------------
(* The air: what a box sends arrives in order or is lost.  The WiFi task   *)
(* drops what its ring or queue has no room for, and raw frames unless the *)
(* device is receiving from that box.                                      *)

\* Does the WiFi task take a packet of box b?
Takes(b, p) ==
    IF p.kind = "DATA"
    THEN rState = "RECEIVING" /\ b = rSrc /\ Len(queue) < QueueCap
    ELSE Len(ring) < RingCap

Arrive(b) ==
    /\ air[b] # <<>>
    /\ air' = [air EXCEPT ![b] = Tail(@)]
    /\ LET p == Head(air[b]) IN
       \/ /\ p.kind # "DATA" /\ Takes(b, p)
          /\ ring' = Append(ring, [box |-> b, packet |-> p])
          /\ UNCHANGED queue
       \/ /\ p.kind = "DATA" /\ Takes(b, p)
          /\ queue' = Append(queue, p.frame)
          /\ UNCHANGED ring
       \/ /\ ~Takes(b, p)
          /\ UNCHANGED <<ring, queue>>
    /\ UNCHANGED <<svars, rvars, inLoop, acks, pushes, reboots>>

Lose(b) ==
    /\ air[b] # <<>>
    /\ air' = [air EXCEPT ![b] = Tail(@)]
    /\ UNCHANGED <<svars, rvars, queue, inLoop, ring, acks, pushes, reboots>>

LoseAck(b) ==
    /\ acks[b] # <<>>
    /\ acks' = [acks EXCEPT ![b] = Tail(@)]
    /\ UNCHANGED <<svars, rvars, queue, inLoop, ring, air, pushes, reboots>>

-----------------------------------------------------------------------------
(* The receiver.                                                           *)

\* n copies of an ack to box b; the box's ring drops what it has no room for.
sendAck(b, a, n) ==
    LET room == RingCap - Len(acks[b])
    IN  acks' = [acks EXCEPT ![b] = @ \o [k \in 1..(IF n < room THEN n ELSE room) |-> a]]

\* fail(): Update.abort(), two acks.
fail(b, status, detail) ==
    /\ rState' = "FAILED"
    /\ written' = <<>>
    /\ sendAck(b, FinalAck(status, detail), 2)
    /\ UNCHANGED boot

\* The frames the current window wants, as a mask; u32 arithmetic wraps when
\* the window lies beyond the image, and then it wants all of them.
windowExpectMask ==
    LET remain == Frames[rImg] - rWindow * W
    IN  IF remain < 0 \/ remain > W THEN Slots ELSE 0..(remain - 1)

Receiving == rState = "RECEIVING"

onBegin(b, img) ==
    \/ /\ Receiving /\ b # rSrc
       /\ sendAck(b, FinalAck("BUSY", 0), 1)
       /\ UNCHANGED rvars
    \/ /\ ~Receiving
       /\ rImg' = img /\ rSrc' = b
       /\ \/ /\ "begin" \in Faults
             /\ fail(b, "FINAL_FLASH", 1)
             /\ UNCHANGED <<rWindow, winBuf>>
          \/ /\ rState' = "RECEIVING"
             /\ rWindow' = 0 /\ winBuf' = NoFrames /\ written' = <<>>
             /\ UNCHANGED <<acks, boot>>
    \/ /\ Receiving /\ b = rSrc
       /\ UNCHANGED <<rvars, acks>>

BootIt(b) ==
    /\ boot' = written /\ written' = <<>>
    /\ rState' = "DONE"
    /\ sendAck(b, FinalAck("FINAL_OK", 0), 2)

\* A device that does not compare the CRC, and one that reports before it has
\* switched the boot slot.
FinalizeUnchecked(b) == BootIt(b)
FinalizeEarly(b) ==
    \/ written # Content(rImg) /\ fail(b, "FINAL_CRC", 0)
    \/ /\ written = Content(rImg) /\ "end" \in Faults
       /\ rState' = "DONE"
       /\ sendAck(b, FinalAck("FINAL_OK", 0), 2)
       /\ UNCHANGED <<written, boot>>
    \/ written = Content(rImg) /\ BootIt(b)

\* Everything is flashed: the CRC is compared and the boot slot switched.
Finalize(b) ==
    \/ written # Content(rImg) /\ fail(b, "FINAL_CRC", 0)
    \/ written = Content(rImg) /\ "end" \in Faults /\ fail(b, "FINAL_FLASH", 1)
    \/ written = Content(rImg) /\ BootIt(b)

onEnd(b) ==
    \/ /\ ~(Receiving /\ b = rSrc)
       /\ UNCHANGED <<rvars, acks>>
    \/ /\ Receiving /\ b = rSrc
       /\ UNCHANGED <<rImg, rSrc, rWindow, winBuf>>
       /\ IF rWindow * W < Frames[rImg]
          THEN /\ sendAck(b, WindowAck(rWindow, windowExpectMask \ DOMAIN winBuf), 1)
               /\ UNCHANGED <<rState, written, boot>>
          ELSE Finalize(b)

\* EspNowService::receive(): the oldest packet of the ring leaves it.
receive == ring # <<>> /\ ring' = Tail(ring)

\* The device's loop() hands the next packet of its ring to onControl.
onControl ==
    /\ ~inLoop /\ receive
    /\ LET c == Head(ring) IN
       \/ c.packet.kind = "BEGIN" /\ onBegin(c.box, c.packet.img)
       \/ c.packet.kind = "END" /\ onEnd(c.box)
    /\ UNCHANGED <<svars, queue, inLoop, air, pushes, reboots>>

\* finishWindow(): the window in buf goes to flash.  A window beyond the image
\* makes Update.write fail.
\* (finishWindowKeeps: a device that forgets to clear _haveMask.)
WindowFrames == IF windowExpectMask = Slots THEN W ELSE Frames[rImg] - rWindow * W
TooLarge == rWindow * W + WindowFrames > Frames[rImg]
WriteFails == TooLarge \/ ("write" \in Faults /\ WindowFrames > 0)

FlashWindow(buf) ==
    /\ ~TooLarge
    /\ written' = written \o [k \in 1..WindowFrames |-> buf[k - 1]]
    /\ sendAck(rSrc, WindowAck(rWindow, {}), 2)
    /\ rWindow' = rWindow + 1
    /\ UNCHANGED <<rState, boot>>

finishWindowKeeps(buf) == FlashWindow(buf) /\ winBuf' = buf
finishWindow(buf) ==
    \/ WriteFails /\ fail(rSrc, "FINAL_FLASH", 1) /\ winBuf' = buf /\ UNCHANGED rWindow
    \/ FlashWindow(buf) /\ winBuf' = NoFrames

\* A frame of a window that is flashed already: our ack of it got lost.
IsFlashed(frame) == frame[2] < rWindow * W
\* (IsFutureOffByOne: a comparison that lets a first frame too many in.)
IsFutureOffByOne(frame) == frame[2] > rWindow * W + W
IsFuture(frame) == frame[2] >= rWindow * W + W

\* The re-ack is throttled: when one was just sent, nothing is.
ReAck(frame) ==
    /\ \/ sendAck(rSrc, WindowAck(frame[2] \div W, {}), 1)
       \/ UNCHANGED acks
    /\ UNCHANGED <<rState, rWindow, winBuf, written, boot>>

Store(frame) ==
    LET i == frame[2] - rWindow * W
        buf == [j \in DOMAIN winBuf \cup {i} |-> IF j = i THEN frame ELSE winBuf[j]]
    IN  IF windowExpectMask \subseteq DOMAIN buf
        THEN finishWindow(buf)
        ELSE winBuf' = buf /\ UNCHANGED <<rState, rWindow, written, boot, acks>>

\* One frame of the queue loop() drains.
DrainFrame ==
    /\ Receiving /\ queue # <<>>
    /\ queue' = Tail(queue)
    /\ LET frame == Head(queue) IN
       \/ IsFlashed(frame) /\ ReAck(frame)
       \/ IsFuture(frame) /\ UNCHANGED <<rState, rWindow, winBuf, written, boot, acks>>
       \/ ~IsFlashed(frame) /\ ~IsFuture(frame) /\ Store(frame)
    /\ inLoop' = (rState' = "RECEIVING" /\ queue' # <<>>)
    /\ UNCHANGED <<svars, rImg, rSrc, ring, air, pushes, reboots>>

\* The end of loop(): nothing came for a while and the window has gaps.  What
\* the queue holds came since loop() found it empty.
PeriodicAck ==
    /\ Receiving /\ ~inLoop /\ air[rSrc] = <<>>
    /\ DOMAIN winBuf # {}
    /\ sendAck(rSrc, WindowAck(rWindow, windowExpectMask \ DOMAIN winBuf), 1)
    /\ UNCHANGED <<svars, rvars, queue, inLoop, ring, air, pushes, reboots>>

\* The device restarts: after a finished push, or by its watchdog or its switch.
Reboot ==
    /\ reboots < MaxReboots
    /\ reboots' = reboots + 1
    /\ rState' = "IDLE" /\ rImg' = NoImage /\ rSrc' = NoBox
    /\ rWindow' = 0 /\ winBuf' = NoFrames /\ written' = <<>>
    /\ queue' = <<>> /\ inLoop' = FALSE /\ ring' = <<>>
    /\ UNCHANGED <<svars, boot, air, acks, pushes>>

-----------------------------------------------------------------------------
Box(b) == (\E img \in Images : start(b, img)) \/ onAck(b) \/ Timeout(b)
Device == onControl \/ DrainFrame \/ PeriodicAck

Next ==
    \/ \E b \in Boxes : Box(b) \/ Arrive(b) \/ Lose(b) \/ LoseAck(b)
    \/ Device
    \/ Reboot

Spec == Init /\ [][Next]_vars

-----------------------------------------------------------------------------
(* Properties.                                                             *)

Finals == {"FINAL_OK", "FINAL_CRC", "FINAL_FLASH", "BUSY"}
Statuses == Finals \cup {"NONE", "GAVE_UP"}
AckSet ==
    [status : {"WINDOW"}, window : 0..MaxWindow, missing : SUBSET Slots, detail : {0}]
        \cup [status : Finals, window : {MaxWindow}, missing : {{}}, detail : {0, 1}]

TypeOK ==
    /\ sState \in [Boxes -> {"IDLE", "PUSHING", "DONE", "FAILED"}]
    /\ sImg \in [Boxes -> Images \cup {NoImage}]
    /\ sWindow \in [Boxes -> 0..MaxWindow] /\ retries \in [Boxes -> Nat]
    /\ gotAnyAck \in [Boxes -> BOOLEAN] /\ endSent \in [Boxes -> BOOLEAN]
    /\ \A b \in Boxes : retries[b] <= 1 + IF endSent[b] THEN MaxEndRetries ELSE MaxRetries
    /\ finalStatus \in [Boxes -> Statuses]
    /\ finalDetail \in [Boxes -> {0, 1}]
    /\ rState \in {"IDLE", "RECEIVING", "DONE", "FAILED"}
    /\ rImg \in Images \cup {NoImage} /\ rSrc \in Boxes \cup {NoBox}
    /\ rWindow \in 0..MaxWindow
    /\ DOMAIN winBuf \subseteq Slots /\ \A i \in DOMAIN winBuf : winBuf[i] \in FrameSet
    /\ written \in Seq(FrameSet)
    /\ Len(ring) <= RingCap /\ Len(queue) <= QueueCap
    /\ queue \in Seq(FrameSet) /\ inLoop \in BOOLEAN
    /\ acks \in [Boxes -> Seq(AckSet)] /\ \A b \in Boxes : Len(acks[b]) <= RingCap
    /\ pushes \in 0..MaxPushes /\ reboots \in 0..MaxReboots

\* Whatever is lost, interleaved, restarted or left over from another push,
\* the boot slot only ever selects a complete image.
BootIsWhole == boot = Old \/ \E img \in Images : boot = Content(img)

\* A single push: what is flashed is a piece of the image, in its order,
\* before any CRC is compared.
WrittenIsPrefix ==
    rState = "RECEIVING" /\ pushes <= 1 =>
        written = SubSeq(Content(rImg), 1, Len(written))

\* A single push to a device that stays on and whose flash can be written: the
\* box never leaves a window the device has not flashed, and is at most the one
\* it has not heard of behind.
FlashWorks == "write" \notin Faults
Lockstep ==
    rState = "RECEIVING" /\ pushes <= 1 /\ reboots = 0 /\ FlashWorks =>
        sWindow[rSrc] <= rWindow /\ rWindow <= sWindow[rSrc] + 1

\* A single push: DONE at the box means the device boots the box's image.
DoneIsBooted ==
    \A b \in Boxes : sState[b] = "DONE" /\ pushes <= 1 => boot = Content(sImg[b])

-----------------------------------------------------------------------------
(* Why these hold: the inductive invariant, in named parts.                *)

\* What the types of single variables do not say of their combinations.
Bounded ==
    /\ \A b \in Boxes : sState[b] = "PUSHING" =>
        retries[b] <= IF endSent[b] THEN MaxEndRetries ELSE MaxRetries
    /\ rWindow < MaxWindow
    /\ \A b \in Boxes : \A k \in DOMAIN acks[b] :
        acks[b][k].status = "WINDOW" => acks[b][k].window < MaxWindow
    /\ Receiving => rSrc \in Boxes

\* Every image named anywhere - in a box, on the air, in the ring, the queue,
\* the flash or the boot slot - is one of S, and the device has booted one of S
\* before any box hears or believes that it has.
Controls(S) == [kind : {"BEGIN"}, img : S] \cup [kind : {"END"}]
Datas(S) == [kind : {"DATA"}, frame : FramesOf(S)]
Booted(S) == \E img \in S : boot = Content(img)
FinalOkHeard(b) ==
    sState[b] = "DONE" \/ \E k \in DOMAIN acks[b] : acks[b][k].status = "FINAL_OK"

Carries(S) ==
    /\ \A b \in Boxes : sImg[b] \in S \/ (sImg[b] = NoImage /\ sState[b] = "IDLE")
    /\ air \in [Boxes -> Seq(Controls(S) \cup Datas(S))]
    /\ ring \in Seq([box : Boxes, packet : Controls(S)])
    /\ queue \in Seq(FramesOf(S))
    /\ rImg \in S \/ (rImg = NoImage /\ rState = "IDLE")
    /\ \A i \in DOMAIN winBuf : winBuf[i] \in FramesOf(S)
    /\ written \in Seq(FramesOf(S))
    /\ boot = Old \/ Booted(S)
    /\ (\E b \in Boxes : FinalOkHeard(b)) => Booted(S)

\* Before the first push there is no image anywhere, up to the second only one.
OneImage ==
    /\ pushes = 0 => Carries({})
    /\ pushes = 1 => \E img \in Images : Carries({img})

\* A frame is in the place its index says, in the window and in flash.
Placed ==
    /\ Receiving => \A i \in DOMAIN winBuf : winBuf[i][2] = rWindow * W + i
    /\ \A k \in DOMAIN written : written[k][2] = k - 1
    /\ Receiving => Len(written) =
            IF rWindow * W <= Frames[rImg] THEN rWindow * W ELSE Frames[rImg]

PushInv == TypeOK /\ Bounded /\ Carries(Images) /\ OneImage /\ Placed

\* Of a single push: before it nothing moves, then only its box does.
Quiet ==
    /\ \A b \in Boxes : sState[b] = "IDLE" /\ air[b] = <<>> /\ acks[b] = <<>>
    /\ ring = <<>> /\ queue = <<>> /\ rState = "IDLE"
Alone(b) ==
    /\ \A c \in Boxes \ {b} : sState[c] = "IDLE" /\ air[c] = <<>> /\ acks[c] = <<>>
    /\ \A k \in DOMAIN ring : ring[k].box = b
    /\ Receiving => rSrc = b

\* No frame beyond the box's window is on its way.
Paced(b) ==
    /\ \A k \in DOMAIN queue : queue[k][2] < (sWindow[b] + 1) * W
    /\ \A k \in DOMAIN air[b] :
        air[b][k].kind = "DATA" => air[b][k].frame[2] < (sWindow[b] + 1) * W

\* A BEGIN is never behind an END: from the first ack on none is sent.
RingHas(kind) == \E k \in DOMAIN ring : ring[k].packet.kind = kind
AirHas(b, kind) == \E k \in DOMAIN air[b] : air[b][k].kind = kind
EndsLast(b) ==
    /\ RingHas("END") \/ AirHas(b, "END") => endSent[b]
    /\ endSent[b] => gotAnyAck[b]
    /\ \A k, l \in DOMAIN ring :
        k < l /\ ring[k].packet.kind = "END" => ring[l].packet.kind # "BEGIN"
    /\ RingHas("END") => ~AirHas(b, "BEGIN")
    /\ \A k, l \in DOMAIN air[b] :
        k < l /\ air[b][k].kind = "END" => air[b][l].kind # "BEGIN"

\* The device is a window ahead of the box or none, says that a window is
\* complete only when it has flashed it, and flashes one once it is complete.
\* It is not in a session before the push got anywhere, or after its END.
Synced(b) == sWindow[b] <= rWindow /\ rWindow <= sWindow[b] + 1
AcksFlashed(b) ==
    \A k \in DOMAIN acks[b] : acks[b][k].status = "WINDOW" /\ acks[b][k].missing = {} =>
        acks[b][k].window < rWindow
Gapped == rWindow * W < Frames[rImg] => ~(windowExpectMask \subseteq DOMAIN winBuf)
Fresh(b) == sWindow[b] = 0 /\ \A k \in DOMAIN acks[b] : acks[b][k].status # "WINDOW"
Over(b) == endSent[b] /\ ~RingHas("BEGIN") /\ ~AirHas(b, "BEGIN")
Session(b) ==
    IF Receiving THEN Synced(b) /\ AcksFlashed(b) /\ Gapped ELSE Fresh(b) \/ Over(b)

SinglePush(b) == Alone(b) /\ Paced(b) /\ EndsLast(b) /\ Session(b)
LockInv ==
    reboots = 0 /\ FlashWorks =>
        (pushes = 0 => Quiet) /\ (pushes = 1 => \E b \in Boxes : SinglePush(b))

-----------------------------------------------------------------------------
(* What the code's comments promise and these runs refute.                 *)

\* "An aborted push never boots (boot slot switches only after a validated
\* image)", EspNowPush.h.
AbortedNeverBoots ==
    \A b \in Boxes : sState[b] = "FAILED" /\ pushes <= 1 => boot = Old

\* PUSH_ACK_FINAL_OK is "flashed + verified, device reboots", InfinitagNow.h:
\* the image a box reports as done is the one the device boots.
FinalOkIsThisImage == \A b \in Boxes : sState[b] = "DONE" => boot = Content(sImg[b])

\* finalDetail() is the "Update-library error number relayed by the device
\* (0 = none)", EspNowPush.h: a push in which the device relayed none has none.
DetailIsOfThisPush ==
    \A b \in Boxes : finalStatus[b] \in {"FINAL_OK", "GAVE_UP"} => finalDetail[b] = 0
=============================================================================
