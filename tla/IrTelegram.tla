------------------------------ MODULE IrTelegram ------------------------------
(***************************************************************************)
(* The IR shot (src/src/IrTelegram.cpp): a station encodes its id and the  *)
(* damage into 16 bits and sends them as marks and spaces; the target's    *)
(* interrupt measures the phases and feeds them to a decoder, and its      *)
(* loop() takes the decoded frame.                                         *)
(*                                                                         *)
(* A frame is the sequence of its bits, most significant first.  The       *)
(* receiver stretches and shrinks the phases, misreads a few of them,      *)
(* loses sight of the telegram, and sees other remote controls between the *)
(* telegrams.  The interrupt runs between any two memory accesses of       *)
(* take().                                                                 *)
(***************************************************************************)
EXTENDS Integers, Sequences, FiniteSets

CONSTANTS
    Shots,        \* what stations shoot: [shooterId, damage] records
    Skews,        \* by how many us the receiver stretches marks, shrinks spaces
    Ambient,      \* what other senders send, as sequences of phases
    MaxMisread,   \* bounds the spaces of one telegram read as the other bit
    MaxShots, MaxAmbient  \* bounds of the exploration

ASSUME IrtAssumption ==
    /\ Shots \subseteq [shooterId : 0..15, damage : 0..255]
    /\ Ambient \subseteq Seq(BOOLEAN \X Nat)
    /\ MaxMisread \in Nat /\ MaxShots \in Nat /\ MaxAmbient \in Nat

-----------------------------------------------------------------------------
(* The frame: version, shooter, damage and a CRC-4 over the three.         *)

IRT_BITS == 16
IRT_VERSION == <<0, 0, 0, 1>>

Nibble(n) == <<(n \div 8) % 2, (n \div 4) % 2, (n \div 2) % 2, n % 2>>
Value(bits) == 8 * bits[1] + 4 * bits[2] + 2 * bits[3] + bits[4]

\* One bit enters the shift register of x^4 + x + 1.
\* (Crc4Parity: the register of x^4 + 1, a parity of every fourth bit.)
Crc4Parity(crc, in) == <<crc[2], crc[3], crc[4], (crc[1] + in) % 2>>
Crc4Step(crc, in) ==
    LET t == (crc[1] + in) % 2
    IN  <<crc[2], crc[3], (crc[4] + t) % 2, t>>

irtCrc4(data12) ==
    LET crc[n \in 0..12] ==
            IF n = 0 THEN <<0, 0, 0, 0>> ELSE Crc4Step(crc[n - 1], data12[n])
    IN  crc[12]

irtEncode(shooterId, damage) ==
    LET dmg == IF damage = 0 THEN 1 ELSE damage
        data12 == IRT_VERSION \o Nibble(shooterId) \o Nibble(dmg)
    IN  data12 \o irtCrc4(data12)

irtValid(frame) ==
    /\ irtCrc4(SubSeq(frame, 1, 12)) = SubSeq(frame, 13, 16)
    /\ SubSeq(frame, 1, 4) = IRT_VERSION

irtDecodeFrame(frame) ==
    [shooterId |-> Value(SubSeq(frame, 5, 8)), damage |-> Value(SubSeq(frame, 9, 12))]

Mark(us) == <<TRUE, us>>
Space(us) == <<FALSE, us>>

\* The phases of a telegram, in us.
irtTimings(frame) ==
    <<Mark(2400), Space(600)>>
        \o [k \in 1..(2 * IRT_BITS + 1) |->
               IF k % 2 = 1 THEN Mark(600)
               ELSE Space(IF frame[k \div 2] = 1 THEN 1200 ELSE 600)]

\* The windows the decoder takes the phases of header and bits in.
HdrMark == 1800..3200
HdrSpace == 250..1000
BitMarks == 250..1000
BitSpaces == 250..1700

Seen(phase, skew) == IF phase[1] THEN phase[2] + skew ELSE phase[2] - skew

\* The receiver keeps the phases of a telegram in their windows.  What other
\* senders send does not begin like a bit and has no header of ours in it.
ASSUME AirAssumption ==
    /\ Skews \subseteq -299..300
    /\ \A phases \in Ambient, skew \in Skews :
        /\ phases # <<>> => Head(phases)[1] /\ Seen(Head(phases), skew) \notin BitMarks
        /\ \A k \in 1..(Len(phases) - 1) :
            phases[k][1] /\ Seen(phases[k], skew) \in HdrMark =>
                \A other \in Skews :
                    phases[k + 1][1] \/ Seen(phases[k + 1], other) \notin HdrSpace

-----------------------------------------------------------------------------
VARIABLES
    \* IrtDecoder
    state, acc, pending, frame,
    taker, out,  \* where take() is, and what it has read
    \* the telegram on the air: its phases to come, misreads left, unharmed so far
    air, misreads, clean,
    \* history: the shots fired, which of them frame is, what loop() has taken
    fired, which, taken,
    ambient      \* foreign telegrams and resets so far

nbits == Len(acc)
left == Len(air)

decoder == <<state, acc, pending, frame, which>>
vars == <<decoder, taker, out, air, misreads, clean, fired, taken, ambient>>

Init ==
    /\ state = "IDLE" /\ acc = <<>> /\ pending = FALSE /\ frame = <<>> /\ which = 0
    /\ taker = "idle" /\ out = <<>>
    /\ air = <<>> /\ misreads = 0 /\ clean = FALSE
    /\ fired = <<>> /\ taken = <<>> /\ ambient = 0

-----------------------------------------------------------------------------
(* feed(): a finished phase of us microseconds.                            *)

\* A mark in header range restarts a frame from any state.
\* (tryHeaderInIdle: a decoder that needs a phase to get back to IDLE first.)
tryHeaderInIdle(mark, us) ==
    state' = IF state = "IDLE" /\ mark /\ us \in HdrMark THEN "HDR_SPACE" ELSE "IDLE"
tryHeader(mark, us) ==
    state' = IF mark /\ us \in HdrMark THEN "HDR_SPACE" ELSE "IDLE"

HeaderSpace(mark, us) == state = "HDR_SPACE" /\ ~mark /\ us \in HdrSpace
BitMark(mark, us) == state = "BIT_MARK" /\ mark /\ us \in BitMarks
BitSpace(mark, us) == state = "BIT_SPACE" /\ ~mark /\ us \in BitSpaces

Bit(us) == IF us >= 900 THEN 1 ELSE 0

\* The stop mark: only valid frames are reported.
\* (CompleteUnchecked: a decoder that leaves the check to its caller.)
CompleteUnchecked ==
    /\ state' = "IDLE" /\ frame' = acc /\ pending' = TRUE /\ which' = Len(fired)
    /\ UNCHANGED acc
Complete ==
    /\ state' = "IDLE"
    /\ IF irtValid(acc)
       THEN frame' = acc /\ pending' = TRUE /\ which' = Len(fired)
       ELSE UNCHANGED <<frame, pending, which>>
    /\ UNCHANGED acc

\* (NewFrameDrops: a decoder that forgets the unread frame over a new one.)
NewFrameDrops ==
    /\ state' = "BIT_MARK" /\ acc' = <<>> /\ pending' = FALSE
    /\ UNCHANGED <<frame, which>>
NewFrame ==
    /\ state' = "BIT_MARK" /\ acc' = <<>>
    /\ UNCHANGED <<pending, frame, which>>

feed(mark, us) ==
    \/ HeaderSpace(mark, us) /\ NewFrame
    \/ /\ BitMark(mark, us) /\ nbits = IRT_BITS
       /\ Complete
    \/ /\ BitMark(mark, us) /\ nbits < IRT_BITS
       /\ state' = "BIT_SPACE"
       /\ UNCHANGED <<acc, pending, frame, which>>
    \/ /\ BitSpace(mark, us)
       /\ state' = "BIT_MARK" /\ acc' = Append(acc, Bit(us))
       /\ UNCHANGED <<pending, frame, which>>
    \/ /\ ~(HeaderSpace(mark, us) \/ BitMark(mark, us) \/ BitSpace(mark, us))
       /\ tryHeader(mark, us)
       /\ UNCHANGED <<acc, pending, frame, which>>

-----------------------------------------------------------------------------
(* The air and the interrupt.                                              *)

\* A station fires when the light of the last shot is gone.
Shoot ==
    /\ air = <<>> /\ Len(fired) < MaxShots
    /\ \E shot \in Shots :
        /\ air' = irtTimings(irtEncode(shot.shooterId, shot.damage))
        /\ fired' = Append(fired, shot)
    /\ misreads' = MaxMisread /\ clean' = TRUE
    /\ UNCHANGED <<decoder, taker, out, taken, ambient>>

OtherSender ==
    /\ air = <<>> /\ ambient < MaxAmbient
    /\ air' \in Ambient
    /\ misreads' = 0 /\ clean' = FALSE /\ ambient' = ambient + 1
    /\ UNCHANGED <<decoder, taker, out, fired, taken>>

ahead == Head(air)
IsMark == ahead[1]
Duration == ahead[2]

\* The next phase ends, stretched or shrunk, and the interrupt feeds it.
Phase ==
    /\ air # <<>>
    /\ \E skew \in Skews : feed(IsMark, Seen(ahead, skew))
    /\ air' = Tail(air)
    /\ UNCHANGED <<taker, out, misreads, clean, fired, taken, ambient>>

\* A 0 is read as a 1 or a 1 as a 0.
Misread ==
    /\ misreads > 0 /\ left \in 2..(2 * IRT_BITS) /\ ~IsMark
    /\ feed(IsMark, 1800 - Duration)
    /\ air' = Tail(air) /\ misreads' = misreads - 1 /\ clean' = FALSE
    /\ UNCHANGED <<taker, out, fired, taken, ambient>>

\* Somebody walks through the beam: the space lasts until the next mark, which
\* may come soon, or not for long.
CutOff ==
    /\ air # <<>> /\ ~IsMark
    /\ \E us \in {100, 600, 1200, 5000} : feed(IsMark, us)
    /\ air' = <<>> /\ clean' = FALSE
    /\ UNCHANGED <<taker, out, misreads, fired, taken, ambient>>

-----------------------------------------------------------------------------
(* take(): three accesses to memory the interrupt writes.  which goes with *)
(* frame: the shot that a read of frame reads.                             *)

Read == [n |-> which, shot |-> irtDecodeFrame(frame)]

\* (takeClearsFirst: a take() that clears _pending before it reads _frame.)
takeClearsFirst ==
    \/ taker = "idle" /\ pending /\ taker' = "first" /\ UNCHANGED <<out, pending, taken>>
    \/ taker = "first" /\ taker' = "second" /\ pending' = FALSE /\ UNCHANGED <<out, taken>>
    \/ taker = "second" /\ taker' = "idle" /\ out' = Read /\ taken' = Append(taken, out')
         /\ UNCHANGED pending
take ==
    \/ taker = "idle" /\ pending /\ taker' = "first" /\ UNCHANGED <<out, pending, taken>>
    \/ taker = "first" /\ taker' = "second" /\ out' = Read /\ UNCHANGED <<pending, taken>>
    \/ taker = "second" /\ taker' = "idle" /\ pending' = FALSE /\ taken' = Append(taken, out)
         /\ UNCHANGED out

Take == take /\ UNCHANGED <<state, acc, frame, which, air, misreads, clean, fired, ambient>>

\* The caller wants nothing to do with what is on the air.
reset ==
    /\ ambient < MaxAmbient /\ ambient' = ambient + 1
    /\ state' = "IDLE"
    /\ clean' = (clean /\ air = <<>>)
    /\ UNCHANGED <<acc, pending, frame, which, taker, out, air, misreads, fired, taken>>

-----------------------------------------------------------------------------
Next == Shoot \/ OtherSender \/ Phase \/ Misread \/ CutOff \/ Take \/ reset

Spec == Init /\ [][Next]_vars

\* loop() polls take().
FairSpec == Spec /\ WF_vars(Take)

-----------------------------------------------------------------------------
(* Properties.                                                             *)

\* What loop() gets from the decoder is a shot somebody fired, with its shooter
\* and its damage (at least 1), whatever two bits of a telegram are misread,
\* however telegrams are cut off, and whatever other senders send.
Meant(shot) == [shot EXCEPT !.damage = IF @ = 0 THEN 1 ELSE @]
TakenIsShot ==
    \A k \in DOMAIN taken : taken[k].shot = Meant(fired[taken[k].n])

\* A telegram whose phases stay in their windows is decoded, whatever the
\* receiver saw before it.
CleanIsHeard == air = <<>> /\ clean => which = Len(fired)

\* No shot is taken twice and none after a later one, wherever in take() the
\* interrupt strikes.
TakenOnce ==
    \A j, k \in DOMAIN taken : j < k => taken[j].n < taken[k].n

\* What feed() reported is there to be fetched (IrTelegram.h: "fetch it with
\* take()"): take() returns the shot or one reported later, unless the interrupt
\* reported it between take()'s read of _frame and its clearing of _pending.
\* Those shots are lost.
ReportedIsTaken ==
    \A n \in 1..MaxShots :
        pending /\ which = n /\ taker # "second" ~> \E k \in DOMAIN taken : taken[k].n >= n

Reading == [n : Nat, shot : [shooterId : Nat, damage : Nat]]
TypeOK ==
    /\ state \in {"IDLE", "HDR_SPACE", "BIT_MARK", "BIT_SPACE"}
    /\ acc \in Seq({0, 1}) /\ nbits <= IRT_BITS
    /\ state = "BIT_SPACE" => nbits < IRT_BITS
    /\ frame \in Seq({0, 1}) /\ pending \in BOOLEAN
    /\ pending => Len(frame) = IRT_BITS /\ irtValid(frame)
    /\ taker \in {"idle", "first", "second"} /\ (taker # "idle" => pending)
    /\ taker = "second" => out \in Reading
    /\ air \in Seq(BOOLEAN \X Nat) /\ misreads \in 0..MaxMisread /\ clean \in BOOLEAN
    /\ fired \in Seq(Shots) /\ taken \in Seq(Reading)
    /\ Len(fired) <= MaxShots /\ which \in 0..Len(fired) /\ ambient \in 0..MaxAmbient

-----------------------------------------------------------------------------
(* Why these hold: the inductive invariant, in named parts.                *)

Code(n) == irtEncode(fired[n].shooterId, fired[n].damage)

\* The telegram on the air is the last shot's, and not heard yet.
OfShot ==
    /\ fired # <<>> /\ which < Len(fired) /\ left <= 35
    /\ LET phases == irtTimings(Code(Len(fired)))
       IN  \A k \in 1..left : air[k] = phases[35 - left + k]

\* As many bits are wrong as were misread.
Wrong == LET code == Code(Len(fired)) IN {k \in DOMAIN acc : acc[k] # code[k]}
Faithful == Cardinality(Wrong) + misreads <= MaxMisread

\* The decoder is where the telegram is, or has given up on it.
Follows ==
    \/ left = 35
    \/ state = "HDR_SPACE" /\ left = 34
    \/ state = "BIT_MARK" /\ left = 33 - 2 * nbits /\ Faithful
    \/ state = "BIT_SPACE" /\ left = 32 - 2 * nbits /\ Faithful
    \/ state = "IDLE" /\ ~clean

\* Another sender's telegram does not get the decoder beyond a header.
Foreign(phases) ==
    \A k \in 1..(Len(phases) - 1), skew \in Skews :
        phases[k][1] /\ Seen(phases[k], skew) \in HdrMark =>
            \A other \in Skews :
                phases[k + 1][1] \/ Seen(phases[k + 1], other) \notin HdrSpace
OfOther ==
    /\ Foreign(air) /\ ~clean /\ misreads = 0
    /\ \A skew \in Skews :
        \/ IsMark /\ Seen(ahead, skew) \notin BitMarks
        \/ state = "IDLE"
        \/ state = "HDR_SPACE" /\ (IsMark \/ Seen(ahead, skew) \notin HdrSpace)

OnAir ==
    /\ air # <<>> => (OfShot /\ Follows) \/ OfOther
    /\ clean => misreads = MaxMisread

\* What is taken was reported before, and what waits to be taken was not.
LastTaken == IF taken = <<>> THEN 0 ELSE taken[Len(taken)].n
InTurn ==
    /\ LastTaken <= which
    /\ pending /\ taker # "second" => LastTaken < which
    /\ taker = "second" => LastTaken < out.n /\ out.n <= which

IrtInv == TypeOK /\ OnAir /\ InTurn /\ TakenOnce /\ CleanIsHeard

\* With the CRC: what is reported is the shot.
Reported ==
    /\ which > 0 => frame = Code(which)
    /\ pending => which > 0
    /\ taker = "second" => out.n \in 1..Len(fired) /\ out.shot = Meant(fired[out.n])
    /\ \A k \in DOMAIN taken : taken[k].n \in 1..Len(fired)
=============================================================================
