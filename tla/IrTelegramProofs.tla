---------------------------- MODULE IrTelegramProofs ----------------------------
(***************************************************************************)
(* Proofs about IrTelegram, for every set of shots, every skew within the  *)
(* windows and every other sender.                                         *)
(***************************************************************************)
EXTENDS IrTelegram, FiniteSetTheorems, SequenceTheorems, TLAPS

-----------------------------------------------------------------------------
(* The CRC.                                                                *)

\* The two values of a bit.
Bits == {0, 1}

\* The recursion unfolded: the shift register after each of the twelve bits.
LEMMA CrcIs ==
    ASSUME NEW d
    PROVE  \E crc :
             /\ irtCrc4(d) = crc[12] /\ crc[0] = <<0, 0, 0, 0>>
             /\ \A n \in 1..12 : crc[n] = Crc4Step(crc[n - 1], d[n])
<1> DEFINE Step(crc, n) == IF n = 0 THEN <<0, 0, 0, 0>> ELSE Crc4Step(crc[n - 1], d[n])
           crc[n \in 0..12] == Step(crc, n)
           c0 == <<0, 0, 0, 0>>
           c1 == Crc4Step(c0, d[1])
           c2 == Crc4Step(c1, d[2])
           c3 == Crc4Step(c2, d[3])
           c4 == Crc4Step(c3, d[4])
           c5 == Crc4Step(c4, d[5])
           c6 == Crc4Step(c5, d[6])
           c7 == Crc4Step(c6, d[7])
           c8 == Crc4Step(c7, d[8])
           c9 == Crc4Step(c8, d[9])
           c10 == Crc4Step(c9, d[10])
           c11 == Crc4Step(c10, d[11])
           c12 == Crc4Step(c11, d[12])
           g == [n \in 0..12 |->
                   CASE n = 0 -> c0 [] n = 1 -> c1 [] n = 2 -> c2 [] n = 3 -> c3
                     [] n = 4 -> c4 [] n = 5 -> c5 [] n = 6 -> c6 [] n = 7 -> c7
                     [] n = 8 -> c8 [] n = 9 -> c9 [] n = 10 -> c10 [] n = 11 -> c11
                     [] n = 12 -> c12]
<1>1. irtCrc4(d) = crc[12]
    BY DEF irtCrc4
<1>2. g = [n \in 0..12 |-> Step(g, n)]
    <2>1. c0 = <<0, 0, 0, 0>>
        OBVIOUS
    <2>2. /\ c1 = Crc4Step(c0, d[1])
          /\ c2 = Crc4Step(c1, d[2])
          /\ c3 = Crc4Step(c2, d[3])
          /\ c4 = Crc4Step(c3, d[4])
          /\ c5 = Crc4Step(c4, d[5])
          /\ c6 = Crc4Step(c5, d[6])
          /\ c7 = Crc4Step(c6, d[7])
          /\ c8 = Crc4Step(c7, d[8])
          /\ c9 = Crc4Step(c8, d[9])
          /\ c10 = Crc4Step(c9, d[10])
          /\ c11 = Crc4Step(c10, d[11])
          /\ c12 = Crc4Step(c11, d[12])
        OBVIOUS
    <2> HIDE DEF c0, c1, c2, c3, c4, c5, c6, c7, c8, c9, c10, c11, c12
    <2>3. /\ g[0] = c0
          /\ g[1] = c1
          /\ g[2] = c2
          /\ g[3] = c3
          /\ g[4] = c4
          /\ g[5] = c5
          /\ g[6] = c6
          /\ g[7] = c7
          /\ g[8] = c8
          /\ g[9] = c9
          /\ g[10] = c10
          /\ g[11] = c11
          /\ g[12] = c12
        OBVIOUS
    <2> HIDE DEF g
    <2>4. \A n \in 0..12 : Step(g, n) = IF n = 0 THEN <<0, 0, 0, 0>> ELSE Crc4Step(g[n - 1], d[n])
        OBVIOUS
    <2> HIDE DEF Step
    <2>5. \A n \in 0..12 : g[n] = Step(g, n)
        <3>1. Step(g, 0) = g[0]
            BY <2>1, <2>3, <2>4
        <3>2. Step(g, 1) = g[1]
            BY <2>2, <2>3, <2>4, 1 - 1 = 0
        <3>3. Step(g, 2) = g[2]
            BY <2>2, <2>3, <2>4, 2 - 1 = 1
        <3>4. Step(g, 3) = g[3]
            BY <2>2, <2>3, <2>4, 3 - 1 = 2
        <3>5. Step(g, 4) = g[4]
            BY <2>2, <2>3, <2>4, 4 - 1 = 3
        <3>6. Step(g, 5) = g[5]
            BY <2>2, <2>3, <2>4, 5 - 1 = 4
        <3>7. Step(g, 6) = g[6]
            BY <2>2, <2>3, <2>4, 6 - 1 = 5
        <3>8. Step(g, 7) = g[7]
            BY <2>2, <2>3, <2>4, 7 - 1 = 6
        <3>9. Step(g, 8) = g[8]
            BY <2>2, <2>3, <2>4, 8 - 1 = 7
        <3>10. Step(g, 9) = g[9]
            BY <2>2, <2>3, <2>4, 9 - 1 = 8
        <3>11. Step(g, 10) = g[10]
            BY <2>2, <2>3, <2>4, 10 - 1 = 9
        <3>12. Step(g, 11) = g[11]
            BY <2>2, <2>3, <2>4, 11 - 1 = 10
        <3>13. Step(g, 12) = g[12]
            BY <2>2, <2>3, <2>4, 12 - 1 = 11
        <3> QED BY <3>1, <3>2, <3>3, <3>4, <3>5, <3>6, <3>7, <3>8, <3>9, <3>10, <3>11, <3>12, <3>13
    <2>6. g = [n \in 0..12 |-> g[n]]
        BY DEF g
    <2> QED BY <2>5, <2>6
<1>3. crc = [n \in 0..12 |-> Step(crc, n)]
    <2> DEFINE Holds(f) == f = [n \in 0..12 |-> Step(f, n)]
    <2>1. Holds(g)
        BY <1>2
    <2>2. crc = CHOOSE f : Holds(f)
        OBVIOUS
    <2> HIDE DEF Holds, g, crc
    <2>3. Holds(crc)
        BY <2>1, <2>2
    <2> QED BY <2>3 DEF Holds
<1>4. crc[0] = c0 /\ \A n \in 1..12 : crc[n] = Crc4Step(crc[n - 1], d[n])
    <2> HIDE DEF crc, g
    <2>1. \A n \in 0..12 : crc[n] = Step(crc, n)
        BY <1>3
    <2> QED BY <2>1
<1> HIDE DEF crc, g
<1> QED BY <1>1, <1>4

\* The CRC of a telegram of our version: each of its bits is a parity of the
\* shooter's and the damage's bits.
LEMMA CrcBits ==
    ASSUME NEW d, \A k \in 5..12 : d[k] \in Bits,
           d[1] = 0, d[2] = 0, d[3] = 0, d[4] = 1,
           NEW code, code = irtCrc4(d)
    PROVE  /\ code[1] = (1 + d[5] + d[7] + d[9] + d[10]) % 2
           /\ code[2] = (1 + d[5] + d[6] + d[8] + d[10] + d[11]) % 2
           /\ code[3] = (1 + d[5] + d[6] + d[7] + d[9] + d[11] + d[12]) % 2
           /\ code[4] = (1 + d[6] + d[8] + d[9] + d[12]) % 2
           /\ code = <<code[1], code[2], code[3], code[4]>>
<1>1. PICK crc :
        /\ irtCrc4(d) = crc[12] /\ crc[0] = <<0, 0, 0, 0>>
        /\ \A n \in 1..12 : crc[n] = Crc4Step(crc[n - 1], d[n])
    BY CrcIs
<1>2. \A n \in 1..12 :
        /\ crc[n][1] = crc[n - 1][2] /\ crc[n][2] = crc[n - 1][3]
        /\ crc[n][4] = (crc[n - 1][1] + d[n]) % 2
        /\ crc[n][3] = (crc[n - 1][4] + crc[n][4]) % 2
    <2> TAKE n \in 1..12
    <2> DEFINE old == crc[n - 1]
               next == crc[n]
               in == d[n]
    <2>1. next = Crc4Step(old, in)
        BY <1>1
    <2> HIDE DEF old, next, in
    <2>2. /\ next[1] = old[2] /\ next[2] = old[3] /\ next[4] = (old[1] + in) % 2
          /\ next[3] = (old[4] + next[4]) % 2
        BY <2>1 DEF Crc4Step
    <2> QED BY <2>2 DEF old, next, in
<1>3. d[5] \in Bits /\ d[6] \in Bits /\ d[7] \in Bits /\ d[8] \in Bits /\ d[9] \in Bits
        /\ d[10] \in Bits /\ d[11] \in Bits /\ d[12] \in Bits
    OBVIOUS
<1>4. crc[0][1] = 0 /\ crc[0][2] = 0 /\ crc[0][3] = 0 /\ crc[0][4] = 0
    BY <1>1
<1>5. /\ crc[1][1] = 0 /\ crc[1][2] = 0
      /\ crc[1][3] = 0
      /\ crc[1][4] = 0
    BY <1>2, <1>3, <1>4 DEF Bits
<1>6. /\ crc[2][1] = 0 /\ crc[2][2] = 0
      /\ crc[2][3] = 0
      /\ crc[2][4] = 0
    BY <1>2, <1>3, <1>5 DEF Bits
<1>7. /\ crc[3][1] = 0 /\ crc[3][2] = 0
      /\ crc[3][3] = 0
      /\ crc[3][4] = 0
    BY <1>2, <1>3, <1>6 DEF Bits
<1>8. /\ crc[4][1] = 0 /\ crc[4][2] = 0
      /\ crc[4][3] = 1
      /\ crc[4][4] = 1
    BY <1>2, <1>3, <1>7 DEF Bits
<1>9. /\ crc[5][1] = 0 /\ crc[5][2] = 1
      /\ crc[5][3] = (1 + d[5]) % 2
      /\ crc[5][4] = (d[5]) % 2
    BY <1>2, <1>3, <1>8 DEF Bits
<1>10. /\ crc[6][1] = 1 /\ crc[6][2] = (1 + d[5]) % 2
      /\ crc[6][3] = (d[5] + d[6]) % 2
      /\ crc[6][4] = (d[6]) % 2
    BY <1>2, <1>3, <1>9 DEF Bits
<1>11. /\ crc[7][1] = (1 + d[5]) % 2 /\ crc[7][2] = (d[5] + d[6]) % 2
      /\ crc[7][3] = (1 + d[6] + d[7]) % 2
      /\ crc[7][4] = (1 + d[7]) % 2
    BY <1>2, <1>3, <1>10 DEF Bits
<1>12. /\ crc[8][1] = (d[5] + d[6]) % 2 /\ crc[8][2] = (1 + d[6] + d[7]) % 2
      /\ crc[8][3] = (d[5] + d[7] + d[8]) % 2
      /\ crc[8][4] = (1 + d[5] + d[8]) % 2
    BY <1>2, <1>3, <1>11 DEF Bits
<1>13. /\ crc[9][1] = (1 + d[6] + d[7]) % 2 /\ crc[9][2] = (d[5] + d[7] + d[8]) % 2
      /\ crc[9][3] = (1 + d[6] + d[8] + d[9]) % 2
      /\ crc[9][4] = (d[5] + d[6] + d[9]) % 2
    BY <1>2, <1>3, <1>12 DEF Bits
<1>14. /\ crc[10][1] = (d[5] + d[7] + d[8]) % 2 /\ crc[10][2] = (1 + d[6] + d[8] + d[9]) % 2
      /\ crc[10][3] = (1 + d[5] + d[7] + d[9] + d[10]) % 2
      /\ crc[10][4] = (1 + d[6] + d[7] + d[10]) % 2
    BY <1>2, <1>3, <1>13 DEF Bits
<1>15. /\ crc[11][1] = (1 + d[6] + d[8] + d[9]) % 2 /\ crc[11][2] = (1 + d[5] + d[7] + d[9] + d[10]) % 2
      /\ crc[11][3] = (1 + d[5] + d[6] + d[8] + d[10] + d[11]) % 2
      /\ crc[11][4] = (d[5] + d[7] + d[8] + d[11]) % 2
    BY <1>2, <1>3, <1>14 DEF Bits
<1>16. /\ crc[12][1] = (1 + d[5] + d[7] + d[9] + d[10]) % 2 /\ crc[12][2] = (1 + d[5] + d[6] + d[8] + d[10] + d[11]) % 2
      /\ crc[12][3] = (1 + d[5] + d[6] + d[7] + d[9] + d[11] + d[12]) % 2
      /\ crc[12][4] = (1 + d[6] + d[8] + d[9] + d[12]) % 2
    BY <1>2, <1>3, <1>15 DEF Bits
<1>17. code = <<code[1], code[2], code[3], code[4]>>
    <2> DEFINE old == crc[11]
               in == d[12]
    <2>1. code = Crc4Step(old, in)
        BY <1>1
    <2> HIDE DEF old, in
    <2> QED BY <2>1 DEF Crc4Step
<1> QED BY <1>1, <1>16, <1>17

\* What a valid frame has: our version, and a CRC of the eight bits that follow it.
Parities(x) ==
    /\ x[13] = (1 + x[5] + x[7] + x[9] + x[10]) % 2
    /\ x[14] = (1 + x[5] + x[6] + x[8] + x[10] + x[11]) % 2
    /\ x[15] = (1 + x[5] + x[6] + x[7] + x[9] + x[11] + x[12]) % 2
    /\ x[16] = (1 + x[6] + x[8] + x[9] + x[12]) % 2

\* A valid frame has our version and those parities.
LEMMA ValidIs ==
    ASSUME NEW x \in Seq(Bits), Len(x) = 16, irtValid(x)
    PROVE  x[1] = 0 /\ x[2] = 0 /\ x[3] = 0 /\ x[4] = 1 /\ Parities(x)
<1> DEFINE d == SubSeq(x, 1, 12)
           v == SubSeq(x, 1, 4)
           c == SubSeq(x, 13, 16)
<1>1. \A k \in 1..16 : x[k] \in Bits
    BY ElementOfSeq
<1>2. \A k \in 1..12 : d[k] = x[k]
    BY <1>1, SubSeqProperties
<1>3. \A k \in 1..4 : v[k] = x[k] /\ c[k] = x[12 + k]
    BY <1>1, SubSeqProperties
<1>4. v = <<0, 0, 0, 1>> /\ irtCrc4(d) = c
    BY DEF irtValid, IRT_VERSION
<1> HIDE DEF d, v, c
<1>5. x[1] = 0 /\ x[2] = 0 /\ x[3] = 0 /\ x[4] = 1
    BY <1>3, <1>4
<1>6. /\ d[1] = 0 /\ d[2] = 0 /\ d[3] = 0 /\ d[4] = 1
      /\ \A k \in 5..12 : d[k] = x[k] /\ d[k] \in Bits
    BY <1>1, <1>2, <1>5
<1>7. /\ c[1] = (1 + d[5] + d[7] + d[9] + d[10]) % 2
      /\ c[2] = (1 + d[5] + d[6] + d[8] + d[10] + d[11]) % 2
      /\ c[3] = (1 + d[5] + d[6] + d[7] + d[9] + d[11] + d[12]) % 2
      /\ c[4] = (1 + d[6] + d[8] + d[9] + d[12]) % 2
    BY <1>4, <1>6, CrcBits
<1>8. /\ c[1] = x[13] /\ c[2] = x[14] /\ c[3] = x[15] /\ c[4] = x[16]
    BY <1>3
<1> QED BY <1>5, <1>6, <1>7, <1>8 DEF Parities

\* Two valid frames that differ in two bits at most are one.
THEOREM TwoErrors ==
    ASSUME NEW x \in Seq(Bits), Len(x) = 16, irtValid(x),
           NEW y \in Seq(Bits), Len(y) = 16, irtValid(y),
           NEW i \in 1..16, NEW j \in 1..16,
           \A k \in 1..16 : k # i /\ k # j => x[k] = y[k]
    PROVE  x = y
<1>1. \A k \in 1..16 : x[k] \in Bits /\ y[k] \in Bits
    BY ElementOfSeq
<1>2. /\ x[1] = y[1] /\ x[2] = y[2] /\ x[3] = y[3] /\ x[4] = y[4]
      /\ Parities(x) /\ Parities(y)
    BY ValidIs
<1>3. \A k \in 5..16 : x[k] = y[k]
    BY <1>1, <1>2, SMTT(60) DEF Parities, Bits
<1>4. \A k \in 1..16 : x[k] = y[k]
    BY <1>2, <1>3
<1> QED BY <1>4, SeqEqual

-----------------------------------------------------------------------------
(* The frame and its phases.                                               *)

\* Where the elements of two sequences are in their concatenation.
LEMMA Joined ==
    ASSUME NEW S, NEW s \in Seq(S), NEW t \in Seq(S), NEW r, r = s \o t
    PROVE  /\ r \in Seq(S) /\ Len(r) = Len(s) + Len(t)
           /\ \A k \in 1..Len(s) : r[k] = s[k]
           /\ \A k \in (Len(s) + 1)..(Len(s) + Len(t)) : r[k] = t[k - Len(s)]
<1>1. /\ r \in Seq(S) /\ Len(r) = Len(s) + Len(t)
      /\ \A k \in 1..Len(s) + Len(t) : r[k] = IF k <= Len(s) THEN s[k] ELSE t[k - Len(s)]
    BY ConcatProperties
<1>2. Len(s) \in Nat /\ Len(t) \in Nat
    BY LenProperties
<1> QED BY <1>1, <1>2

\* A station encodes sixteen bits that any decoder of its version accepts.
LEMMA EncodeIs ==
    ASSUME NEW shot \in [shooterId : 0..15, damage : 0..255]
    PROVE  LET code == irtEncode(shot.shooterId, shot.damage)
           IN  /\ code \in Seq(Bits) /\ Len(code) = 16 /\ irtValid(code)
               /\ shot.damage <= 15 => irtDecodeFrame(code) = Meant(shot)
<1> DEFINE s == shot.shooterId
           dmg == IF shot.damage = 0 THEN 1 ELSE shot.damage
           a == Nibble(s)
           b == Nibble(dmg)
           d == IRT_VERSION \o a \o b
           c == irtCrc4(d)
<1>1. s \in 0..15 /\ dmg \in 1..255
    OBVIOUS
<1>2. /\ a \in Seq(Bits) /\ Len(a) = 4 /\ b \in Seq(Bits) /\ Len(b) = 4
      /\ IRT_VERSION \in Seq(Bits) /\ Len(IRT_VERSION) = 4
    <2> HIDE DEF s, dmg
    <2>1. \A n \in Nat : Nibble(n) \in Seq(Bits) /\ Len(Nibble(n)) = 4
        <3> TAKE n \in Nat
        <3>1. (n \div 8) % 2 \in Bits /\ (n \div 4) % 2 \in Bits /\ (n \div 2) % 2 \in Bits
                /\ n % 2 \in Bits
            BY DEF Bits
        <3> DEFINE n1 == (n \div 8) % 2
                   n2 == (n \div 4) % 2
                   n3 == (n \div 2) % 2
                   n4 == n % 2
        <3>2. Nibble(n) = <<n1, n2, n3, n4>>
            BY DEF Nibble
        <3> HIDE DEF n1, n2, n3, n4
        <3>3. <<n1, n2, n3, n4>> \in Seq(Bits) /\ Len(<<n1, n2, n3, n4>>) = 4
            BY <3>1 DEF n1, n2, n3, n4
        <3> QED BY <3>2, <3>3
    <2>2. s \in Nat /\ dmg \in Nat
        BY <1>1
    <2> QED BY <2>1, <2>2 DEF IRT_VERSION, Bits
<1>3. irtEncode(shot.shooterId, shot.damage) = d \o c
    BY DEF irtEncode
<1> HIDE DEF s, dmg, a, b
<1>4. /\ d \in Seq(Bits) /\ Len(d) = 12
      /\ \A k \in 1..4 : d[k] = IRT_VERSION[k] /\ d[4 + k] = a[k] /\ d[8 + k] = b[k]
    <2>0. PICK e : e = IRT_VERSION \o a
        OBVIOUS
    <2>1. e = IRT_VERSION \o a /\ d = e \o b
        BY <2>0
    <2> HIDE DEF d
    <2>2. /\ e \in Seq(Bits) /\ Len(e) = 8
          /\ \A k \in 1..4 : e[k] = IRT_VERSION[k]
          /\ \A k \in 5..8 : e[k] = a[k - 4]
        <3>a. /\ e \in Seq(Bits) /\ Len(e) = Len(IRT_VERSION) + Len(a)
              /\ \A k \in 1..Len(IRT_VERSION) : e[k] = IRT_VERSION[k]
              /\ \A k \in (Len(IRT_VERSION) + 1)..(Len(IRT_VERSION) + Len(a)) : e[k] = a[k - Len(IRT_VERSION)]
            <4>1. IRT_VERSION \in Seq(Bits) /\ a \in Seq(Bits)
                BY <1>2
            <4> QED BY <2>1, <4>1, Joined
        <3> QED BY <1>2, <3>a
    <2>3. /\ d \in Seq(Bits) /\ Len(d) = 12
          /\ \A k \in 1..8 : d[k] = e[k]
          /\ \A k \in 9..12 : d[k] = b[k - 8]
        <3>a. /\ d \in Seq(Bits) /\ Len(d) = Len(e) + Len(b)
              /\ \A k \in 1..Len(e) : d[k] = e[k]
              /\ \A k \in (Len(e) + 1)..(Len(e) + Len(b)) : d[k] = b[k - Len(e)]
            BY <1>2, <2>1, <2>2, Joined
        <3> QED BY <1>2, <2>2, <3>a
    <2>4. ASSUME NEW k \in 1..4 PROVE d[k] = IRT_VERSION[k] /\ d[4 + k] = a[k] /\ d[8 + k] = b[k]
        BY <2>2, <2>3
    <2> QED BY <2>3, <2>4
<1> HIDE DEF d
<1>5. c \in Seq(Bits) /\ Len(c) = 4
    <2>1. /\ d[1] = 0 /\ d[2] = 0 /\ d[3] = 0 /\ d[4] = 1
          /\ \A k \in 5..12 : d[k] \in Bits
        <3>1. \A k \in 1..12 : d[k] \in Bits
            BY <1>4, ElementOfSeq
        <3> QED BY <1>4, <3>1 DEF IRT_VERSION
    <2>2. d[5] \in Bits /\ d[6] \in Bits /\ d[7] \in Bits /\ d[8] \in Bits /\ d[9] \in Bits
            /\ d[10] \in Bits /\ d[11] \in Bits /\ d[12] \in Bits
        BY <2>1
    <2>3. /\ c[1] = (1 + d[5] + d[7] + d[9] + d[10]) % 2
          /\ c[2] = (1 + d[5] + d[6] + d[8] + d[10] + d[11]) % 2
          /\ c[3] = (1 + d[5] + d[6] + d[7] + d[9] + d[11] + d[12]) % 2
          /\ c[4] = (1 + d[6] + d[8] + d[9] + d[12]) % 2
          /\ c = <<c[1], c[2], c[3], c[4]>>
        BY <2>1, CrcBits
    <2>4. c[1] \in Bits /\ c[2] \in Bits /\ c[3] \in Bits /\ c[4] \in Bits
        BY <2>2, <2>3 DEF Bits
    <2> DEFINE c1 == c[1]
               c2 == c[2]
               c3 == c[3]
               c4 == c[4]
    <2> HIDE DEF c1, c2, c3, c4
    <2>5. <<c1, c2, c3, c4>> \in Seq(Bits) /\ Len(<<c1, c2, c3, c4>>) = 4
        BY <2>4 DEF c1, c2, c3, c4
    <2> QED BY <2>3, <2>5 DEF c1, c2, c3, c4
<1> HIDE DEF c
<1>6a. PICK code : code = d \o c
    OBVIOUS
<1>6. /\ code \in Seq(Bits) /\ Len(code) = 16
      /\ \A k \in 1..12 : code[k] = d[k]
      /\ \A k \in 13..16 : code[k] = c[k - 12]
    <2>a. /\ code \in Seq(Bits) /\ Len(code) = Len(d) + Len(c)
          /\ \A k \in 1..Len(d) : code[k] = d[k]
          /\ \A k \in (Len(d) + 1)..(Len(d) + Len(c)) : code[k] = c[k - Len(d)]
        <3>1. d \in Seq(Bits) /\ c \in Seq(Bits)
            BY <1>4, <1>5
        <3> QED BY <1>6a, <3>1, Joined
    <2> QED BY <1>4, <1>5, <2>a
<1>7. SubSeq(code, 1, 12) = d /\ SubSeq(code, 13, 16) = c /\ SubSeq(code, 1, 4) = IRT_VERSION
    <2>1. \A k \in 1..16 : code[k] \in Bits
        BY <1>6, ElementOfSeq
    <2>2. /\ SubSeq(code, 1, 12) \in Seq(Bits) /\ Len(SubSeq(code, 1, 12)) = 12
          /\ \A k \in 1..12 : SubSeq(code, 1, 12)[k] = code[k]
        BY <2>1, SubSeqProperties
    <2>3. /\ SubSeq(code, 13, 16) \in Seq(Bits) /\ Len(SubSeq(code, 13, 16)) = 4
          /\ \A k \in 1..4 : SubSeq(code, 13, 16)[k] = code[12 + k]
        BY <2>1, SubSeqProperties
    <2>4. /\ SubSeq(code, 1, 4) \in Seq(Bits) /\ Len(SubSeq(code, 1, 4)) = 4
          /\ \A k \in 1..4 : SubSeq(code, 1, 4)[k] = code[k]
        BY <2>1, SubSeqProperties
    <2>5. SubSeq(code, 1, 12) = d
        BY <1>4, <1>6, <2>2, SeqEqual
    <2>6. SubSeq(code, 13, 16) = c
        BY <1>5, <1>6, <2>3, SeqEqual
    <2>7. SubSeq(code, 1, 4) = IRT_VERSION
        BY <1>2, <1>4, <1>6, <2>4, SeqEqual
    <2> QED BY <2>5, <2>6, <2>7
<1>8. irtValid(code)
    BY <1>7 DEF irtValid, c
<1>9. ASSUME shot.damage <= 15
      PROVE  irtDecodeFrame(code) = Meant(shot)
    <2>1. \A n \in 0..15 : Value(Nibble(n)) = n
        BY DEF Value, Nibble
    <2>2. \A x, y : x[1] = y[1] /\ x[2] = y[2] /\ x[3] = y[3] /\ x[4] = y[4] => Value(x) = Value(y)
        BY DEF Value
    <2>3. \A k \in 1..16 : code[k] \in Bits
        BY <1>6, ElementOfSeq
    <2>4. /\ \A k \in 1..4 : SubSeq(code, 5, 8)[k] = code[4 + k]
          /\ \A k \in 1..4 : SubSeq(code, 9, 12)[k] = code[8 + k]
        BY <2>3, SubSeqProperties
    <2>5. \A k \in 1..4 : SubSeq(code, 5, 8)[k] = a[k] /\ SubSeq(code, 9, 12)[k] = b[k]
        BY <1>4, <1>6, <2>4
    <2>6. Value(SubSeq(code, 5, 8)) = Value(a) /\ Value(SubSeq(code, 9, 12)) = Value(b)
        <3> DEFINE u == SubSeq(code, 5, 8)
                   v == SubSeq(code, 9, 12)
        <3>1. /\ u[1] = a[1] /\ u[2] = a[2] /\ u[3] = a[3] /\ u[4] = a[4]
              /\ v[1] = b[1] /\ v[2] = b[2] /\ v[3] = b[3] /\ v[4] = b[4]
            BY <2>5
        <3> HIDE DEF u, v
        <3>2. Value(u) = Value(a) /\ Value(v) = Value(b)
            BY <2>2, <3>1
        <3> QED BY <3>2 DEF u, v
    <2>7. Value(a) = s /\ Value(b) = dmg
        <3>1. s \in 0..15 /\ dmg \in 0..15
            <4>1. shot.damage \in 0..255
                OBVIOUS
            <4> QED BY <1>1, <1>9, <4>1 DEF dmg
        <3>2. a = Nibble(s) /\ b = Nibble(dmg)
            BY DEF a, b
        <3> QED BY <2>1, <3>1, <3>2
    <2>8. irtDecodeFrame(code) = [shooterId |-> s, damage |-> dmg]
        BY <2>6, <2>7 DEF irtDecodeFrame
    <2>9. Meant(shot) = [shooterId |-> s, damage |-> dmg]
        BY DEF Meant, s, dmg
    <2> QED BY <2>8, <2>9
<1> QED BY <1>3, <1>6a, <1>6, <1>8, <1>9

\* The phases of a telegram: the header, sixteen bits, the stop mark.
PhaseOf(code, p) ==
    CASE p = 1 -> Mark(2400)
      [] p = 2 -> Space(600)
      [] p > 2 /\ p % 2 = 1 -> Mark(600)
      [] p > 2 /\ p % 2 = 0 -> Space(IF code[(p - 2) \div 2] = 1 THEN 1200 ELSE 600)

\* A phase is a level and a time.
LEMMA PhaseType ==
    ASSUME NEW us \in Nat
    PROVE  Mark(us) \in BOOLEAN \X Nat /\ Space(us) \in BOOLEAN \X Nat
<1>1. \A S, T : \A x \in S, y \in T : <<x, y>> \in S \X T
    OBVIOUS
<1>2. TRUE \in BOOLEAN /\ FALSE \in BOOLEAN
    OBVIOUS
<1> QED BY <1>1, <1>2, Zenon DEF Mark, Space

\* irtTimings puts every phase where PhaseOf says.
LEMMA TimingsAre ==
    ASSUME NEW code, NEW t, t = irtTimings(code)
    PROVE  /\ t \in Seq(BOOLEAN \X Nat) /\ Len(t) = 35
           /\ \A p \in 1..35 : t[p] = PhaseOf(code, p)
<1> DEFINE e(k) == IF k % 2 = 1 THEN Mark(600)
                   ELSE Space(IF code[k \div 2] = 1 THEN 1200 ELSE 600)
           h == <<Mark(2400), Space(600)>>
           b == [k \in 1..33 |-> e(k)]
<1>3. t = h \o b
    <2>1. 2 * IRT_BITS + 1 = 33
        BY DEF IRT_BITS
    <2>2. t = h \o [k \in 1..(2 * IRT_BITS + 1) |-> e(k)]
        BY DEF irtTimings
    <2>3. [k \in 1..(2 * IRT_BITS + 1) |-> e(k)] = b
        BY <2>1
    <2> HIDE DEF e, h, b
    <2> QED BY <2>2, <2>3
<1>4. h \in Seq(BOOLEAN \X Nat) /\ Len(h) = 2 /\ h[1] = Mark(2400) /\ h[2] = Space(600)
    <2>1. Mark(2400) \in BOOLEAN \X Nat /\ Space(600) \in BOOLEAN \X Nat
        BY PhaseType
    <2> QED BY <2>1
<1>5. b \in Seq(BOOLEAN \X Nat) /\ Len(b) = 33 /\ \A k \in 1..33 : b[k] = e(k)
    <2>1. \A k : e(k) \in BOOLEAN \X Nat
        BY PhaseType
    <2> HIDE DEF e
    <2> QED BY <2>1
<1> HIDE DEF h, b
<1> HIDE DEF e
<1>6. /\ t \in Seq(BOOLEAN \X Nat) /\ Len(t) = 35
      /\ \A k \in 1..2 : t[k] = h[k]
      /\ \A k \in 3..35 : t[k] = b[k - 2]
    <2>1. h \in Seq(BOOLEAN \X Nat) /\ b \in Seq(BOOLEAN \X Nat)
        BY <1>4, <1>5
    <2>2. /\ t \in Seq(BOOLEAN \X Nat) /\ Len(t) = Len(h) + Len(b)
          /\ \A k \in 1..Len(h) : t[k] = h[k]
          /\ \A k \in (Len(h) + 1)..(Len(h) + Len(b)) : t[k] = b[k - Len(h)]
        BY <1>3, <2>1, Joined
    <2> QED BY <1>4, <1>5, <2>2
<1>7. ASSUME NEW p \in 3..35 PROVE t[p] = PhaseOf(code, p)
    <2>1. t[p] = e(p - 2)
        <3>1. p - 2 \in 1..33
            OBVIOUS
        <3>2. b[p - 2] = e(p - 2)
            BY <1>5, <3>1
        <3> QED BY <1>6, <3>2
    <2>2. (p - 2) % 2 = p % 2 /\ p % 2 \in {0, 1} /\ p > 2 /\ p # 1 /\ p # 2
        OBVIOUS
    <2> QED BY <2>1, <2>2 DEF PhaseOf, e
<1>8. t[1] = PhaseOf(code, 1) /\ t[2] = PhaseOf(code, 2)
    BY <1>4, <1>6 DEF PhaseOf
<1>9. ASSUME NEW p \in 1..35 PROVE t[p] = PhaseOf(code, p)
    BY <1>7, <1>8
<1> QED BY <1>6, <1>9

\* How the receiver sees the phases: each in its window, the spaces far enough
\* from the threshold.
LEMMA WindowsAre ==
    ASSUME AirAssumption, NEW skew \in Skews
    PROVE  /\ Seen(Mark(2400), skew) \in HdrMark \ BitMarks
           /\ Seen(Space(600), skew) \in HdrSpace
           /\ Seen(Mark(600), skew) \in BitMarks \ HdrMark
<1>1. skew \in Int /\ -299 <= skew /\ skew <= 300
    BY DEF AirAssumption
<1>2. /\ Seen(Mark(2400), skew) = 2400 + skew /\ Seen(Space(600), skew) = 600 - skew
      /\ Seen(Mark(600), skew) = 600 + skew
    BY DEF Seen, Mark, Space
<1>3. 2400 + skew \in HdrMark \ BitMarks
    BY <1>1 DEF HdrMark, BitMarks
<1>4. 600 - skew \in HdrSpace
    BY <1>1 DEF HdrSpace
<1>5. 600 + skew \in BitMarks \ HdrMark
    BY <1>1 DEF HdrMark, BitMarks
<1> QED BY <1>2, <1>3, <1>4, <1>5

-----------------------------------------------------------------------------
(* Type correctness.                                                       *)

\* What a phase does to the decoder: it is collected, reported or dropped.
LEMMA FeedTypes ==
    ASSUME TypeOK, NEW mark, NEW us \in Int, feed(mark, us)
    PROVE  /\ state' \in {"IDLE", "HDR_SPACE", "BIT_MARK", "BIT_SPACE"}
           /\ acc' \in Seq({0, 1}) /\ Len(acc') <= 16
           /\ state' = "BIT_SPACE" => Len(acc') < 16
<1>1. /\ state \in {"IDLE", "HDR_SPACE", "BIT_MARK", "BIT_SPACE"}
      /\ acc \in Seq({0, 1}) /\ Len(acc) <= 16 /\ Len(acc) \in Nat
      /\ state = "BIT_SPACE" => Len(acc) < 16
    BY DEF TypeOK, IRT_BITS, nbits
<1>2. CASE HeaderSpace(mark, us) /\ NewFrame
    BY <1>2 DEF NewFrame
<1>3. CASE BitMark(mark, us) /\ nbits = IRT_BITS /\ Complete
    BY <1>1, <1>3 DEF Complete, nbits
<1>4. CASE BitMark(mark, us) /\ nbits < IRT_BITS /\ state' = "BIT_SPACE" /\ acc' = acc
    BY <1>1, <1>4 DEF IRT_BITS, nbits
<1>5. CASE BitSpace(mark, us) /\ state' = "BIT_MARK" /\ acc' = Append(acc, Bit(us))
    <2>1. Bit(us) \in {0, 1}
        BY DEF Bit
    <2>2. Len(acc) < 16
        BY <1>1, <1>5 DEF BitSpace
    <2>3. acc' \in Seq({0, 1}) /\ Len(acc') = Len(acc) + 1
        BY <1>1, <1>5, <2>1, AppendProperties
    <2> QED BY <1>1, <1>5, <2>2, <2>3
<1>6. CASE tryHeader(mark, us) /\ acc' = acc
    BY <1>1, <1>6 DEF tryHeader
<1> QED BY <1>2, <1>3, <1>4, <1>5, <1>6 DEF feed

\* A frame is reported by the stop mark of sixteen valid bits, or not at all.
Reports(mark, us) ==
    /\ BitMark(mark, us) /\ nbits = 16 /\ irtValid(acc)
    /\ frame' = acc /\ pending' = TRUE /\ which' = Len(fired)

\* A phase that reports nothing leaves the last frame alone.
LEMMA FeedReports ==
    ASSUME NEW mark, NEW us, feed(mark, us)
    PROVE  Reports(mark, us) \/ UNCHANGED <<pending, frame, which>>
<1>1. CASE HeaderSpace(mark, us) /\ NewFrame
    BY <1>1 DEF NewFrame
<1>2. CASE BitMark(mark, us) /\ nbits = IRT_BITS /\ Complete
    BY <1>2 DEF Complete, Reports, IRT_BITS
<1>3. CASE UNCHANGED <<pending, frame, which>>
    BY <1>3
<1> QED BY <1>1, <1>2, <1>3 DEF feed

\* Every phase keeps the types, whoever sent it.
LEMMA FeedKeepsTypes ==
    ASSUME TypeOK, NEW mark, NEW us \in Int, feed(mark, us),
           UNCHANGED <<taker, out, fired, taken, ambient>>,
           air' \in Seq(BOOLEAN \X Nat), misreads' \in 0..MaxMisread, clean' \in BOOLEAN
    PROVE  TypeOK'
<1>1. /\ state' \in {"IDLE", "HDR_SPACE", "BIT_MARK", "BIT_SPACE"}
      /\ acc' \in Seq({0, 1}) /\ Len(acc') <= 16
      /\ state' = "BIT_SPACE" => Len(acc') < 16
    BY FeedTypes
<1>2. /\ frame \in Seq({0, 1}) /\ pending \in BOOLEAN /\ which \in 0..Len(fired)
      /\ pending => Len(frame) = 16 /\ irtValid(frame)
      /\ acc \in Seq({0, 1}) /\ Len(fired) \in Nat
    BY DEF TypeOK, IRT_BITS, nbits
<1>3. /\ frame' \in Seq({0, 1}) /\ pending' \in BOOLEAN /\ which' \in 0..Len(fired)
      /\ pending' => Len(frame') = 16 /\ irtValid(frame')
      /\ pending => pending'
    <2>1. CASE Reports(mark, us)
        <3>1. frame' = acc /\ pending' = TRUE /\ which' = Len(fired) /\ Len(acc) = 16 /\ irtValid(acc)
            BY <2>1 DEF Reports, nbits
        <3> QED BY <1>2, <3>1
    <2>2. CASE UNCHANGED <<pending, frame, which>>
        BY <1>2, <2>2
    <2> QED BY <2>1, <2>2, FeedReports
<1>4. /\ taker' \in {"idle", "first", "second"} /\ (taker' # "idle" => pending')
      /\ taker' = "second" => out' \in Reading
      /\ fired' \in Seq(Shots) /\ taken' \in Seq(Reading)
      /\ Len(fired') <= MaxShots /\ ambient' \in 0..MaxAmbient /\ fired' = fired
    BY <1>3 DEF TypeOK
<1> QED BY <1>1, <1>3, <1>4 DEF TypeOK, IRT_BITS, nbits

\* A frame's fields are numbers.
LEMMA DecodeType ==
    ASSUME NEW f \in Seq(Bits), Len(f) = 16
    PROVE  irtDecodeFrame(f) \in [shooterId : Nat, damage : Nat]
<1>1. \A k \in 1..16 : f[k] \in Bits
    BY ElementOfSeq
<1>2. /\ \A k \in 1..4 : SubSeq(f, 5, 8)[k] = f[4 + k]
      /\ \A k \in 1..4 : SubSeq(f, 9, 12)[k] = f[8 + k]
    BY <1>1, SubSeqProperties
<1>3. \A k \in 1..4 : SubSeq(f, 5, 8)[k] \in Bits /\ SubSeq(f, 9, 12)[k] \in Bits
    <2>1. \A k \in 1..4 : 4 + k \in 1..16 /\ 8 + k \in 1..16
        OBVIOUS
    <2> QED BY <1>1, <1>2, <2>1
<1>4. \A b : (\A k \in 1..4 : b[k] \in Bits) => Value(b) \in Nat
    BY DEF Value, Bits
<1> QED BY <1>3, <1>4 DEF irtDecodeFrame

\* How many phases are to come, and how many bits have come.
LEMMA CountsAre ==
    ASSUME TypeOK
    PROVE  /\ left \in Nat /\ (air = <<>> <=> left = 0) /\ nbits \in Nat /\ nbits <= 16
           /\ state = "BIT_SPACE" => nbits < 16
<1>1. air \in Seq(BOOLEAN \X Nat) /\ acc \in Seq({0, 1})
    BY DEF TypeOK
<1>2. left \in Nat /\ (air = <<>> <=> left = 0) /\ nbits \in Nat
    BY <1>1 DEF left, nbits
<1>3. nbits <= 16 /\ (state = "BIT_SPACE" => nbits < 16)
    BY DEF TypeOK, IRT_BITS
<1> QED BY <1>2, <1>3

\* The phase that ends next, and those after it.
LEMMA PhaseIs ==
    ASSUME TypeOK, air # <<>>
    PROVE  /\ IsMark \in BOOLEAN /\ Duration \in Nat /\ Tail(air) \in Seq(BOOLEAN \X Nat)
           /\ ahead = air[1] /\ left \in Nat /\ left >= 1
           /\ Len(Tail(air)) = left - 1
           /\ \A k \in 1..(left - 1) : Tail(air)[k] = air[k + 1]
<1>1. air \in Seq(BOOLEAN \X Nat)
    BY DEF TypeOK
<1>2. Head(air) \in BOOLEAN \X Nat
    BY <1>1
<1> QED BY <1>1, <1>2 DEF IsMark, Duration, ahead, left

\* No step leaves the types.
LEMMA TypeStep ==
    ASSUME IrtAssumption, AirAssumption
    PROVE  TypeOK /\ [Next]_vars => TypeOK'
<1> SUFFICES ASSUME TypeOK, [Next]_vars PROVE TypeOK'
    OBVIOUS
<1>1. CASE Shoot
    <2>1. PICK shot \in Shots :
            /\ air' = irtTimings(irtEncode(shot.shooterId, shot.damage))
            /\ fired' = Append(fired, shot)
        BY <1>1 DEF Shoot
    <2>2. air' \in Seq(BOOLEAN \X Nat)
        BY <2>1, TimingsAre
    <2>3. fired \in Seq(Shots) /\ Len(fired) \in Nat /\ Len(fired) < MaxShots /\ MaxShots \in Nat
        BY <1>1 DEF Shoot, TypeOK, IrtAssumption
    <2>4. fired' \in Seq(Shots) /\ Len(fired') = Len(fired) + 1
        BY <2>1, <2>3, AppendProperties
    <2>5. which' \in 0..Len(fired') /\ Len(fired') <= MaxShots
        BY <1>1, <2>3, <2>4 DEF Shoot, TypeOK, decoder
    <2>6. misreads' \in 0..MaxMisread /\ clean' \in BOOLEAN
        BY <1>1 DEF Shoot, IrtAssumption
    <2> QED BY <1>1, <2>2, <2>4, <2>5, <2>6 DEF Shoot, TypeOK, nbits, decoder
<1>2. CASE OtherSender
    <2>1. air' \in Ambient /\ misreads' = 0 /\ clean' = FALSE
        BY <1>2 DEF OtherSender
    <2>3. air' \in Seq(BOOLEAN \X Nat)
        BY <2>1 DEF IrtAssumption
    <2>4. misreads' \in 0..MaxMisread
        BY <2>1 DEF IrtAssumption
    <2>5. clean' \in BOOLEAN
        BY <2>1, Zenon
    <2>2. ambient' \in 0..MaxAmbient
        BY <1>2 DEF OtherSender, TypeOK, IrtAssumption
    <2> QED BY <1>2, <2>2, <2>3, <2>4, <2>5 DEF OtherSender, TypeOK, nbits, decoder
<1>3. CASE Phase
    <2>1. PICK skew \in Skews : feed(IsMark, Seen(ahead, skew))
        BY <1>3 DEF Phase
    <2>2. air # <<>> /\ air' = Tail(air)
        BY <1>3 DEF Phase
    <2>3. air' \in Seq(BOOLEAN \X Nat) /\ Duration \in Nat
        BY <2>2, PhaseIs
    <2>4. Seen(ahead, skew) \in Int
        BY <2>3 DEF Seen, Duration, AirAssumption
    <2>5. misreads' \in 0..MaxMisread /\ clean' \in BOOLEAN
        BY <1>3 DEF Phase, TypeOK
    <2>6. UNCHANGED <<taker, out, fired, taken, ambient>>
        BY <1>3 DEF Phase
    <2> QED BY <2>1, <2>3, <2>4, <2>5, <2>6, FeedKeepsTypes
<1>4. CASE Misread
    <2>1. /\ misreads > 0 /\ left \in 2..(2 * IRT_BITS) /\ feed(IsMark, 1800 - Duration)
          /\ air' = Tail(air) /\ misreads' = misreads - 1 /\ clean' = FALSE
          /\ UNCHANGED <<taker, out, fired, taken, ambient>>
        BY <1>4 DEF Misread
    <2>2. air # <<>>
        BY <2>1, CountsAre DEF IRT_BITS
    <2>3. air' \in Seq(BOOLEAN \X Nat) /\ 1800 - Duration \in Int
        BY <2>1, <2>2, PhaseIs
    <2>4. misreads' \in 0..MaxMisread
        BY <2>1 DEF TypeOK, IrtAssumption
    <2>5. clean' \in BOOLEAN
        <3>1. clean' = FALSE
            BY <2>1
        <3> QED BY <3>1, Zenon
    <2> QED BY <2>1, <2>3, <2>4, <2>5, FeedKeepsTypes
<1>5. CASE CutOff
    <2>1. /\ \E us \in {100, 600, 1200, 5000} : feed(IsMark, us)
          /\ air' = <<>> /\ clean' = FALSE /\ misreads' = misreads
          /\ UNCHANGED <<taker, out, fired, taken, ambient>>
        BY <1>5 DEF CutOff
    <2>5. clean' \in BOOLEAN
        <3>1. clean' = FALSE
            BY <1>5 DEF CutOff
        <3> QED BY <3>1, Zenon
    <2>2. PICK us \in {100, 600, 1200, 5000} : feed(IsMark, us)
        BY <2>1
    <2>3. us \in Int
        OBVIOUS
    <2>4. air' \in Seq(BOOLEAN \X Nat) /\ misreads' \in 0..MaxMisread
        BY <2>1 DEF TypeOK
    <2> QED BY <2>1, <2>2, <2>3, <2>4, <2>5, FeedKeepsTypes
<1>6. CASE Take
    <2>1. CASE taker = "idle" /\ pending /\ taker' = "first" /\ UNCHANGED <<out, pending, taken>>
        BY <1>6, <2>1 DEF Take, TypeOK, nbits
    <2>2. CASE taker = "first" /\ taker' = "second" /\ out' = Read /\ UNCHANGED <<pending, taken>>
        <3>1. frame \in Seq(Bits) /\ Len(frame) = 16 /\ which \in Nat
            BY <2>2 DEF TypeOK, IRT_BITS, nbits, Bits
        <3>2. Read \in Reading
            BY <3>1, DecodeType DEF Read, Reading
        <3>3. out' \in Reading /\ taker' = "second" /\ UNCHANGED <<pending, taken>> /\ pending
            BY <2>2, <3>2 DEF TypeOK
        <3> QED BY <1>6, <3>3 DEF Take, TypeOK, nbits
    <2>3. CASE taker = "second" /\ taker' = "idle" /\ pending' = FALSE
               /\ taken' = Append(taken, out) /\ UNCHANGED out
        <3>1. taken' \in Seq(Reading)
            BY <2>3 DEF TypeOK
        <3> QED BY <1>6, <2>3, <3>1 DEF Take, TypeOK, nbits
    <2> QED BY <1>6, <2>1, <2>2, <2>3 DEF Take, take
<1>7. CASE reset
    <2>1. clean' \in BOOLEAN /\ ambient' \in 0..MaxAmbient
        BY <1>7 DEF reset, TypeOK, IrtAssumption
    <2> QED BY <1>7, <2>1 DEF reset, TypeOK, nbits
<1>8. CASE UNCHANGED vars
    BY <1>8 DEF vars, decoder, TypeOK, nbits
<1> QED BY <1>1, <1>2, <1>3, <1>4, <1>5, <1>6, <1>7, <1>8 DEF Next

-----------------------------------------------------------------------------
(* The decoder and the telegram on the air.                                *)

\* The phase of every place.
LEMMA HeaderAt ==
    ASSUME NEW code
    PROVE  PhaseOf(code, 1) = Mark(2400) /\ PhaseOf(code, 2) = Space(600)
    BY DEF PhaseOf

\* Mark n + 1 of the bits (the seventeenth is the stop mark).
LEMMA MarkAt ==
    ASSUME NEW code, NEW n \in 0..16, NEW p, p = 2 * n + 3
    PROVE  PhaseOf(code, p) = Mark(600)
<1>1. p % 2 = 1 /\ p > 2 /\ p # 1 /\ p # 2
    OBVIOUS
<1> QED BY <1>1 DEF PhaseOf

\* Space n + 1 of the bits.
LEMMA SpaceAt ==
    ASSUME NEW code, NEW n \in 0..15, NEW p, p = 2 * n + 4
    PROVE  /\ code[n + 1] = 1 => PhaseOf(code, p) = Space(1200)
           /\ code[n + 1] # 1 => PhaseOf(code, p) = Space(600)
<1>1. p % 2 = 0 /\ p > 2 /\ p # 1 /\ p # 2 /\ (p - 2) \div 2 = n + 1
    OBVIOUS
<1> QED BY <1>1 DEF PhaseOf

\* What feed() is given is the first of the phases to come.
LEMMA HeadIs ==
    ASSUME NEW us
    PROVE  /\ ahead = Mark(us) => IsMark /\ Duration = us
           /\ ahead = Space(us) => ~IsMark /\ Duration = us
<1>1. Mark(us)[1] /\ Mark(us)[2] = us
    BY DEF Mark
<1>2. ~Space(us)[1] /\ Space(us)[2] = us
    BY DEF Space
<1> QED BY <1>1, <1>2 DEF IsMark, Duration

\* The code of the last shot.
LEMMA CodeIs ==
    ASSUME IrtAssumption, TypeOK, NEW n \in 1..Len(fired)
    PROVE  /\ fired[n] \in [shooterId : 0..15, damage : 0..255]
           /\ Code(n) \in Seq(Bits) /\ Len(Code(n)) = 16 /\ irtValid(Code(n))
           /\ \A k \in 1..16 : Code(n)[k] \in Bits
<1>1. fired[n] \in [shooterId : 0..15, damage : 0..255]
    BY DEF TypeOK, IrtAssumption
<1>2. Code(n) \in Seq(Bits) /\ Len(Code(n)) = 16 /\ irtValid(Code(n))
    BY <1>1, EncodeIs DEF Code
<1>3. \A k \in 1..16 : Code(n)[k] \in Bits
    BY <1>2, ElementOfSeq
<1> QED BY <1>1, <1>2, <1>3

\* The next phase of a shot.
LEMMA ShotPhase ==
    ASSUME TypeOK, OfShot, air # <<>>
    PROVE  /\ left \in 1..35 /\ Len(fired) \in Nat /\ Len(fired) > 0
           /\ ahead = PhaseOf(Code(Len(fired)), 36 - left)
<1>1. left \in 1..35 /\ ahead = air[1]
    <2>1. left <= 35
        BY DEF OfShot
    <2>2. left \in Nat /\ left >= 1 /\ ahead = air[1]
        BY PhaseIs
    <2> QED BY <2>1, <2>2
<1>2. Len(fired) \in Nat /\ Len(fired) > 0
    <2>1. fired # <<>> /\ fired \in Seq(Shots)
        BY DEF OfShot, TypeOK
    <2> QED BY <2>1
<1> DEFINE code == Code(Len(fired))
           q == 36 - left
<1>3. \A k \in 1..left : air[k] = irtTimings(code)[35 - left + k]
    BY DEF OfShot
<1> HIDE DEF code
<1>4. air[1] = irtTimings(code)[q] /\ q \in 1..35
    <2>1. 1 \in 1..left /\ 35 - left + 1 = q
        BY <1>1
    <2> QED BY <1>1, <1>3, <2>1
<1> HIDE DEF q
<1>5. irtTimings(code)[q] = PhaseOf(code, q)
    BY <1>4, TimingsAre
<1> QED BY <1>1, <1>2, <1>4, <1>5 DEF code, q

\* What is left of a shot is still that shot.
LEMMA TailOfShot ==
    ASSUME TypeOK, OfShot, air # <<>>, air' = Tail(air), fired' = fired, which' = which
    PROVE  OfShot' /\ left' = left - 1
<1>1. /\ left' = left - 1 /\ left \in Nat
      /\ \A k \in 1..(left - 1) : air'[k] = air[k + 1]
    <2>1. left' = Len(Tail(air))
        BY DEF left
    <2> QED BY <2>1, PhaseIs
<1>2. left <= 35 /\ fired # <<>> /\ which < Len(fired)
    BY DEF OfShot
<1> DEFINE t == irtTimings(Code(Len(fired)))
<1>3. \A k \in 1..left : air[k] = t[35 - left + k]
    BY DEF OfShot
<1>4. t' = t
    BY DEF Code
<1> HIDE DEF t
<1>5. ASSUME NEW k \in 1..left' PROVE air'[k] = t[35 - left' + k]
    <2>1. k + 1 \in 1..left /\ 35 - left + (k + 1) = 35 - left' + k /\ k \in 1..(left - 1)
        BY <1>1
    <2> QED BY <1>1, <1>3, <2>1
<1>6. \A k \in 1..left' : air'[k] = t'[35 - left' + k]
    BY <1>4, <1>5
<1>7. fired' # <<>> /\ which' < Len(fired') /\ left' <= 35
    BY <1>1, <1>2
<1> QED BY <1>1, <1>6, <1>7 DEF OfShot, t

\* The wrong bits can be counted.
LEMMA WrongIs ==
    ASSUME TypeOK
    PROVE  IsFiniteSet(Wrong) /\ Cardinality(Wrong) \in Nat
<1>1. acc \in Seq(Bits)
    BY DEF TypeOK, Bits
<1>2. IsFiniteSet(DOMAIN acc)
    BY <1>1, FS_Interval
<1>3. Wrong \subseteq DOMAIN acc
    BY DEF Wrong
<1> QED BY <1>2, <1>3, FS_Subset, FS_CardinalityType

\* The wrong bits grow by one, or not at all.
LEMMA WrongGrows ==
    ASSUME TypeOK, NEW b \in Bits, acc' = Append(acc, b), fired' = fired
    PROVE  /\ IsFiniteSet(Wrong) /\ Cardinality(Wrong) \in Nat /\ Cardinality(Wrong') \in Nat
           /\ Cardinality(Wrong') <= Cardinality(Wrong) + 1
           /\ b = Code(Len(fired))[nbits + 1] => Wrong' = Wrong
<1> DEFINE c == Code(Len(fired))
           n == Len(acc)
<1>1. acc \in Seq(Bits) /\ n \in Nat
    BY DEF TypeOK, Bits
<1>2. DOMAIN acc = 1..n /\ DOMAIN acc' = 1..(n + 1) /\ acc'[n + 1] = b
        /\ \A k \in 1..n : acc'[k] = acc[k]
    <2>1. acc' \in Seq(Bits) /\ Len(acc') = n + 1
        BY <1>1, AppendProperties
    <2> QED BY <1>1, <2>1, AppendProperties
<1>3. c' = c
    BY DEF Code
<1> HIDE DEF c, n
<1>4. Wrong = {k \in 1..n : acc[k] # c[k]} /\ Wrong' = {k \in 1..(n + 1) : acc'[k] # c[k]}
    BY <1>2, <1>3 DEF Wrong, c
<1>5. Wrong' \subseteq Wrong \cup {n + 1} /\ (b = c[n + 1] => Wrong' = Wrong)
    BY <1>1, <1>2, <1>4
<1>6. IsFiniteSet(1..n) /\ Wrong \subseteq 1..n
    BY <1>1, <1>4, FS_Interval
<1>7. IsFiniteSet(Wrong) /\ Cardinality(Wrong) \in Nat
    BY <1>6, FS_Subset, FS_CardinalityType
<1>8. /\ IsFiniteSet(Wrong \cup {n + 1})
      /\ Cardinality(Wrong \cup {n + 1}) <= Cardinality(Wrong) + 1
    <2>1. /\ IsFiniteSet(Wrong \cup {n + 1})
          /\ Cardinality(Wrong \cup {n + 1}) =
               IF n + 1 \in Wrong THEN Cardinality(Wrong) ELSE Cardinality(Wrong) + 1
        BY <1>7, FS_AddElement
    <2> QED BY <1>7, <2>1
<1>9. IsFiniteSet(Wrong') /\ Cardinality(Wrong') <= Cardinality(Wrong \cup {n + 1})
    BY <1>5, <1>8, FS_Subset
<1>10. Cardinality(Wrong') \in Nat /\ Cardinality(Wrong \cup {n + 1}) \in Nat
    BY <1>8, <1>9, FS_CardinalityType
<1>11. nbits = n
    BY DEF nbits, n
<1> QED BY <1>5, <1>7, <1>8, <1>9, <1>10, <1>11 DEF c

\* Nothing is wrong with the bits of a telegram that was not misread.
LEMMA NothingWrong ==
    ASSUME IrtAssumption, TypeOK, nbits = 16, fired # <<>>, Faithful, misreads = MaxMisread
    PROVE  acc = Code(Len(fired))
<1> DEFINE c == Code(Len(fired))
           n == Len(acc)
<1>1. acc \in Seq(Bits) /\ Len(fired) \in 1..Len(fired) /\ n \in Nat
    BY DEF TypeOK, Bits
<1>2. c \in Seq(Bits) /\ Len(c) = 16
    BY <1>1, CodeIs
<1>3. n = 16
    BY DEF nbits
<1> HIDE DEF c, n
<1>4. Wrong = {k \in 1..n : acc[k] # c[k]}
    BY <1>1 DEF Wrong, c, n
<1>5. IsFiniteSet(Wrong) /\ Cardinality(Wrong) \in Nat
    <2>1. IsFiniteSet(1..n)
        BY <1>1, FS_Interval
    <2> QED BY <1>4, <2>1, FS_Subset, FS_CardinalityType
<1>6. Cardinality(Wrong) = 0
    BY <1>5 DEF Faithful, IrtAssumption
<1>7. Wrong = {}
    BY <1>5, <1>6, FS_EmptySet
<1>8. \A k \in 1..n : acc[k] = c[k]
    BY <1>4, <1>7
<1>9. Len(c) = n
    BY <1>2, <1>3
<1>10. acc = c
    BY <1>1, <1>2, <1>8, <1>9, SeqEqual DEF n
<1> QED BY <1>10 DEF c

\* A space is collected right or wrong, and Faithful counts the wrong ones.
LEMMA SpaceKeeps ==
    ASSUME TypeOK, NEW b \in Bits, acc' = Append(acc, b), fired' = fired, Faithful,
           misreads \in Nat, misreads' \in Nat, MaxMisread \in Nat,
           \/ b = Code(Len(fired))[nbits + 1] /\ misreads' = misreads
           \/ misreads' = misreads - 1
    PROVE  Faithful' /\ nbits' = nbits + 1
<1>1. /\ Cardinality(Wrong) \in Nat /\ Cardinality(Wrong') \in Nat
      /\ Cardinality(Wrong') <= Cardinality(Wrong) + 1
      /\ b = Code(Len(fired))[nbits + 1] => Wrong' = Wrong
    BY WrongGrows
<1>2. Cardinality(Wrong') + misreads' <= MaxMisread
    BY <1>1 DEF Faithful
<1>3. nbits' = nbits + 1
    <2>1. acc \in Seq(Bits)
        BY DEF TypeOK, Bits
    <2> QED BY <2>1, AppendProperties DEF nbits
<1> QED BY <1>2, <1>3 DEF Faithful

\* A header that has just been received has no bits yet.
LEMMA NoneWrong ==
    ASSUME TypeOK, acc' = <<>>, misreads' = misreads
    PROVE  Faithful' /\ nbits' = 0
<1>1. Wrong' = {} /\ nbits' = 0
    BY DEF Wrong, nbits
<1>2. Cardinality(Wrong') = 0
    BY <1>1, FS_EmptySet
<1>3. misreads \in 0..MaxMisread
    BY DEF TypeOK
<1> QED BY <1>1, <1>2, <1>3 DEF Faithful

\* Which branch of feed a phase takes.
LEMMA FeedBranch ==
    ASSUME NEW mark, NEW us, feed(mark, us)
    PROVE  /\ HeaderSpace(mark, us) => state' = "BIT_MARK" /\ acc' = <<>>
           /\ BitMark(mark, us) /\ nbits < 16 => state' = "BIT_SPACE" /\ acc' = acc
           /\ BitSpace(mark, us) => state' = "BIT_MARK" /\ acc' = Append(acc, Bit(us))
           /\ BitMark(mark, us) /\ nbits = 16 =>
                /\ state' = "IDLE" /\ acc' = acc
                /\ irtValid(acc) => Reports(mark, us)
           /\ ~(HeaderSpace(mark, us) \/ BitMark(mark, us) \/ BitSpace(mark, us)) =>
                /\ state' = IF mark /\ us \in HdrMark THEN "HDR_SPACE" ELSE "IDLE"
                /\ acc' = acc /\ UNCHANGED <<pending, frame, which>>
<1>1. /\ HeaderSpace(mark, us) => ~BitMark(mark, us) /\ ~BitSpace(mark, us)
      /\ BitMark(mark, us) => ~HeaderSpace(mark, us) /\ ~BitSpace(mark, us)
      /\ BitSpace(mark, us) => ~HeaderSpace(mark, us) /\ ~BitMark(mark, us)
    BY DEF HeaderSpace, BitMark, BitSpace
<1>2. CASE HeaderSpace(mark, us) /\ NewFrame
    BY <1>1, <1>2 DEF NewFrame
<1>3. CASE BitMark(mark, us) /\ nbits = IRT_BITS /\ Complete
    BY <1>1, <1>3 DEF Complete, Reports, IRT_BITS
<1>4. CASE BitMark(mark, us) /\ nbits < IRT_BITS /\ state' = "BIT_SPACE"
           /\ UNCHANGED <<acc, pending, frame, which>>
    BY <1>1, <1>4 DEF IRT_BITS
<1>5. CASE BitSpace(mark, us) /\ state' = "BIT_MARK" /\ acc' = Append(acc, Bit(us))
    BY <1>1, <1>5
<1>6. CASE ~(HeaderSpace(mark, us) \/ BitMark(mark, us) \/ BitSpace(mark, us))
           /\ tryHeader(mark, us) /\ UNCHANGED <<acc, pending, frame, which>>
    BY <1>6 DEF tryHeader
<1> QED BY <1>2, <1>3, <1>4, <1>5, <1>6 DEF feed

\* How long the spaces of bits are.
SpaceLengths == {600, 1200}
\* The bit a space of that length stands for.
BitOf(d) == IF d = 1200 THEN 1 ELSE 0

\* Whatever the skew, Bit() reads it from what the receiver made of it.
LEMMA SpaceBit ==
    ASSUME AirAssumption, NEW d \in SpaceLengths, NEW skew \in Skews
    PROVE  Seen(Space(d), skew) \in BitSpaces /\ Bit(Seen(Space(d), skew)) = BitOf(d)
<1>1. skew \in -299..300
    BY DEF AirAssumption
<1>2. Seen(Space(d), skew) = d - skew
    BY DEF Seen, Space
<1>3. CASE d = 600
    <2>1. 600 - skew \in BitSpaces /\ ~(600 - skew >= 900)
        BY <1>1 DEF BitSpaces
    <2> QED BY <1>2, <1>3, <2>1 DEF Bit, BitOf
<1>4. CASE d = 1200
    <2>1. 1200 - skew \in BitSpaces /\ 1200 - skew >= 900
        BY <1>1 DEF BitSpaces
    <2> QED BY <1>2, <1>4, <2>1 DEF Bit, BitOf
<1> QED BY <1>3, <1>4 DEF SpaceLengths

\* What the decoder is fed while a shot is on the air, right or misread.
Shape(mark, us) ==
    /\ left = 35 => mark /\ us \in HdrMark \ BitMarks
    /\ left = 34 => ~mark /\ us \in HdrSpace
    /\ \A n \in 0..16 : left = 33 - 2 * n => mark /\ us \in BitMarks \ HdrMark
    /\ \A n \in 0..15 : left = 32 - 2 * n => ~mark /\ us \in BitSpaces
\* The phase, if it is a space, is read as the bit it stands for.
BitRight(us) ==
    \A n \in 0..15 : left = 32 - 2 * n => Bit(us) = Code(Len(fired))[n + 1]
\* A phase read right, and one misread.
Right(us) == misreads' = misreads /\ clean' = clean /\ BitRight(us)
Misheard ==
    /\ misreads' = misreads - 1 /\ clean' = FALSE
    /\ left \in 2..32

\* What the decoder sees of a shot: the header, marks and spaces in turn, and
\* every space is the bit it stands for.
LEMMA ShotSeen ==
    ASSUME IrtAssumption, AirAssumption, TypeOK, OfShot, air # <<>>,
           NEW skew \in Skews, NEW us, us = Seen(ahead, skew)
    PROVE  Shape(IsMark, us) /\ BitRight(us)
<1> DEFINE code == Code(Len(fired))
           p == 36 - left
<1>1. left \in 1..35 /\ ahead = PhaseOf(code, p)
    BY ShotPhase
<1>2. \A k \in 1..16 : code[k] \in Bits
    <2>1. Len(fired) \in 1..Len(fired)
        BY ShotPhase
    <2> QED BY <2>1, CodeIs
<1>3. \A d : (ahead = Mark(d) => IsMark) /\ (ahead = Space(d) => ~IsMark)
    BY HeadIs
<1> HIDE DEF code
<1>4. ASSUME left = 35 PROVE IsMark /\ us \in HdrMark \ BitMarks
    <2>1. ahead = Mark(2400)
        BY <1>1, <1>4, HeaderAt
    <2> QED BY <1>1, <1>3, <2>1, WindowsAre
<1>5. ASSUME left = 34 PROVE ~IsMark /\ us \in HdrSpace
    <2>1. ahead = Space(600)
        BY <1>1, <1>5, HeaderAt
    <2> QED BY <1>1, <1>3, <2>1, WindowsAre
<1>6. ASSUME NEW n \in 0..16, left = 33 - 2 * n PROVE IsMark /\ us \in BitMarks \ HdrMark
    <2>1. p = 2 * n + 3
        BY <1>6
    <2> HIDE DEF p
    <2>2. ahead = Mark(600)
        BY <1>1, <2>1, MarkAt
    <2> QED BY <1>1, <1>3, <2>2, WindowsAre
<1>7. ASSUME NEW n \in 0..15, left = 32 - 2 * n
      PROVE  ~IsMark /\ us \in BitSpaces /\ Bit(us) = code[n + 1]
    <2> DEFINE d == IF code[n + 1] = 1 THEN 1200 ELSE 600
    <2>1. p = 2 * n + 4
        BY <1>7
    <2> HIDE DEF p
    <2>2. ahead = Space(d)
        <3>1. /\ code[n + 1] = 1 => ahead = Space(1200)
              /\ code[n + 1] # 1 => ahead = Space(600)
            BY <1>1, <2>1, SpaceAt
        <3> QED BY <3>1
    <2>3. d \in SpaceLengths /\ code[n + 1] = BitOf(d)
        <3>1. n + 1 \in 1..16
            OBVIOUS
        <3> QED BY <1>2, <3>1 DEF Bits, SpaceLengths, BitOf
    <2> HIDE DEF d
    <2>4. us \in BitSpaces /\ Bit(us) = BitOf(d)
        BY <2>2, <2>3, SpaceBit
    <2> QED BY <1>3, <2>2, <2>3, <2>4
<1>8. Shape(IsMark, us)
    BY <1>4, <1>5, <1>6, <1>7 DEF Shape
<1>9. BitRight(us)
    <2>1. \A n \in 0..15 : left = 32 - 2 * n => Bit(us) = code[n + 1]
        BY <1>7
    <2> QED BY <2>1 DEF code, BitRight
<1> QED BY <1>8, <1>9

\* A misread space is a space of the other bit.
LEMMA ShotMisread ==
    ASSUME IrtAssumption, TypeOK, OfShot, air # <<>>, NEW n \in 0..15, left = 32 - 2 * n
    PROVE  ~IsMark /\ 1800 - Duration \in BitSpaces
<1> DEFINE code == Code(Len(fired))
           d == IF code[n + 1] = 1 THEN 1200 ELSE 600
           p == 36 - left
<1>1. ahead = PhaseOf(code, p)
    BY ShotPhase
<1>2. ahead = Space(d) => ~IsMark /\ Duration = d
    BY HeadIs
<1> HIDE DEF code
<1>3. p = 2 * n + 4
    OBVIOUS
<1> HIDE DEF p
<1>4. ahead = Space(d)
    <2>1. /\ code[n + 1] = 1 => ahead = Space(1200)
          /\ code[n + 1] # 1 => ahead = Space(600)
        BY <1>1, <1>3, SpaceAt
    <2> QED BY <2>1
<1>5. d \in {600, 1200}
    OBVIOUS
<1> HIDE DEF d
<1> QED BY <1>2, <1>4, <1>5 DEF BitSpaces

\* The phases of the bits that are no spaces are marks.
LEMMA ShotMark ==
    ASSUME TypeOK, OfShot, air # <<>>, NEW n \in 0..16, left = 33 - 2 * n
    PROVE  IsMark
<1> DEFINE code == Code(Len(fired))
           p == 36 - left
<1>1. ahead = PhaseOf(code, p)
    BY ShotPhase
<1>2. ahead = Mark(600) => IsMark
    BY HeadIs
<1> HIDE DEF code
<1>3. p = 2 * n + 3
    OBVIOUS
<1> HIDE DEF p
<1>4. PhaseOf(code, p) = Mark(600)
    BY <1>3, MarkAt
<1> QED BY <1>1, <1>2, <1>4

\* Every phase of a shot is a mark or a space of a bit, or of the header.
LEMMA Places ==
    ASSUME NEW l \in 1..34
    PROVE  l = 34 \/ (\E n \in 0..16 : l = 33 - 2 * n) \/ (\E n \in 0..15 : l = 32 - 2 * n)
<1>1. CASE l % 2 = 1
    <2>1. (33 - l) \div 2 \in 0..16 /\ l = 33 - 2 * ((33 - l) \div 2)
        BY <1>1
    <2> QED BY <2>1
<1>2. CASE l % 2 = 0 /\ l # 34
    <2>1. (32 - l) \div 2 \in 0..15 /\ l = 32 - 2 * ((32 - l) \div 2)
        BY <1>2
    <2> QED BY <2>1
<1> QED BY <1>1, <1>2

\* A phase that reports nothing leaves which alone.
LEMMA NoReport ==
    ASSUME NEW mark, NEW us, feed(mark, us), ~(BitMark(mark, us) /\ nbits = 16)
    PROVE  which' = which
    BY FeedReports DEF Reports

\* The decoder follows the telegram through its phases.
LEMMA ShotFollows ==
    ASSUME IrtAssumption, TypeOK, OfShot, Follows, air # <<>>,
           clean => misreads = MaxMisread,
           NEW us, feed(IsMark, us), Shape(IsMark, us), Right(us) \/ Misheard,
           air' = Tail(air), fired' = fired, misreads' \in 0..MaxMisread
    PROVE  /\ air' # <<>> => OfShot' /\ Follows'
           /\ air' = <<>> /\ clean' => which' = Len(fired')
<1>1. /\ left \in 1..35 /\ nbits \in Nat /\ nbits <= 16
      /\ state = "BIT_SPACE" => nbits < 16
    BY CountsAre, ShotPhase
<1>2. /\ left' = left - 1 /\ (air' = <<>> <=> left' = 0)
      /\ which' = which => OfShot'
    <2>1. left' = left - 1
        BY PhaseIs DEF left
    <2>2. air' \in Seq(BOOLEAN \X Nat)
        BY PhaseIs
    <2>3. air' = <<>> <=> left' = 0
        <3>1. \A t \in Seq(BOOLEAN \X Nat) : t = <<>> <=> Len(t) = 0
            BY EmptySeq
        <3>2. air' = <<>> <=> Len(air') = 0
            BY <2>2, <3>1, Zenon
        <3> QED BY <3>2 DEF left
    <2> QED BY <2>1, <2>3, TailOfShot
<1>3. misreads \in 0..MaxMisread /\ MaxMisread \in Nat
    BY DEF TypeOK, IrtAssumption
<1>4. clean' => clean
    BY DEF Right, Misheard
<1>5. CASE left = 35
    <2>1. IsMark /\ us \in HdrMark /\ us \notin BitMarks
        BY <1>5 DEF Shape
    <2>2. ~HeaderSpace(IsMark, us) /\ ~BitMark(IsMark, us) /\ ~BitSpace(IsMark, us)
        BY <2>1 DEF HeaderSpace, BitMark, BitSpace
    <2>3. state' = "HDR_SPACE" /\ which' = which
        BY <2>1, <2>2, FeedBranch
    <2>4. left' = 34
        BY <1>2, <1>5
    <2>5. left' # 0
        BY <2>4
    <2> QED BY <1>2, <2>3, <2>4, <2>5 DEF Follows
<1>6. CASE state = "HDR_SPACE" /\ left = 34
    <2>1. ~IsMark /\ us \in HdrSpace
        BY <1>6 DEF Shape
    <2>2. HeaderSpace(IsMark, us) /\ ~BitMark(IsMark, us)
        BY <1>6, <2>1 DEF HeaderSpace, BitMark
    <2>3. state' = "BIT_MARK" /\ acc' = <<>> /\ which' = which
        BY <2>2, FeedBranch, NoReport
    <2>4. misreads' = misreads
        BY <1>6 DEF Right, Misheard
    <2>5. Faithful' /\ nbits' = 0
        BY <2>3, <2>4, NoneWrong
    <2>6. left' = 33 - 2 * nbits' /\ left' # 0
        BY <1>2, <1>6, <2>5
    <2> QED BY <1>2, <2>3, <2>5, <2>6 DEF Follows
<1>7. CASE state = "BIT_MARK" /\ left = 33 - 2 * nbits /\ Faithful
    <2>1. IsMark /\ us \in BitMarks
        <3>1. nbits \in 0..16
            BY <1>1
        <3> QED BY <1>7, <3>1 DEF Shape
    <2>2. BitMark(IsMark, us)
        BY <1>7, <2>1 DEF BitMark
    <2>3. CASE nbits < 16
        <3>1. state' = "BIT_SPACE" /\ acc' = acc /\ which' = which
            BY <2>2, <2>3, FeedBranch, NoReport
        <3>2. nbits' = nbits
            BY <3>1 DEF nbits
        <3>3. Faithful'
            <4>1. Wrong' = Wrong
                BY <3>1 DEF Wrong, Code
            <4>2. IsFiniteSet(Wrong) /\ Cardinality(Wrong) \in Nat
                BY WrongIs
            <4>3. misreads' <= misreads /\ misreads' \in Nat /\ misreads \in Nat
                BY <1>3 DEF Right, Misheard
            <4> QED BY <1>3, <1>7, <4>1, <4>2, <4>3 DEF Faithful
        <3>4. left' = 32 - 2 * nbits' /\ left' # 0
            BY <1>1, <1>2, <1>7, <2>3, <3>2
        <3> QED BY <1>2, <3>1, <3>3, <3>4 DEF Follows
    <2>4. CASE nbits = 16
        <3>1. left' = 0
            BY <1>2, <1>7, <2>4
        <3>2. ASSUME clean' PROVE which' = Len(fired')
            <4>1. misreads = MaxMisread /\ fired # <<>>
                BY <1>4, <3>2 DEF OfShot
            <4>2. acc = Code(Len(fired))
                BY <1>7, <2>4, <4>1, NothingWrong
            <4>3. irtValid(acc)
                <5>1. Len(fired) \in 1..Len(fired)
                    BY ShotPhase
                <5> QED BY <4>2, <5>1, CodeIs
            <4> QED BY <2>2, <2>4, <4>3, FeedBranch DEF Reports
        <3> QED BY <1>2, <3>1, <3>2
    <2> QED BY <1>1, <2>3, <2>4
<1>8. CASE state = "BIT_SPACE" /\ left = 32 - 2 * nbits /\ Faithful
    <2>1. nbits \in 0..15 /\ nbits < 16
        BY <1>1, <1>8
    <2>2. ~IsMark /\ us \in BitSpaces
        BY <1>8, <2>1 DEF Shape
    <2>3. BitSpace(IsMark, us) /\ ~BitMark(IsMark, us)
        BY <1>8, <2>2 DEF BitSpace, BitMark
    <2>4. state' = "BIT_MARK" /\ acc' = Append(acc, Bit(us)) /\ which' = which
        BY <2>3, FeedBranch, NoReport
    <2>5. Bit(us) \in Bits
        BY DEF Bit, Bits
    <2>6. \/ Bit(us) = Code(Len(fired))[nbits + 1] /\ misreads' = misreads
          \/ misreads' = misreads - 1
        BY <1>8, <2>1 DEF Right, BitRight, Misheard
    <2>7. Faithful' /\ nbits' = nbits + 1
        <3>1. misreads \in Nat /\ misreads' \in Nat /\ MaxMisread \in Nat
            BY <1>3
        <3> QED BY <1>8, <2>4, <2>5, <2>6, <3>1, SpaceKeeps
    <2>8. left' = 33 - 2 * nbits' /\ left' # 0
        BY <1>1, <1>2, <1>8, <2>1, <2>7
    <2> QED BY <1>2, <2>4, <2>7, <2>8 DEF Follows
<1>9. CASE state = "IDLE" /\ ~clean /\ left # 35
    <2>1. ~(IsMark /\ us \in HdrMark)
        <3>1. left \in 1..34
            BY <1>1, <1>9
        <3>2. left = 34 \/ (\E n \in 0..16 : left = 33 - 2 * n) \/ (\E n \in 0..15 : left = 32 - 2 * n)
            BY <3>1, Places
        <3> QED BY <3>2 DEF Shape
    <2>2. ~HeaderSpace(IsMark, us) /\ ~BitMark(IsMark, us) /\ ~BitSpace(IsMark, us)
        BY <1>9 DEF HeaderSpace, BitMark, BitSpace
    <2>3. state' = "IDLE" /\ which' = which
        BY <2>1, <2>2, FeedBranch
    <2> QED BY <1>2, <1>4, <1>9, <2>3 DEF Follows
<1> QED BY <1>5, <1>6, <1>7, <1>8, <1>9 DEF Follows

\* Another sender's telegram moves the decoder between IDLE and HDR_SPACE.
LEMMA OtherFollows ==
    ASSUME TypeOK, OfOther, air # <<>>, NEW skew \in Skews,
           NEW us, us = Seen(ahead, skew), feed(IsMark, us),
           air' = Tail(air), misreads' = misreads, clean' = clean
    PROVE  which' = which /\ (air' # <<>> => OfOther')
<1>1. ~(HeaderSpace(IsMark, us) \/ BitMark(IsMark, us) \/ BitSpace(IsMark, us))
    <2>1. \/ IsMark /\ us \notin BitMarks
          \/ state = "IDLE"
          \/ state = "HDR_SPACE" /\ (IsMark \/ us \notin HdrSpace)
        BY DEF OfOther
    <2> QED BY <2>1 DEF HeaderSpace, BitMark, BitSpace
<1>2. /\ (state' = "HDR_SPACE" /\ IsMark /\ us \in HdrMark) \/ state' = "IDLE"
      /\ which' = which
    BY <1>1, FeedBranch
<1>3. ASSUME air' # <<>> PROVE OfOther'
    <2>1. /\ ahead = air[1] /\ left \in Nat /\ left >= 1 /\ air' \in Seq(BOOLEAN \X Nat)
          /\ Len(air') = left - 1 /\ \A k \in 1..(left - 1) : air'[k] = air[k + 1]
        BY PhaseIs
    <2>2. left >= 2 /\ ahead' = air[2]
        <3>1. Len(air') # 0 /\ Head(air') = air'[1]
            <4>1. \A t \in Seq(BOOLEAN \X Nat) : t # <<>> => Len(t) # 0 /\ Head(t) = t[1]
                OBVIOUS
            <4> QED BY <1>3, <2>1, <4>1, Zenon
        <3>2. left >= 2
            BY <2>1, <3>1
        <3>3. air'[1] = air[2]
            <4>1. 1 \in 1..(left - 1) /\ 1 + 1 = 2
                BY <2>1, <3>2
            <4> QED BY <2>1, <4>1
        <3>4. ahead' = Head(air')
            BY DEF ahead
        <3> QED BY <3>1, <3>2, <3>3, <3>4
    <2>3. \A k \in 1..(left - 1), s \in Skews :
            air[k][1] /\ Seen(air[k], s) \in HdrMark =>
                \A other \in Skews : air[k + 1][1] \/ Seen(air[k + 1], other) \notin HdrSpace
        BY DEF OfOther, Foreign, left
    <2>4. \A k \in 1..(Len(air') - 1), s \in Skews :
            air'[k][1] /\ Seen(air'[k], s) \in HdrMark =>
                \A other \in Skews : air'[k + 1][1] \/ Seen(air'[k + 1], other) \notin HdrSpace
        <3> TAKE k \in 1..(Len(air') - 1), s \in Skews
        <3>1. k + 1 \in 1..(left - 1) /\ k \in 1..(left - 1)
            BY <2>1
        <3>2. air'[k] = air[k + 1] /\ air'[k + 1] = air[(k + 1) + 1]
            BY <2>1, <3>1
        <3> QED BY <2>3, <3>1, <3>2
    <2>5. \A other \in Skews :
            \/ state' = "IDLE"
            \/ state' = "HDR_SPACE" /\ (IsMark' \/ Seen(ahead', other) \notin HdrSpace)
        <3>1. CASE state' = "HDR_SPACE" /\ IsMark /\ us \in HdrMark
            <4>1. 1 \in 1..(left - 1) /\ 1 + 1 = 2
                BY <2>1, <2>2
            <4>2. \A other \in Skews : air[2][1] \/ Seen(air[2], other) \notin HdrSpace
                BY <2>1, <2>3, <3>1, <4>1 DEF IsMark
            <4> QED BY <2>2, <3>1, <4>2 DEF IsMark
        <3> QED BY <1>2, <3>1
    <2>6. ~clean' /\ misreads' = 0
        BY DEF OfOther
    <2> QED BY <2>4, <2>5, <2>6 DEF OfOther, Foreign
<1> QED BY <1>2, <1>3

\* A misread space is shaped like a space.
LEMMA MisreadIsShaped ==
    ASSUME IrtAssumption, AirAssumption, TypeOK, OfShot, air # <<>>,
           ~IsMark, left \in 2..32
    PROVE  Shape(IsMark, 1800 - Duration)
<1>2. left # 35 /\ left # 34
    OBVIOUS
<1>3. \A n \in 0..16 : left # 33 - 2 * n
    <2> SUFFICES ASSUME NEW n \in 0..16, left = 33 - 2 * n PROVE FALSE
        OBVIOUS
    <2>1. IsMark
        BY ShotMark
    <2> QED BY <2>1
<1>4. \A n \in 0..15 : left = 32 - 2 * n => ~IsMark /\ 1800 - Duration \in BitSpaces
    BY ShotMisread
<1> QED BY <1>2, <1>3, <1>4 DEF Shape

\* A station starts a shot.
LEMMA ShotStarts ==
    ASSUME IrtAssumption, TypeOK, Shoot
    PROVE  air' # <<>> /\ OfShot' /\ Follows' /\ (clean' => misreads' = MaxMisread)
<1>1. PICK shot \in Shots :
        /\ air' = irtTimings(irtEncode(shot.shooterId, shot.damage))
        /\ fired' = Append(fired, shot)
    BY DEF Shoot
<1>2. fired \in Seq(Shots) /\ Len(fired) \in Nat /\ which \in 0..Len(fired)
    BY DEF TypeOK
<1>3. fired' # <<>> /\ Len(fired') = Len(fired) + 1 /\ fired'[Len(fired')] = shot
    <2>1. fired' \in Seq(Shots) /\ Len(fired') = Len(fired) + 1
            /\ fired'[Len(fired) + 1] = shot
        BY <1>1, <1>2, AppendProperties
    <2>2. Len(fired') # 0
        BY <1>2, <2>1
    <2>3. \A t \in Seq(Shots) : Len(t) # 0 => t # <<>>
        OBVIOUS
    <2> QED BY <2>1, <2>2, <2>3
<1>4. air' \in Seq(BOOLEAN \X Nat) /\ left' = 35
    BY <1>1, TimingsAre DEF left
<1>5. air' = irtTimings(Code(Len(fired)))'
    BY <1>1, <1>3 DEF Code
<1>6. which' < Len(fired')
    BY <1>2, <1>3 DEF Shoot, decoder
<1>7. \A k \in 1..left' : air'[k] = irtTimings(Code(Len(fired)))'[35 - left' + k]
    <2> DEFINE t == irtTimings(Code(Len(fired)))'
    <2>1. air' = t
        BY <1>5
    <2> HIDE DEF t
    <2>2. \A k \in 1..35 : 35 - 35 + k = k
        OBVIOUS
    <2>3. \A k \in 1..left' : air'[k] = t[35 - left' + k]
        BY <1>4, <2>1, <2>2
    <2> QED BY <2>3 DEF t
<1>8. OfShot'
    BY <1>3, <1>4, <1>6, <1>7 DEF OfShot
<1>9. air' # <<>>
    <2>1. \A t \in Seq(BOOLEAN \X Nat) : Len(t) # 0 => t # <<>>
        OBVIOUS
    <2>2. Len(air') # 0
        BY <1>4 DEF left
    <2> QED BY <1>4, <2>1, <2>2, Zenon
<1> QED BY <1>4, <1>8, <1>9 DEF Follows, Shoot

\* Another sender starts.
LEMMA OtherStarts ==
    ASSUME IrtAssumption, AirAssumption, TypeOK, OtherSender
    PROVE  (air' # <<>> => OfOther') /\ ~clean'
<1>1. air' \in Ambient /\ misreads' = 0 /\ clean' = FALSE
    BY DEF OtherSender
<1>2. ASSUME air' # <<>> PROVE OfOther'
    <2>1. \A skew \in Skews : IsMark' /\ Seen(ahead', skew) \notin BitMarks
        BY <1>1, <1>2 DEF AirAssumption, IsMark, ahead
    <2>2. Foreign(air')
        BY <1>1 DEF AirAssumption, Foreign
    <2>3. Foreign(air)'
        BY <2>2 DEF Foreign
    <2> QED BY <1>1, <2>1, <2>3 DEF OfOther
<1> QED BY <1>1, <1>2

\* A step of the air or of the interrupt leaves the decoder and the telegram in
\* step, and what it reports is new.
Kept == OnAir' /\ CleanIsHeard'
\* A shot is reported once, from bits of which the misread ones are wrong.
News(mark, us) == Reports(mark, us) => which < Len(fired) /\ Faithful

\* A shot's telegram reports only that shot.
LEMMA ShotReports ==
    ASSUME OfShot, Follows, NEW mark, NEW us, Shape(mark, us)
    PROVE  News(mark, us)
    BY DEF OfShot, Follows, Shape, News, Reports, BitMark

\* The next phase, of a shot or of another sender.
LEMMA PhaseKeeps ==
    ASSUME IrtAssumption, AirAssumption, TypeOK, OnAir, Phase
    PROVE  Kept /\ \E us \in Int : feed(IsMark, us) /\ News(IsMark, us)
<1>1. PICK skew \in Skews : feed(IsMark, Seen(ahead, skew))
    BY DEF Phase
<1>2. /\ air # <<>> /\ air' = Tail(air) /\ fired' = fired
      /\ misreads' = misreads /\ clean' = clean
    BY DEF Phase
<1>3. PICK us : us = Seen(ahead, skew)
    OBVIOUS
<1>4. feed(IsMark, us) /\ us \in Int
    <2>1. Duration \in Nat
        BY <1>2, PhaseIs
    <2> QED BY <1>1, <1>3, <2>1 DEF Seen, Duration, AirAssumption
<1>5. /\ (OfShot /\ Follows) \/ OfOther
      /\ clean => misreads = MaxMisread
    BY <1>2 DEF OnAir
<1>6. CASE OfShot /\ Follows
    <2>1. Shape(IsMark, us) /\ Right(us)
        <3>1. Shape(IsMark, us) /\ BitRight(us)
            BY <1>2, <1>3, <1>6, ShotSeen, Zenon
        <3> QED BY <1>2, <3>1 DEF Right
    <2>2. misreads' \in 0..MaxMisread
        BY <1>2 DEF TypeOK
    <2>3. /\ air' # <<>> => OfShot' /\ Follows'
          /\ air' = <<>> /\ clean' => which' = Len(fired')
        BY <1>2, <1>4, <1>5, <1>6, <2>1, <2>2, ShotFollows
    <2>4. Kept
        BY <1>2, <1>5, <2>3 DEF Kept, OnAir, CleanIsHeard
    <2>5. News(IsMark, us)
        BY <1>6, <2>1, ShotReports
    <2> QED BY <1>4, <2>4, <2>5
<1>7. CASE OfOther
    <2>1. which' = which /\ (air' # <<>> => OfOther') /\ ~clean
        BY <1>2, <1>3, <1>4, <1>7, OtherFollows DEF OfOther
    <2>2. Kept
        BY <1>2, <2>1 DEF Kept, OnAir, CleanIsHeard
    <2>3. News(IsMark, us)
        BY <1>7, <1>3 DEF News, Reports, BitMark, OfOther
    <2> QED BY <1>4, <2>2, <2>3
<1> QED BY <1>5, <1>6, <1>7

\* A misread space.
LEMMA MisreadKeeps ==
    ASSUME IrtAssumption, AirAssumption, TypeOK, OnAir, Misread
    PROVE  Kept /\ \E us \in Int : feed(IsMark, us) /\ News(IsMark, us)
<1>1. /\ misreads > 0 /\ left \in 2..32 /\ ~IsMark /\ feed(IsMark, 1800 - Duration)
      /\ air' = Tail(air) /\ misreads' = misreads - 1 /\ clean' = FALSE /\ fired' = fired
    BY DEF Misread, IRT_BITS
<1>2. air # <<>>
    <2>1. left # 0
        BY <1>1
    <2> QED BY <2>1, CountsAre
<1>3. OfShot /\ Follows /\ (clean => misreads = MaxMisread)
    BY <1>1, <1>2 DEF OnAir, OfOther
<1>4. PICK us : us = 1800 - Duration
    OBVIOUS
<1>5. feed(IsMark, us) /\ us \in Int /\ Shape(IsMark, us)
    <2>1. Duration \in Nat
        BY <1>2, PhaseIs
    <2>2. 1800 - Duration \in Int
        BY <2>1
    <2>3. Shape(IsMark, 1800 - Duration)
        BY <1>1, <1>2, <1>3, MisreadIsShaped
    <2> QED BY <1>1, <1>4, <2>2, <2>3
<1>6. Misheard /\ misreads' \in 0..MaxMisread
    BY <1>1 DEF Misheard, TypeOK, IrtAssumption
<1>7. /\ air' # <<>> => OfShot' /\ Follows'
      /\ air' = <<>> /\ clean' => which' = Len(fired')
    BY <1>1, <1>2, <1>3, <1>5, <1>6, ShotFollows
<1>8. Kept
    BY <1>1, <1>7 DEF Kept, OnAir, CleanIsHeard
<1>9. News(IsMark, us)
    BY <1>3, <1>5, ShotReports
<1> QED BY <1>5, <1>8, <1>9

\* The end of a telegram within a space, which reports nothing.
LEMMA CutOffKeeps ==
    ASSUME TypeOK, CutOff
    PROVE  Kept /\ \E us \in Int : feed(IsMark, us) /\ News(IsMark, us)
<1>1. PICK us \in {100, 600, 1200, 5000} : feed(IsMark, us)
    BY DEF CutOff
<1>2. ~IsMark /\ air' = <<>> /\ clean' = FALSE
    BY DEF CutOff
<1>3. us \in Int
    OBVIOUS
<1>4. News(IsMark, us)
    BY <1>2 DEF News, Reports, BitMark
<1>5. Kept
    BY <1>2 DEF Kept, OnAir, CleanIsHeard
<1> QED BY <1>1, <1>3, <1>4, <1>5

\* No step gets decoder and telegram out of step.
LEMMA AirStep ==
    ASSUME IrtAssumption, AirAssumption, TypeOK, OnAir, CleanIsHeard, [Next]_vars
    PROVE  Kept
<1>1. CASE Shoot
    <2>1. air' # <<>> /\ OfShot' /\ Follows' /\ (clean' => misreads' = MaxMisread)
        BY <1>1, ShotStarts
    <2> QED BY <2>1 DEF Kept, OnAir, CleanIsHeard
<1>2. CASE OtherSender
    <2>1. (air' # <<>> => OfOther') /\ ~clean'
        BY <1>2, OtherStarts
    <2> QED BY <2>1 DEF Kept, OnAir, CleanIsHeard
<1>3. CASE Phase \/ Misread \/ CutOff
    BY <1>3, PhaseKeeps, MisreadKeeps, CutOffKeeps
<1>4. CASE UNCHANGED <<state, acc, which, air, misreads, clean, fired>>
    <2>1. /\ UNCHANGED <<left, nbits, ahead, IsMark>>
          /\ UNCHANGED Code(Len(fired))
        BY <1>4 DEF left, nbits, ahead, IsMark, Code
    <2>2. OfShot => OfShot'
        BY <1>4, <2>1 DEF OfShot
    <2>3. Faithful => Faithful'
        BY <1>4, <2>1 DEF Faithful, Wrong
    <2>4. Follows => Follows'
        BY <1>4, <2>1, <2>3 DEF Follows
    <2>5. OfOther => OfOther'
        BY <1>4, <2>1 DEF OfOther, Foreign
    <2> QED BY <1>4, <2>2, <2>4, <2>5 DEF Kept, OnAir, CleanIsHeard
<1>5. CASE Take
    BY <1>4, <1>5 DEF Take
<1>6. CASE reset
    <2>1. /\ state' = "IDLE" /\ clean' = (clean /\ air = <<>>)
          /\ UNCHANGED <<acc, which, air, misreads, fired>>
        BY <1>6 DEF reset
    <2>2. CASE air = <<>>
        BY <2>1, <2>2 DEF Kept, OnAir, CleanIsHeard
    <2>3. CASE air # <<>>
        <3>1. UNCHANGED <<left, ahead, IsMark, Code(Len(fired))>>
            BY <2>1 DEF left, ahead, IsMark, Code
        <3>2. OfShot => OfShot' /\ Follows'
            BY <2>1, <2>3, <3>1 DEF OfShot, Follows
        <3>3. OfOther => OfOther'
            BY <2>1, <3>1 DEF OfOther, Foreign
        <3> QED BY <2>1, <2>3, <3>2, <3>3 DEF Kept, OnAir, CleanIsHeard
    <2> QED BY <2>2, <2>3
<1>7. CASE UNCHANGED vars
    BY <1>4, <1>7 DEF vars, decoder
<1> QED BY <1>1, <1>2, <1>3, <1>5, <1>6, <1>7 DEF Next

-----------------------------------------------------------------------------
(* take().                                                                 *)

\* The last of what was taken is the latest.
LEMMA LastIs ==
    ASSUME TypeOK
    PROVE  /\ LastTaken \in Nat
           /\ \A k \in 1..Len(taken) : taken[k].n \in Nat
           /\ TakenOnce => \A k \in 1..Len(taken) : taken[k].n <= LastTaken
<1>1. taken \in Seq(Reading) /\ Len(taken) \in Nat
    BY DEF TypeOK
<1>2. \A k \in 1..Len(taken) : taken[k].n \in Nat
    <2>1. \A k \in 1..Len(taken) : taken[k] \in Reading
        BY <1>1, ElementOfSeq
    <2>2. \A r \in Reading : r.n \in Nat
        BY DEF Reading
    <2> QED BY <2>1, <2>2
<1>3. taken # <<>> => Len(taken) \in 1..Len(taken) /\ LastTaken = taken[Len(taken)].n
    BY <1>1 DEF LastTaken
<1>4. taken = <<>> => LastTaken = 0
    BY DEF LastTaken
<1>5. ASSUME TakenOnce, NEW k \in 1..Len(taken) PROVE taken[k].n <= LastTaken
    <2>1. taken # <<>>
        BY <1>1
    <2>2. CASE k = Len(taken)
        BY <1>2, <1>3, <2>1, <2>2
    <2>3. CASE k < Len(taken)
        <3>1. taken[k].n < taken[Len(taken)].n
            BY <1>1, <1>3, <1>5, <2>1, <2>3 DEF TakenOnce
        <3> QED BY <1>2, <1>3, <2>1, <3>1
    <2> QED BY <1>1, <2>2, <2>3
<1> QED BY <1>2, <1>3, <1>4, <1>5

\* What the interrupt reports is later than anything taken.
LEMMA FeedTurn ==
    ASSUME TypeOK, InTurn, NEW mark, NEW us, feed(mark, us), News(mark, us),
           UNCHANGED <<taker, out, fired, taken>>
    PROVE  InTurn' /\ (TakenOnce => TakenOnce')
<1>1. LastTaken' = LastTaken /\ (TakenOnce => TakenOnce')
    BY DEF LastTaken, TakenOnce
<1>2. /\ LastTaken \in Nat /\ which \in Nat /\ Len(fired) \in Nat
      /\ taker = "second" => out.n \in Nat
    BY LastIs DEF TypeOK, Reading
<1>3. CASE which' = which /\ pending' = pending
    BY <1>1, <1>3 DEF InTurn
<1>4. CASE Reports(mark, us)
    <2>1. which' = Len(fired) /\ which < Len(fired)
        BY <1>4 DEF Reports, News
    <2> QED BY <1>1, <1>2, <2>1 DEF InTurn
<1> QED BY <1>1, <1>3, <1>4, FeedReports

\* No step reports or takes out of turn.
LEMMA TurnStep ==
    ASSUME IrtAssumption, AirAssumption, TypeOK, OnAir, InTurn, TakenOnce, [Next]_vars
    PROVE  InTurn' /\ TakenOnce'
<1>1. CASE Phase \/ Misread \/ CutOff
    <2>1. \E us \in Int : feed(IsMark, us) /\ News(IsMark, us)
        BY <1>1, PhaseKeeps, MisreadKeeps, CutOffKeeps
    <2>2. UNCHANGED <<taker, out, fired, taken>>
        BY <1>1 DEF Phase, Misread, CutOff
    <2> QED BY <2>1, <2>2, FeedTurn
<1>2. CASE UNCHANGED <<pending, which, taker, out, taken>>
    <2>1. LastTaken' = LastTaken
        BY <1>2 DEF LastTaken
    <2> QED BY <1>2, <2>1 DEF InTurn, TakenOnce
<1>3. CASE Shoot \/ OtherSender \/ reset \/ UNCHANGED vars
    BY <1>2, <1>3 DEF Shoot, OtherSender, reset, vars, decoder
<1>4. CASE Take
    <2>1. CASE taker = "idle" /\ pending /\ taker' = "first" /\ UNCHANGED <<out, pending, taken>>
        <3>1. LastTaken' = LastTaken
            BY <2>1 DEF LastTaken
        <3> QED BY <1>4, <2>1, <3>1 DEF Take, InTurn, TakenOnce
    <2>2. CASE taker = "first" /\ taker' = "second" /\ out' = Read /\ UNCHANGED <<pending, taken>>
        <3>1. LastTaken' = LastTaken /\ out'.n = which
            BY <2>2 DEF LastTaken, Read
        <3>2. pending /\ which' = which /\ which \in Nat
            BY <1>4, <2>2 DEF Take, TypeOK
        <3> QED BY <2>2, <3>1, <3>2 DEF InTurn, TakenOnce
    <2>3. CASE taker = "second" /\ taker' = "idle" /\ pending' = FALSE
               /\ taken' = Append(taken, out) /\ UNCHANGED out
        <3>1. taken \in Seq(Reading) /\ out \in Reading /\ Len(taken) \in Nat
            BY <2>3 DEF TypeOK
        <3>2. /\ taken' \in Seq(Reading) /\ Len(taken') = Len(taken) + 1
              /\ taken'[Len(taken) + 1] = out
              /\ \A k \in 1..Len(taken) : taken'[k] = taken[k]
            BY <2>3, <3>1, AppendProperties
        <3>3. which' = which /\ which \in Nat /\ out.n \in Nat
            BY <1>4, <3>1 DEF Take, TypeOK, Reading
        <3>4. LastTaken' = out.n
            <4>1. taken' # <<>>
                BY <2>3, <3>1
            <4> QED BY <3>2, <4>1 DEF LastTaken
        <3>5. LastTaken < out.n /\ out.n <= which
            BY <2>3 DEF InTurn
        <3>6. InTurn'
            BY <2>3, <3>3, <3>4, <3>5 DEF InTurn
        <3>7. TakenOnce'
            <4> SUFFICES ASSUME NEW j \in DOMAIN taken', NEW k \in DOMAIN taken', j < k
                         PROVE  taken'[j].n < taken'[k].n
                BY DEF TakenOnce
            <4>1. j \in 1..(Len(taken) + 1) /\ k \in 1..(Len(taken) + 1) /\ j \in 1..Len(taken)
                BY <3>1, <3>2
            <4>2. CASE k \in 1..Len(taken)
                BY <3>1, <3>2, <4>1, <4>2 DEF TakenOnce
            <4>3. CASE k = Len(taken) + 1
                <5>1. taken'[j].n = taken[j].n /\ taken'[k].n = out.n
                    BY <3>2, <4>1, <4>3
                <5>2. taken[j].n <= LastTaken
                    BY <4>1, LastIs
                <5>3. taken[j].n \in Nat /\ LastTaken \in Nat
                    BY <4>1, LastIs
                <5> QED BY <3>3, <3>5, <5>1, <5>2, <5>3
            <4> QED BY <3>1, <4>1, <4>2, <4>3
        <3> QED BY <3>6, <3>7
    <2> QED BY <1>4, <2>1, <2>2, <2>3 DEF Take, take
<1> QED BY <1>1, <1>3, <1>4 DEF Next

\* The inductive invariant: the decoder is where the telegram is or has given up
\* on it (OnAir), and the shots are reported and taken in turn (InTurn).
THEOREM TelegramInvariance == Spec => []IrtInv
<1>1. Init => IrtInv
    <2> SUFFICES ASSUME Init PROVE IrtInv
        OBVIOUS
    <2>1. TypeOK
        <3>1. FALSE \in BOOLEAN
            OBVIOUS
        <3>2. pending \in BOOLEAN /\ clean \in BOOLEAN
            BY <3>1, Zenon DEF Init
        <3> QED BY <3>2, IrtAssumption DEF Init, TypeOK, IrtAssumption, IRT_BITS, nbits
    <2>2. OnAir /\ InTurn /\ TakenOnce /\ CleanIsHeard
        BY DEF Init, OnAir, InTurn, LastTaken, TakenOnce, CleanIsHeard
    <2> QED BY <2>1, <2>2 DEF IrtInv
<1>2. IrtInv /\ [Next]_vars => IrtInv'
    <2> SUFFICES ASSUME IrtInv, [Next]_vars PROVE IrtInv'
        OBVIOUS
    <2>1. TypeOK'
        BY IrtAssumption, AirAssumption, TypeStep DEF IrtInv
    <2>2. OnAir' /\ CleanIsHeard'
        BY IrtAssumption, AirAssumption, AirStep DEF IrtInv, Kept
    <2>3. InTurn' /\ TakenOnce'
        BY IrtAssumption, AirAssumption, TurnStep DEF IrtInv
    <2> QED BY <2>1, <2>2, <2>3 DEF IrtInv
<1> QED BY <1>1, <1>2, PTL DEF Spec

\* The types, the buffer of sixteen bits among them.
THEOREM TelegramTyping == Spec => []TypeOK
<1>1. IrtInv => TypeOK
    BY DEF IrtInv
<1> QED BY <1>1, TelegramInvariance, PTL

\* A telegram whose phases stay in their windows is decoded.
THEOREM CleanHeard == Spec => []CleanIsHeard
<1>1. IrtInv => CleanIsHeard
    BY DEF IrtInv
<1> QED BY <1>1, TelegramInvariance, PTL

\* No shot is taken twice, and none after a later one.
THEOREM OnceTaken == Spec => []TakenOnce
<1>1. IrtInv => TakenOnce
    BY DEF IrtInv
<1> QED BY <1>1, TelegramInvariance, PTL

-----------------------------------------------------------------------------
(* What is reported is the shot: the CRC's part.                           *)

\* Two wrong bits are in two places.
LEMMA TwoPlaces ==
    ASSUME NEW S, IsFiniteSet(S), S \subseteq 1..16, Cardinality(S) <= 2
    PROVE  \E i, j \in 1..16 : \A k \in S : k = i \/ k = j
<1>1. CASE S = {}
    <2>1. 1 \in 1..16
        OBVIOUS
    <2> QED BY <1>1, <2>1
<1>2. CASE S # {}
    <2>1. PICK i \in S : TRUE
        BY <1>2
    <2>2. IsFiniteSet(S \ {i}) /\ Cardinality(S \ {i}) <= 1
        <3>1. IsFiniteSet(S \ {i}) /\ Cardinality(S \ {i}) = Cardinality(S) - 1
            BY <2>1, FS_RemoveElement
        <3>2. Cardinality(S) \in Nat
            BY FS_CardinalityType
        <3> QED BY <3>1, <3>2
    <2>3. CASE S \ {i} = {}
        BY <2>1, <2>3
    <2>4. CASE S \ {i} # {}
        <3>1. PICK j \in S \ {i} : TRUE
            BY <2>4
        <3> DEFINE T == (S \ {i}) \ {j}
        <3>2. IsFiniteSet(T) /\ Cardinality(T) = Cardinality(S \ {i}) - 1
            BY <2>2, <3>1, FS_RemoveElement
        <3>3. Cardinality(S \ {i}) \in Nat /\ Cardinality(T) \in Nat
            BY <2>2, <3>2, FS_CardinalityType
        <3>4. T = {}
            BY <2>2, <3>2, <3>3, FS_EmptySet
        <3> QED BY <2>1, <3>1, <3>4
    <2> QED BY <2>3, <2>4
<1> QED BY <1>1, <1>2

\* Valid bits of which two at most are wrong are the shot's code.
LEMMA CodeHeard ==
    ASSUME IrtAssumption, MaxMisread <= 2, TypeOK, fired # <<>>,
           nbits = 16, irtValid(acc), Faithful
    PROVE  acc = Code(Len(fired))
<1>1. Len(fired) \in 1..Len(fired) /\ acc \in Seq(Bits) /\ Len(acc) = 16
    BY DEF TypeOK, Bits, nbits
<1> DEFINE c == Code(Len(fired))
<1>2. c \in Seq(Bits) /\ Len(c) = 16 /\ irtValid(c)
    BY <1>1, CodeIs
<1>3. DOMAIN acc = 1..16
    <2>1. DOMAIN acc = 1..Len(acc)
        BY <1>1
    <2> QED BY <1>1, <2>1
<1>4. Wrong = {k \in 1..16 : acc[k] # c[k]}
    BY <1>3 DEF Wrong
<1> HIDE DEF c
<1>5. IsFiniteSet(Wrong) /\ Cardinality(Wrong) <= 2
    <2>1. IsFiniteSet(Wrong) /\ Cardinality(Wrong) \in Nat
        BY WrongIs
    <2>2. misreads \in Nat /\ MaxMisread \in Nat
        BY DEF TypeOK, IrtAssumption
    <2> QED BY <2>1, <2>2 DEF Faithful
<1>6. PICK i \in 1..16, j \in 1..16 : \A k \in Wrong : k = i \/ k = j
    BY <1>4, <1>5, TwoPlaces
<1>7. \A k \in 1..16 : k # i /\ k # j => acc[k] = c[k]
    BY <1>4, <1>6
<1>8. acc = c
    BY <1>1, <1>2, <1>7, TwoErrors
<1> QED BY <1>8 DEF c

\* The right shots are reported, read and taken.
Correct == Reported /\ TakenIsShot

\* A phase reports the right shot or none.
LEMMA FeedCorrect ==
    ASSUME IrtAssumption, MaxMisread <= 2, TypeOK, Correct,
           NEW mark, NEW us, feed(mark, us), News(mark, us),
           UNCHANGED <<taker, out, fired, taken>>
    PROVE  Correct'
<1>1. CASE UNCHANGED <<pending, frame, which>>
    BY <1>1 DEF Correct, Reported, TakenIsShot, Code
<1>2. CASE Reports(mark, us)
    <2>1. frame' = acc /\ which' = Len(fired) /\ which < Len(fired) /\ Faithful
            /\ nbits = 16 /\ irtValid(acc)
        BY <1>2 DEF Reports, News
    <2>2. Len(fired) \in Nat /\ which \in Nat
        BY DEF TypeOK
    <2>3. fired # <<>> /\ Len(fired) > 0
        BY <2>1, <2>2
    <2>4. acc = Code(Len(fired))
        BY <2>1, <2>3, CodeHeard
    <2>5. frame' = Code(which)'
        BY <2>1, <2>4 DEF Code
    <2> QED BY <2>1, <2>3, <2>5 DEF Correct, Reported, TakenIsShot
<1> QED BY <1>1, <1>2, FeedReports

\* No step gets a shot wrong.
LEMMA CorrectStep ==
    ASSUME IrtAssumption, AirAssumption, MaxMisread <= 2,
           \A shot \in Shots : shot.damage <= 15,
           IrtInv, Correct, [Next]_vars
    PROVE  Correct'
<1>0. TypeOK /\ OnAir
    BY DEF IrtInv
<1>1. CASE Phase \/ Misread \/ CutOff
    <2>1. \E us \in Int : feed(IsMark, us) /\ News(IsMark, us)
        BY <1>0, <1>1, PhaseKeeps, MisreadKeeps, CutOffKeeps
    <2>2. UNCHANGED <<taker, out, fired, taken>>
        BY <1>1 DEF Phase, Misread, CutOff
    <2> QED BY <1>0, <2>1, <2>2, FeedCorrect
<1>2. CASE UNCHANGED <<pending, frame, which, taker, out, fired, taken>>
    BY <1>2 DEF Correct, Reported, TakenIsShot, Code
<1>3. CASE OtherSender \/ reset \/ UNCHANGED vars
    BY <1>2, <1>3 DEF OtherSender, reset, vars, decoder
<1>4. CASE Shoot
    <2>1. PICK shot \in Shots : fired' = Append(fired, shot)
        BY <1>4 DEF Shoot
    <2>2. UNCHANGED <<pending, frame, which, taker, out, taken>>
        BY <1>4 DEF Shoot, decoder
    <2>3. fired \in Seq(Shots) /\ Len(fired) \in Nat /\ which \in 0..Len(fired)
        BY <1>0 DEF TypeOK
    <2>4. /\ Len(fired') = Len(fired) + 1
          /\ \A n \in 1..Len(fired) : fired'[n] = fired[n] /\ n \in 1..Len(fired')
        <3>1. /\ Len(fired') = Len(fired) + 1
              /\ \A n \in 1..Len(fired) : fired'[n] = fired[n]
            BY <2>1, <2>3, AppendProperties
        <3> QED BY <2>3, <3>1
    <2>5. which > 0 => frame' = Code(which)'
        <3>1. ASSUME which > 0 PROVE frame' = Code(which)'
            <4>1. which \in 1..Len(fired)
                BY <2>3, <3>1
            <4>2. fired'[which'] = fired[which]
                BY <2>2, <2>4, <4>1
            <4>3. frame = Code(which)
                BY <3>1 DEF Correct, Reported
            <4> QED BY <2>2, <4>2, <4>3 DEF Code
        <3> QED BY <3>1
    <2>6. taker' = "second" => out'.n \in 1..Len(fired') /\ out'.shot = Meant(fired'[out'.n])
        BY <2>2, <2>4 DEF Correct, Reported
    <2>7. \A k \in DOMAIN taken' :
            taken'[k].n \in 1..Len(fired') /\ taken'[k].shot = Meant(fired'[taken'[k].n])
        BY <2>2, <2>4 DEF Correct, Reported, TakenIsShot
    <2>8. pending' => which' > 0
        BY <2>2 DEF Correct, Reported
    <2> QED BY <2>2, <2>5, <2>6, <2>7, <2>8 DEF Correct, Reported, TakenIsShot
<1>5. CASE Take
    <2>0. UNCHANGED <<frame, which, fired>> /\ (which' > 0 => frame' = Code(which)')
        BY <1>5 DEF Take, Correct, Reported, Code
    <2>1. CASE taker = "idle" /\ pending /\ taker' = "first" /\ UNCHANGED <<out, pending, taken>>
        BY <2>0, <2>1 DEF Correct, Reported, TakenIsShot
    <2>2. CASE taker = "first" /\ taker' = "second" /\ out' = Read /\ UNCHANGED <<pending, taken>>
        <3>1. pending /\ which > 0 /\ frame = Code(which) /\ which \in 1..Len(fired)
            BY <1>0, <2>2 DEF TypeOK, Correct, Reported
        <3>2. irtDecodeFrame(frame) = Meant(fired[which])
            <4>1. fired[which] \in [shooterId : 0..15, damage : 0..255] /\ fired[which] \in Shots
                BY <1>0, <3>1, CodeIs DEF TypeOK
            <4> QED BY <3>1, <4>1, EncodeIs DEF Code
        <3>3. out'.n = which /\ out'.shot = Meant(fired[which])
            BY <2>2, <3>2 DEF Read
        <3> QED BY <2>0, <2>2, <3>1, <3>3 DEF Correct, Reported, TakenIsShot
    <2>3. CASE taker = "second" /\ taker' = "idle" /\ pending' = FALSE
               /\ taken' = Append(taken, out) /\ UNCHANGED out
        <3>1. taken \in Seq(Reading) /\ out \in Reading /\ Len(taken) \in Nat
            BY <1>0, <2>3 DEF TypeOK
        <3>2. /\ DOMAIN taken' = 1..(Len(taken) + 1) /\ DOMAIN taken = 1..Len(taken)
              /\ taken'[Len(taken) + 1] = out
              /\ \A k \in 1..Len(taken) : taken'[k] = taken[k]
            <4>1. taken' \in Seq(Reading) /\ Len(taken') = Len(taken) + 1
                BY <2>3, <3>1, AppendProperties
            <4> QED BY <2>3, <3>1, <4>1, AppendProperties
        <3>3. \A k \in DOMAIN taken :
                taken[k].n \in 1..Len(fired) /\ taken[k].shot = Meant(fired[taken[k].n])
            BY DEF Correct, Reported, TakenIsShot
        <3>4. out.n \in 1..Len(fired) /\ out.shot = Meant(fired[out.n])
            BY <2>3 DEF Correct, Reported
        <3>5. \A k \in DOMAIN taken' :
                taken'[k].n \in 1..Len(fired) /\ taken'[k].shot = Meant(fired[taken'[k].n])
            <4> TAKE k \in DOMAIN taken'
            <4>1. k \in 1..Len(taken) \/ k = Len(taken) + 1
                BY <3>1, <3>2
            <4> QED BY <3>2, <3>3, <3>4, <4>1
        <3> QED BY <2>0, <2>3, <3>5 DEF Correct, Reported, TakenIsShot
    <2> QED BY <1>5, <2>1, <2>2, <2>3 DEF Take, take
<1> QED BY <1>1, <1>3, <1>4, <1>5 DEF Next

\* What loop() gets is a shot somebody fired, with its shooter and its damage,
\* as long as no more than two bits of a telegram are misread and the damage
\* fits its nibble.
THEOREM ShotTaken ==
    ASSUME MaxMisread <= 2, \A shot \in Shots : shot.damage <= 15
    PROVE  Spec => [](Reported /\ TakenIsShot)
<1>1. Init => Correct
    BY DEF Init, Correct, Reported, TakenIsShot
<1>2. IrtInv /\ Correct /\ [Next]_vars => Correct'
    BY IrtAssumption, AirAssumption, CorrectStep
<1> QED BY <1>1, <1>2, TelegramInvariance, PTL DEF Spec, Correct
=============================================================================
