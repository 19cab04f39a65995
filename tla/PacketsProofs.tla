---------------------------- MODULE PacketsProofs ----------------------------
(***************************************************************************)
(* What a receiver makes of what a sender encoded, for every content.      *)
(***************************************************************************)
EXTENDS Packets, TLAPS

\* Numbers are put together again from their low byte and the rest.
LEMMA DivMod ==
    ASSUME NEW v \in Nat
    PROVE  /\ Low(v) \in Nat /\ Low(v) <= 255 /\ High(v) \in Nat
           /\ v = Low(v) + 256 * High(v)
BY SMT DEF Low, High

\* What is left without the low byte is as much smaller as it should be.
LEMMA Bound ==
    ASSUME NEW n \in Nat, NEW v \in Nat, v <= 256 * n + 255
    PROVE  High(v) <= n
<1> DEFINE l == Low(v)  h == High(v)
<1>1. l \in Nat /\ h \in Nat /\ l + 256 * h <= 256 * n + 255
    BY DivMod
<1> HIDE DEF l, h
<1>2. h <= n
    BY <1>1, SMT
<1> QED BY <1>2 DEF h

\* Two bytes hold a uint16_t.
LEMMA U16Survives ==
    ASSUME NEW v \in U16
    PROVE  Low(v) \in Byte /\ High(v) \in Byte /\ Low(v) + 256 * High(v) = v
<1>1. v \in Nat /\ v <= 256 * 255 + 255
    BY SMT DEF U16
<1>2. High(v) <= 255
    BY <1>1, Bound, SMT
<1>3. Low(v) \in Nat /\ Low(v) <= 255 /\ High(v) \in Nat /\ v = Low(v) + 256 * High(v)
    BY <1>1, DivMod
<1> QED BY <1>2, <1>3, SMT DEF Byte

\* The fourth byte of a uint32_t is all that is left after three.
LEMMA TopByte ==
    ASSUME NEW v \in U32
    PROVE  High(High(High(v))) \in Byte
<1> DEFINE n1 == 16777215  n2 == 65535  n3 == 255
<1>1. v \in Nat /\ v <= 256 * n1 + 255 /\ n1 \in Nat
    <2>1. 4294967295 = 256 * n1 + 255
        BY SMT
    <2>2. v \in Nat /\ v <= 4294967295
        BY SMT DEF U32
    <2> QED BY <2>1, <2>2, SMT
<1>2. n1 = 256 * n2 + 255 /\ n2 \in Nat /\ n2 = 256 * n3 + 255 /\ n3 \in Nat
    BY SMT
<1> HIDE DEF n1, n2, n3
<1>3. High(v) \in Nat /\ High(v) <= n1
    BY <1>1, DivMod, Bound
<1>4. High(v) <= 256 * n2 + 255
    BY <1>1, <1>2, <1>3, SMT
<1>5. High(High(v)) \in Nat /\ High(High(v)) <= n2
    BY <1>2, <1>3, <1>4, DivMod, Bound
<1>6. High(High(v)) <= 256 * n3 + 255
    BY <1>2, <1>5, SMT
<1>7. High(High(High(v))) \in Nat /\ High(High(High(v))) <= n3
    BY <1>2, <1>5, <1>6, DivMod, Bound
<1> QED BY <1>7, SMT DEF n3, Byte

\* Four bytes hold a uint32_t.
LEMMA U32Survives ==
    ASSUME NEW v \in U32
    PROVE  Low(v) + 256 * (Low(High(v)) + 256 * (Low(High(High(v)))
             + 256 * Low(High(High(High(v)))))) = v
<1> DEFINE a == High(v)  b == High(a)  c == High(b)
<1>1. v \in Nat
    BY SMT DEF U32
<1>2. Low(v) \in Nat /\ a \in Nat /\ v = Low(v) + 256 * a
    BY <1>1, DivMod
<1>3. Low(a) \in Nat /\ b \in Nat /\ a = Low(a) + 256 * b
    BY <1>2, DivMod
<1>4. Low(b) \in Nat /\ b = Low(b) + 256 * c
    BY <1>3, DivMod
<1>5. c \in Byte
    BY TopByte
<1> HIDE DEF a, b, c
<1>6. Low(c) = c
    BY <1>5, SMT DEF Low, Byte
<1>7. Low(v) + 256 * (Low(a) + 256 * (Low(b) + 256 * Low(c))) = v
    BY <1>2, <1>3, <1>4, <1>6
<1> QED BY <1>7 DEF a, b, c

\* Two bytes make a uint16_t.
LEMMA TwoBytes ==
    ASSUME NEW a \in Byte, NEW b \in Byte
    PROVE  a + 256 * b \in U16
<1> DEFINE n == a + 256 * b
<1>1. n \in Nat /\ n <= 65535
    BY SMT DEF Byte
<1> HIDE DEF n
<1>2. n \in U16
    BY <1>1, SMT DEF U16
<1> QED BY <1>2 DEF n

\* The sign survives the cast to a byte and back.
LEMMA SignSurvives ==
    ASSUME NEW r \in -128..127
    PROVE  toInt8(toByte(r)) = r
<1>1. CASE r >= 0
    BY <1>1, SMT DEF toInt8, toByte
<1>2. CASE r < 0
    <2>1. r % 256 = r + 256
        BY <1>2, SMT
    <2> QED BY <1>2, <2>1, SMT DEF toInt8, toByte
<1> QED BY <1>1, <1>2, SMT

-----------------------------------------------------------------------------
\* What a station understands of a configuration: fields that are 0 are not set,
\* and ids have four bits.
Or(byte, default) == IF byte = 0 THEN default ELSE byte
Understood(c) ==
    [volume_pct     |-> c.volume_pct,
     led_ready      |-> Or(c.led_ready, DefaultStation.led_ready),
     led_busy       |-> Or(c.led_busy, DefaultStation.led_busy),
     laser_mode     |-> Or(c.laser_mode, DefaultStation.laser_mode),
     laser_glow     |-> Or(c.laser_glow, DefaultStation.laser_glow),
     ir_id          |-> c.ir_id % 16,
     led_bright_pct |-> Or(c.led_bright_pct, DefaultStation.led_bright_pct)]

\* A station's configuration arrives as it was meant (encodeStationConfig,
\* decodeStationConfig).
THEOREM StationSurvives ==
    \A c \in StationConfigs :
        decodeStationConfig(encodeStationConfig(c), STATION_BLOB_SIZE) = Understood(c)
BY DEF StationConfigs, decodeStationConfig, encodeStationConfig, Filled, SetAt, Understood, Or,
       STATION_BLOB_SIZE, Byte

\* Whatever a sender of another version put into a blob, and however short it is,
\* a station gets a configuration its fields can hold, with an id of four bits,
\* and no colour, laser mode or brightness that means "not set".
THEOREM StationIsSound ==
    \A blob \in Blobs(STATION_BLOB_SIZE), len \in 0..STATION_BLOB_SIZE :
        LET c == decodeStationConfig(blob, len) IN
        /\ c \in StationConfigs
        /\ c.ir_id \in 0..15
        /\ 0 \notin {c.led_ready, c.led_busy, c.laser_mode, c.laser_glow, c.led_bright_pct}
BY DEF Blobs, StationConfigs, decodeStationConfig, SetAt, DefaultStation, STATION_BLOB_SIZE, Byte

\* Decoding looks at no byte beyond the length: what an older sender did not send
\* has no influence on what a newer station does.
THEOREM StationReadsItsBlob ==
    \A a, b \in Blobs(STATION_BLOB_SIZE), len \in 0..STATION_BLOB_SIZE :
        (\A i \in 0..(len - 1) : a[i] = b[i])
            => decodeStationConfig(a, len) = decodeStationConfig(b, len)
BY DEF Blobs, decodeStationConfig, SetAt, STATION_BLOB_SIZE

\* The same of a target, whose times have two bytes: a blob that ends between the
\* two sets neither.
THEOREM TargetSurvives ==
    \A c \in TargetConfigs :
        decodeTargetConfig(encodeTargetConfig(c), TARGET_BLOB_SIZE)
            = [c EXCEPT !.led_bright_pct = Or(@, DefaultTarget.led_bright_pct)]
<1> SUFFICES ASSUME NEW c \in TargetConfigs
             PROVE  decodeTargetConfig(encodeTargetConfig(c), TARGET_BLOB_SIZE)
                        = [c EXCEPT !.led_bright_pct = Or(@, DefaultTarget.led_bright_pct)]
    OBVIOUS
<1>1. /\ Low(c.hit_time_ms) + 256 * High(c.hit_time_ms) = c.hit_time_ms
      /\ Low(c.cooldown_ms) + 256 * High(c.cooldown_ms) = c.cooldown_ms
    BY U16Survives DEF TargetConfigs
<1> QED BY <1>1 DEF TargetConfigs, decodeTargetConfig, encodeTargetConfig, Filled, SetAt, getU16, Or,
                    TARGET_BLOB_SIZE, Byte

\* Decoding looks at no byte beyond the length, not even for half a time.
THEOREM TargetReadsItsBlob ==
    \A a, b \in Blobs(TARGET_BLOB_SIZE), len \in 0..TARGET_BLOB_SIZE :
        (\A i \in 0..(len - 1) : a[i] = b[i])
            => decodeTargetConfig(a, len) = decodeTargetConfig(b, len)
BY DEF Blobs, decodeTargetConfig, SetAt, getU16, TARGET_BLOB_SIZE

-----------------------------------------------------------------------------
\* A push is announced with the size and CRC the box computed (encodePushBegin,
\* decodePushBegin), all 32 bits of them.
THEOREM BeginSurvives ==
    \A b \in PushBegins : decodePushBegin(encodePushBegin(b)) = b
<1> SUFFICES ASSUME NEW b \in PushBegins
             PROVE  decodePushBegin(encodePushBegin(b)) = b
    OBVIOUS
<1> DEFINE p == encodePushBegin(b)
<1>1. /\ p[0] = Low(b.size) /\ p[1] = Low(High(b.size))
      /\ p[2] = Low(High(High(b.size))) /\ p[3] = Low(High(High(High(b.size))))
      /\ p[4] = Low(b.crc32) /\ p[5] = Low(High(b.crc32))
      /\ p[6] = Low(High(High(b.crc32))) /\ p[7] = Low(High(High(High(b.crc32))))
      /\ p[8] = b.major /\ p[9] = b.minor /\ p[10] = b.patch
    BY DEF encodePushBegin, Filled, PutU32, PAYLOAD_SIZE
<1>2. getU32(p, 0) = b.size /\ getU32(p, 4) = b.crc32
    BY <1>1, U32Survives DEF getU32, getU16, PushBegins
<1> QED BY <1>1, <1>2 DEF decodePushBegin, PushBegins

\* The acknowledgement of a window names the window and the missing frames the
\* device meant, the final one the device's status and error number.
THEOREM AckSurvives ==
    \A a \in PushAcks : decodePushAck(encodePushAck(a)) = a
<1> SUFFICES ASSUME NEW a \in PushAcks
             PROVE  decodePushAck(encodePushAck(a)) = a
    OBVIOUS
<1> DEFINE p == encodePushAck(a)
<1>1. /\ p[0] = Low(a.window) /\ p[1] = High(a.window)
      /\ p[2] = Low(a.missing) /\ p[3] = Low(High(a.missing))
      /\ p[4] = Low(High(High(a.missing))) /\ p[5] = Low(High(High(High(a.missing))))
      /\ p[6] = a.status /\ p[7] = a.detail
    BY DEF encodePushAck, Filled, PutU32, PAYLOAD_SIZE
<1>2. getU16(p, 0) = a.window /\ getU32(p, 2) = a.missing
    BY <1>1, U16Survives, U32Survives DEF getU32, getU16, PushAcks
<1> QED BY <1>1, <1>2 DEF decodePushAck, PushAcks

THEOREM HitSurvives == \A h \in HitReports : decodeHitReport(encodeHitReport(h)) = h
BY DEF HitReports, decodeHitReport, encodeHitReport, Filled, PAYLOAD_SIZE

\* A reply that says how long its blob is, and has nothing behind it, arrives as
\* it is, with the sign of the signal strength.
THEOREM ReplySurvives ==
    \A r \in DiscoverReplies :
        /\ r.config_blob_len <= CONFIG_BLOB_MAX
        /\ \A i \in r.config_blob_len..(CONFIG_BLOB_MAX - 1) : r.config_blob[i] = 0
        => decodeDiscoverReply(encodeDiscoverReply(r)) = r
<1> SUFFICES ASSUME NEW r \in DiscoverReplies, r.config_blob_len <= CONFIG_BLOB_MAX,
                    \A i \in r.config_blob_len..(CONFIG_BLOB_MAX - 1) : r.config_blob[i] = 0
             PROVE  decodeDiscoverReply(encodeDiscoverReply(r)) = r
    OBVIOUS
<1> DEFINE p == encodeDiscoverReply(r)
<1>1. Cut(r.config_blob_len) = r.config_blob_len
    BY DEF Cut, DiscoverReplies, Byte, CONFIG_BLOB_MAX
<1>2. /\ p[0] = r.fw_major /\ p[1] = r.fw_minor /\ p[2] = r.fw_patch
      /\ p[3] = toByte(r.rssi_self)
      /\ p[4] = Low(r.uptime_min) /\ p[5] = High(r.uptime_min)
      /\ p[6] = r.config_blob_len
    BY <1>1 DEF encodeDiscoverReply, PAYLOAD_SIZE
<1>3. \A i \in 0..(CONFIG_BLOB_MAX - 1) :
        p[7 + i] = IF i < r.config_blob_len THEN r.config_blob[i] ELSE 0
    BY <1>1 DEF encodeDiscoverReply, PAYLOAD_SIZE, CONFIG_BLOB_MAX, DiscoverReplies, Byte
<1>4. toInt8(p[3]) = r.rssi_self
    BY <1>2, SignSurvives DEF DiscoverReplies
<1>5. getU16(p, 4) = r.uptime_min
    BY <1>2, U16Survives DEF getU16, DiscoverReplies
<1>6. [i \in 0..(CONFIG_BLOB_MAX - 1) |-> IF i < Cut(p[6]) THEN p[7 + i] ELSE 0] = r.config_blob
    BY <1>1, <1>2, <1>3 DEF DiscoverReplies, Blobs, CONFIG_BLOB_MAX, Byte
<1> HIDE DEF p
<1>7. decodeDiscoverReply(p) =
        [fw_major |-> r.fw_major, fw_minor |-> r.fw_minor, fw_patch |-> r.fw_patch,
         rssi_self |-> r.rssi_self, uptime_min |-> r.uptime_min,
         config_blob_len |-> r.config_blob_len, config_blob |-> r.config_blob]
    BY <1>1, <1>2, <1>4, <1>5, <1>6 DEF decodeDiscoverReply
<1>8. decodeDiscoverReply(p) = r
    BY <1>7 DEF DiscoverReplies
<1> QED BY <1>8 DEF p

\* Whatever length a reply claims, the copied bytes lie in the payload, and what
\* the receiver stores fits its own buffer.
THEOREM ReplyFits ==
    /\ \A r \in DiscoverReplies : encodeDiscoverReply(r) \in Blobs(PAYLOAD_SIZE)
    /\ \A p \in Blobs(PAYLOAD_SIZE) :
        /\ decodeDiscoverReply(p) \in DiscoverReplies
        /\ decodeDiscoverReply(p).config_blob_len <= CONFIG_BLOB_MAX
        /\ \A i \in 0..(Cut(p[6]) - 1) : 7 + i \in DOMAIN p
<1>1. ASSUME NEW r \in DiscoverReplies
      PROVE  encodeDiscoverReply(r) \in Blobs(PAYLOAD_SIZE)
    <2>1. /\ Cut(r.config_blob_len) \in 0..CONFIG_BLOB_MAX
          /\ toByte(r.rssi_self) \in Byte
        BY DEF DiscoverReplies, Cut, toByte, Byte, CONFIG_BLOB_MAX
    <2>2. Low(r.uptime_min) \in Byte /\ High(r.uptime_min) \in Byte
        BY U16Survives DEF DiscoverReplies
    <2>3. Cut(r.config_blob_len) \in Byte
        BY <2>1 DEF Byte, CONFIG_BLOB_MAX
    <2>4. ASSUME NEW i \in 0..(PAYLOAD_SIZE - 1) PROVE encodeDiscoverReply(r)[i] \in Byte
        <3>1. CASE i < 7
            <4> DEFINE head == <<r.fw_major, r.fw_minor, r.fw_patch, toByte(r.rssi_self),
                                 Low(r.uptime_min), High(r.uptime_min), Cut(r.config_blob_len)>>
            <4>1. \A k \in 1..7 : head[k] \in Byte
                BY <2>1, <2>2, <2>3 DEF DiscoverReplies
            <4>2. encodeDiscoverReply(r)[i] = head[i + 1]
                BY <3>1 DEF encodeDiscoverReply
            <4> QED BY <3>1, <4>1, <4>2 DEF PAYLOAD_SIZE
        <3>2. CASE i >= 7 /\ i < 7 + Cut(r.config_blob_len)
            BY <3>2, <2>1 DEF encodeDiscoverReply, PAYLOAD_SIZE, CONFIG_BLOB_MAX, DiscoverReplies, Blobs
        <3>3. CASE i >= 7 + Cut(r.config_blob_len)
            <4>1. ~(i < 7) /\ ~(i < 7 + Cut(r.config_blob_len))
                BY <3>3, <2>1 DEF PAYLOAD_SIZE, CONFIG_BLOB_MAX
            <4>2. encodeDiscoverReply(r)[i] = 0
                BY <4>1 DEF encodeDiscoverReply
            <4> QED BY <4>2 DEF Byte
        <3> QED BY <3>1, <3>2, <3>3, <2>1 DEF PAYLOAD_SIZE, CONFIG_BLOB_MAX
    <2> QED BY <2>4 DEF Blobs, encodeDiscoverReply
<1>2. ASSUME NEW p \in Blobs(PAYLOAD_SIZE)
      PROVE  /\ decodeDiscoverReply(p) \in DiscoverReplies
             /\ decodeDiscoverReply(p).config_blob_len <= CONFIG_BLOB_MAX
             /\ \A i \in 0..(Cut(p[6]) - 1) : 7 + i \in DOMAIN p
    <2>1. \A i \in 0..25 : p[i] \in Byte
        BY DEF Blobs, PAYLOAD_SIZE
    <2>2. Cut(p[6]) \in 0..CONFIG_BLOB_MAX
        BY <2>1 DEF Cut, Byte, CONFIG_BLOB_MAX
    <2>3. toInt8(p[3]) \in -128..127
        BY <2>1 DEF toInt8, Byte
    <2>4. getU16(p, 4) \in U16
        BY <2>1, TwoBytes DEF getU16
    <2>5. [i \in 0..(CONFIG_BLOB_MAX - 1) |-> IF i < Cut(p[6]) THEN p[7 + i] ELSE 0]
            \in Blobs(CONFIG_BLOB_MAX)
        BY <2>1, <2>2 DEF Blobs, CONFIG_BLOB_MAX, Byte
    <2>6. Cut(p[6]) \in Byte
        BY <2>2 DEF CONFIG_BLOB_MAX, Byte
    <2>7. decodeDiscoverReply(p) \in DiscoverReplies
        BY <2>1, <2>3, <2>4, <2>5, <2>6 DEF decodeDiscoverReply, DiscoverReplies
    <2>8. \A i \in 0..(Cut(p[6]) - 1) : 7 + i \in DOMAIN p
        BY <2>2 DEF Blobs, PAYLOAD_SIZE, CONFIG_BLOB_MAX
    <2> QED BY <2>2, <2>7, <2>8 DEF decodeDiscoverReply, CONFIG_BLOB_MAX
<1> QED BY <1>1, <1>2
=============================================================================
