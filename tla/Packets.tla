------------------------------- MODULE Packets -------------------------------
(***************************************************************************)
(* The payloads of the protocol's packets and the configuration blobs they *)
(* carry (src/src/InfinitagNow.cpp), byte by byte.  A sender and a         *)
(* receiver may be of different firmware versions: blobs grow at their     *)
(* end, and a byte that is 0 or missing means the receiver's default.      *)
(***************************************************************************)
EXTENDS Integers, Sequences

Byte == 0..255
U16 == {v \in Nat : v <= 65535}
U32 == {v \in Nat : v <= 4294967295}
PAYLOAD_SIZE == 26
CONFIG_BLOB_MAX == 19
STATION_BLOB_SIZE == 16
TARGET_BLOB_SIZE == 16
PUSH_FRAME_DATA == 242
PUSH_WINDOW_FRAMES == 16

\* memset to 0, then the first bytes.
Filled(n, bytes) == [i \in 0..(n - 1) |-> IF i < Len(bytes) THEN bytes[i + 1] ELSE 0]
Blobs(n) == [0..(n - 1) -> Byte]

\* putU16, putU32: little-endian.
Low(v) == v % 256
High(v) == v \div 256
getU16(p, i) == p[i] + 256 * p[i + 1]
getU32(p, i) == p[i] + 256 * (p[i + 1] + 256 * getU16(p, i + 2))

\* int8_t.
toInt8(byte) == IF byte < 128 THEN byte ELSE byte - 256
toByte(int8) == int8 % 256

-----------------------------------------------------------------------------
(* Configuration blobs.                                                    *)

StationConfigs ==
    [volume_pct : Byte, led_ready : Byte, led_busy : Byte, laser_mode : Byte,
     laser_glow : Byte, ir_id : Byte, led_bright_pct : Byte]
DefaultStation ==
    [volume_pct |-> 80, led_ready |-> 2, led_busy |-> 1, laser_mode |-> 3,
     laser_glow |-> 1, ir_id |-> 0, led_bright_pct |-> 100]

encodeStationConfig(c) ==
    Filled(STATION_BLOB_SIZE,
           <<c.volume_pct, c.led_ready, c.led_busy, c.laser_mode, c.laser_glow,
             c.ir_id, c.led_bright_pct>>)

\* 0 means not set.
SetAt(blob, len, i, default) == IF len > i /\ blob[i] # 0 THEN blob[i] ELSE default

decodeStationConfig(blob, len) ==
    [volume_pct     |-> IF len > 0 THEN blob[0] ELSE DefaultStation.volume_pct,
     led_ready      |-> SetAt(blob, len, 1, DefaultStation.led_ready),
     led_busy       |-> SetAt(blob, len, 2, DefaultStation.led_busy),
     laser_mode     |-> SetAt(blob, len, 3, DefaultStation.laser_mode),
     laser_glow     |-> SetAt(blob, len, 4, DefaultStation.laser_glow),
     ir_id          |-> IF len > 5 THEN blob[5] % 16 ELSE DefaultStation.ir_id,
     led_bright_pct |-> SetAt(blob, len, 6, DefaultStation.led_bright_pct)]

TargetConfigs ==
    [sound_id : Byte, hit_time_ms : U16, cooldown_ms : U16, sw_animation : Byte,
     sw_channels : Byte, led_bright_pct : Byte]
DefaultTarget ==
    [sound_id |-> 1, hit_time_ms |-> 10000, cooldown_ms |-> 2000, sw_animation |-> 0,
     sw_channels |-> 7, led_bright_pct |-> 100]

encodeTargetConfig(c) ==
    Filled(TARGET_BLOB_SIZE,
           <<c.sound_id, Low(c.hit_time_ms), High(c.hit_time_ms), Low(c.cooldown_ms),
             High(c.cooldown_ms), c.sw_animation, c.sw_channels, c.led_bright_pct>>)

decodeTargetConfig(blob, len) ==
    [sound_id       |-> IF len > 0 THEN blob[0] ELSE DefaultTarget.sound_id,
     hit_time_ms    |-> IF len > 2 THEN getU16(blob, 1) ELSE DefaultTarget.hit_time_ms,
     cooldown_ms    |-> IF len > 4 THEN getU16(blob, 3) ELSE DefaultTarget.cooldown_ms,
     sw_animation   |-> IF len > 5 THEN blob[5] ELSE DefaultTarget.sw_animation,
     sw_channels    |-> IF len > 6 THEN blob[6] ELSE DefaultTarget.sw_channels,
     led_bright_pct |-> SetAt(blob, len, 7, DefaultTarget.led_bright_pct)]

-----------------------------------------------------------------------------
(* Payloads.                                                               *)

PushBegins == [size : U32, crc32 : U32, major : Byte, minor : Byte, patch : Byte]

PutU32(v) == <<Low(v), Low(High(v)), Low(High(High(v))), Low(High(High(High(v))))>>

encodePushBegin(b) ==
    Filled(PAYLOAD_SIZE,
           PutU32(b.size) \o PutU32(b.crc32)
             \o <<b.major, b.minor, b.patch, PUSH_FRAME_DATA, PUSH_WINDOW_FRAMES>>)

decodePushBegin(p) ==
    [size |-> getU32(p, 0), crc32 |-> getU32(p, 4),
     major |-> p[8], minor |-> p[9], patch |-> p[10]]

PushAcks == [window : U16, missing : U32, status : Byte, detail : Byte]

encodePushAck(a) ==
    Filled(PAYLOAD_SIZE,
           <<Low(a.window), High(a.window)>> \o PutU32(a.missing) \o <<a.status, a.detail>>)

decodePushAck(p) ==
    [window |-> getU16(p, 0), missing |-> getU32(p, 2), status |-> p[6], detail |-> p[7]]

HitReports == [shooterId : Byte, soundId : Byte, damage : Byte]

encodeHitReport(h) == Filled(PAYLOAD_SIZE, <<h.shooterId, h.soundId, h.damage>>)
decodeHitReport(p) == [shooterId |-> p[0], soundId |-> p[1], damage |-> p[2]]

\* A reply carries the sender's blob; its length is what the sender says, cut
\* on both sides to what there is room for.
DiscoverReplies ==
    [fw_major : Byte, fw_minor : Byte, fw_patch : Byte, rssi_self : -128..127,
     uptime_min : U16, config_blob_len : Byte, config_blob : Blobs(CONFIG_BLOB_MAX)]

Cut(len) == IF len > CONFIG_BLOB_MAX THEN CONFIG_BLOB_MAX ELSE len

encodeDiscoverReply(r) ==
    [i \in 0..(PAYLOAD_SIZE - 1) |->
        IF i < 7
        THEN <<r.fw_major, r.fw_minor, r.fw_patch, toByte(r.rssi_self),
               Low(r.uptime_min), High(r.uptime_min), Cut(r.config_blob_len)>>[i + 1]
        ELSE IF i < 7 + Cut(r.config_blob_len) THEN r.config_blob[i - 7] ELSE 0]

decodeDiscoverReply(p) ==
    [fw_major |-> p[0], fw_minor |-> p[1], fw_patch |-> p[2], rssi_self |-> toInt8(p[3]),
     uptime_min |-> getU16(p, 4), config_blob_len |-> Cut(p[6]),
     config_blob |-> [i \in 0..(CONFIG_BLOB_MAX - 1) |-> IF i < Cut(p[6]) THEN p[7 + i] ELSE 0]]
=============================================================================
