# Formal models of infinitag-now-core

infinitag-now-core is the library all Infinitag devices share: stations (the
laser-tag wands), targets and config boxes.  They talk over ESP-NOW, an
unacknowledged or link-acknowledged datagram radio, without any central
instance.  This directory holds TLA+ modules of its protocols, TLC
configurations that check them on small instances, and TLAPS proofs.

File names below are relative to `src/src/` of the repository unless they say
otherwise; `PROJECT.json` maps every definition to the lines it models.

## 1. Inventory

| Component | State | Operations | Partners | Modelled |
|---|---|---|---|---|
| `IrIdNegotiator` | `_state` LISTEN/PROBE/HELD, `_id`, `_candidate`, timers, evidence table `_seen/_seenMs`, `_preferred`, `_idChanged` | `begin`, `tick`, `onProbe`, `onBeacon`, `onHitReport`, `consumeIdChanged` | other stations by broadcast; the caller persists the id in NVS | yes |
| `EspNowPushSender` (box) | `_state`, `_window`, `_gotAnyAck`, `_endSent`, `_retries`, `_finalStatus/_finalDetail` | `start`, `onControl`, `loop` | receiver, over packets and raw frames | yes |
| `EspNowPushReceiver` (device) | `_state`, `_begin`, `_srcMac`, `_window`, `_haveMask/_winBuf`, `_crc/_bytesDone`, frame queue | raw handler (WiFi task), `onControl`, `loop` | sender; the update library and the boot slot | yes |
| `EspNowService` | receive ring `_ring/_head/_tail`, peer table `_peers` | `onRecvStatic` (WiFi task), `receive`, `send`, `sendRaw`, `sendBroadcast`, `ensurePeer` | everybody; the radio driver's own list of peers | yes |
| `InfinitagNow` | none (packet codec, CRC, blobs) | `seal`, `validate`, `encode*`/`decode*` | everybody | payloads and blobs byte by byte; a checksum matches or does not |
| `IrTelegram` | decoder `_state`, `_acc`, `_nbits`, `_pending`, `_frame` | `irtEncode`, `irtDecodeFrame`, `irtTimings`, `feed` (interrupt), `take`, `reset` | IR hardware, other remote controls | yes |
| `WebUpdateService` | `_uploading`, `_failed`, `_wrongFile`, `_done`, `_storeActive`, `_storeOk` | upload and page handlers, `/reboot`, `loop` | web server, update library, store hooks of the config box | yes |
| `ResponsiveWebServer` | the web server's current client and its age | `dropIdleClient` | `WebUpdateService::loop` | yes |
| `CaptivePortal` | none | `captiveNeedsRedirect`, `captiveRedirect` | the pages | yes |
| `SoundCatalog`, `FwMarker` | none | - | - | no: constants |

What makes them hard:

* **IR ids.**  Any number of stations boot, leave and return at any time; probes
  cross; evidence expires; a loop that plays a sound is late; broadcasts get lost.
  Correct means: no two stations hold one id (for long), a holder is not disturbed,
  ids survive restarts, and after trouble the stations settle again.
* **Firmware push.**  Two state machines with retries over a lossy link, a task
  boundary on the device, several boxes, restarts, and failures of flash and file.
  Correct means: the boot slot only ever selects a complete image, what the box
  reports is what the device did, and losses are healed.
* **Receive ring and peer table.**  Indices that wrap, one slot that must stay free, a
  raw frame that looks like a packet, a driver that refuses a peer after another has
  been evicted for it, time stamps that wrap.  Correct means: a bounded queue, and a
  table that agrees with the driver and evicts the peer not used for longest.
* **IR decoder.**  An interrupt between two accesses of `take()`, telegrams that are cut
  off or misread, other remote controls.  Correct means: what is taken was fired, once
  and in order, and an undisturbed telegram is heard whatever came before it.
* **Web update.**  Flags that outlive a request, hooks that fail in the middle, aborted
  uploads, browsers that open connections and say nothing.  Correct means: the page
  says what happened, only a vetted image boots, a failure leaves nothing behind that
  stops the next try, and every browser is served.
* **Codecs.**  Blobs of other firmware versions are shorter or longer than expected.

The hazards, each with its line, are listed in `PROJECT.json`.

## 2. Modules

| Module | Content |
|---|---|
| `IdAllocation` | abstract specification: stations join, acquire a free id once, leave |
| `IrIdNegotiator` | all stations' negotiators on a bus that loses nothing, with restarts at any time; implements `IdAllocation` |
| `IrIdUnreliable` | the same handlers with lost packets, stalled loops and a bounded number of such troubles; liveness |
| `IrIdNegotiatorProofs` | TLAPS proofs about `IrIdNegotiator` |
| `IrIdUnreliableProofs` | TLAPS proofs about `IrIdUnreliable` |
| `EspNowPush` | boxes, device, ring, frame queue, radio, restarts, failures |
| `EspNowPushLossy` | the same actions with prompt loops and a bounded number of losses; liveness |
| `EspNowPushProofs` | TLAPS proofs about `EspNowPush` |
| `EspNowPushLockstepProofs` | TLAPS proof of the lockstep of a single push |
| `ReceiveQueue` | abstract specification: a bounded first-in first-out queue |
| `EspNowService` | receive ring and peer table with a wrapping clock and a driver that may refuse; the ring implements `ReceiveQueue` |
| `EspNowServiceProofs` | TLAPS proofs about `EspNowService` |
| `IrTelegram` | codec, timings, decoder and `take()`, with a distorting receiver and an interrupt |
| `IrTelegramProofs` | TLAPS proofs about `IrTelegram` |
| `WebUpdate` | `WebUpdateService`, `ResponsiveWebServer` and `CaptivePortal` with browsers, the update library and the store hooks |
| `WebUpdateProofs` | TLAPS proofs about `WebUpdate` |
| `Packets` | payload and blob codecs as operators on functions from positions to bytes |
| `PacketsProofs` | TLAPS proofs about `Packets` |
| `MC*` | constants for TLC |

How they compose: `EspNowPush` has a ring of its own between its WiFi task and its loop,
the queue that `EspNowService` shows the real ring to be, and the split into packets
and raw frames there is the one `DataStaysData` is about.  What the packets carry is
records in the protocol modules; `Packets` shows that the bytes say the same.

### IrIdNegotiator

`state`, `id`, `cand`, `probesSent`, `preferred` and `idChanged` are the members of
the same names, per station.  The time stamps are kept relative to now: `wait[s]` is
the time until `tick()` acts next (`_listenUntil`, `_lastProbeMs` or `_lastBeaconMs`,
whichever the state uses), `age[s][c]` the time since `note()`; it saturates at
`TExpire`, which is "not occupied", so `_seen = false` is the age `TExpire`.  `nvs` is
what the caller persisted; it alone survives `PowerOff`.

There is one action per handler and per case of `tick()`.  `onProbe` and `onBeacon`
contain what they call (`note`, `startProbe`, `sendBeacon`, `setId`).  `startProbe`
takes the evidence table and the packets its caller has already updated, because in
the code it reads what the handler wrote a line earlier.  MACs are numbers;
`memcmp` is `<` and `_mac[5]` is `% 256`.

One simplification is deliberate: two beacons sent at the same instant are one
packet, because the second changes nothing at a receiver that has handled the
first.  Losing it is losing both.

*Time.*  In `IrIdNegotiator` time passes only when no packet is pending and no tick is
due, so one unit of time is longer than what a packet needs to be handled.  The order
of everything that happens at one instant is free.  This is the assumption under
which the protocol is meant to be safe (150 ms between probes).  `IrIdUnreliable` drops
it: `Stall` lets time pass over pending packets and due ticks, for all stations at
once, and `Lose` takes packets away.

### EspNowPush

A frame's content is the pair of its image and its index.  `written` is what
`Update.write` was given, so "CRC and size match" is `written = Content(rImg)`; CRC
collisions are left out.  The domain of `winBuf` is `_haveMask`.  `air[b]` and `acks[b]`
are FIFO (ESP-NOW does not reorder the unicasts of one sender); any packet may be lost.
`Arrive` is the WiFi task: control packets go to the ring, raw frames to the frame
queue if the raw handler takes them, and both drop what they have no room for.
`onControl` and `DrainFrame` are the device's loop, one packet or frame at a time,
since the WiFi task runs between any two; `inLoop` keeps a control packet from being
handled while the queue is being drained.  `SendWindow` is `sendWindow`: the frames of a
window that are asked for and that the image has, in their order (`WindowData`), or those
before a read that fails (`"read"`); and `Update.begin`, `write` and `end` may fail when `Faults` says so.

Timing.  `Timeout` needs the box's own packets to have left the air (500 ms against
about 2 ms a frame); the device's loop may be arbitrarily late.  The throttle of
the re-ack (100 ms) is a free choice in `EspNowPush`; in `EspNowPushLossy` the first
re-ack after a deadline is sent.  A push is started by a user, after the packets of the
last one have died out.  The u32 wrap in `windowExpectMask` is modelled where it
matters: a window beyond the image wants every frame, and flashing it fails.  Window
numbers have 16 bits (`MaxWindow`), and `PushAssumption` has every image fit them: 65533
windows of 16 frames of 242 bytes are 250 MB, far more than any flash.

### EspNowService

`ring`, `head` and `tail` are `_ring`, `_head` and `_tail`.  `onRecv` is `onRecvStatic` in the
WiFi task and `receive` the loop's; each writes only its own index, so that one step
each is what another task can observe.  `Received` are the packets by what `validate`
looks at: length, version, type and whether the CRC matches.  `peers` is the table of
`_peers`, `driver` the list the radio driver keeps (`esp_now_is_peer_exist`).
`ensurePeer` has three outcomes: the driver knows the peer and its stamp is
refreshed, it takes the new one, or it refuses it, after the old one was removed.
`lastUse` is the true time; the code compares `millis()`, which is it modulo `Wrap`.
A timeout or refusal of `esp_now_send` itself changes nothing in this code.

### IrTelegram

A frame is the sequence of its bits, `acc` is `_acc`, and `_nbits` is its length.  `air` holds the
phases of the telegram on the air; `Phase` feeds the next one to the decoder, with marks
stretched and spaces shrunk by one of `Skews`.  `Misread` turns a bit's space into the
other bit's; `CutOff` ends the telegram within a space, which then has any length;
`OtherSender` sends foreign phases.  `take()` is three steps, because the interrupt may
run between its test of `_pending`, its read of `_frame` and its clearing of `_pending`
(a 16-bit read is atomic on this processor).  `which` and `fired` are history: which shot
the decoded frame is.

`AirAssumption` is what the model asks of the receiver and of other senders.  The skew lies
between -299 and 300 us: the space of a 0 stretched to 900 us would be read as a 1
(`IRT_SPACE01_SPLIT`), and that of a 1 shrunk below it as a 0.  A foreign telegram begins with a mark longer or shorter than that of a bit
and contains no header of ours: without it, its first mark could pass for the stop mark of
a telegram cut off in its last space.

### WebUpdate

A connection waits in `backlog` until the server accepts it as `cur`, the only one it
serves.  One iteration of the caller's loop is `dropIdleClient` and `handleClient`: `Wait` if
the current connection has said nothing, `Serve` if it has.  An upload is handed over in
`Start`, `Write`s and `End` or `Aborted`, then `Done` asks for the answer; the library does
all that within one `handleClient`, so no other request is served in between, though
browsers may connect and the device may lose power at any of these steps.  That is why
the 409 answer of `/reboot` during an upload (`Refuse`) is modelled but cannot be
reached.  The hooks and the library may fail at any call; `Update.end` looks at the whole
image.  After an upload that succeeded the caller restarts (`WebUpdateService.h:75`);
without that, the flag `_done` would have the next failed upload answered as a success.
`ask` is what a browser has sent, `redirected` who has been told to ask at the device's own
address.  There are finitely many `Clients`, because the bound of `ServedSoon` counts them.

### Packets

No states: `encode*` and `decode*` with the lengths, the wraps and the defaults of the code,
every byte a value of 0..255, and a payload the buffer of 26 bytes it is.  TLC cannot
enumerate 2^200 payloads, so the statements about them are proved, not run.

## 3. Runs

| Run | Instance | What it shows |
|---|---|---|
| `irid_bus` | 3 stations, 2 ids | `UniqueIds`; `HeldIsKept`: a holder never loses its id; `AllocationSpec`: refinement; `IInv`: the inductive invariant of the proofs |
| `irid_home` | 3 stations, 3 ids, arbitrary different ids in NVS | `HeldIsHome`: everybody gets its own id back after every restart (nobody else owns it: stations without one are in `irid_bus`); `AtHome` is its inductive form |
| `irid_unreliable` | 2 stations, 2 ids, 3 troubles: losses, stalls, restarts, late hit reports | `YieldsToSmaller`: who yields and to whom; `SmallestHolderKeeps`: a conflict leaves the id with its smallest holder, never with nobody; `NoReclaim`: not back to the lost id; `HeldIsPersisted`; `Settles`: unique ids for good, everybody holding one while there are enough |
| `push_faults` | 1 box, 4 frames, losses, one restart, all failures | `WrittenIsPrefix`, `DoneIsBooted`; `TypeOK` includes that no frame is stored outside the window buffer |
| `push_rivals` | 2 boxes, 2 images, 2 pushes, `Update.begin` may fail | `BootIsWhole`: never a mixture, although two images do meet in one session; `Lockstep`: in a first push, box and device are never more than one window apart; `PushInv`, `LockInv`: the inductive invariants of the proofs |
| `push_lossy` | 3 windows, any 3 losses | `LossIsHealed`: the push ends as done |
| `service` | ring of 3, table of 2, 3 receivers, six kinds of data, refusals, one wrap of the clock | `RingIsQueue`: refinement; `DataStaysData`: no image byte becomes a packet; `PeersMatchDriver`; `EvictsOldest` |
| `telegram` | 2 shots, skews at both ends of the windows, 2 misread bits, cut-offs, another sender or a `reset()` | `TakenIsShot`, `TakenOnce`, `CleanIsHeard`, `ReportedIsTaken`; `IrtInv`: the inductive invariant of the proofs |
| `web` | 2 browsers, 3 files, 2 pieces, 5 hosts, failures everywhere, restarts | `AnswerIsTrue`, `NothingLeftOpen`, `BootIsVetted`, `NothingDropped`, `ServedSoon`, `Answered`; `WebInv`: the inductive invariant of the proofs |
| `push_aborted`, `push_stale`, `push_detail` | | three disagreements between code and comments, section 5 |

*Bounds.*  With three stations and two ids one station is always left over, so that
every id is contended and the all-taken retry happens; two stations suffice for a
conflict.  The timers are as small as keeps their order (`TProbe <= TBeacon < TListen`,
`TProbe < TExpire < TRetry`) and `NProbe = 2` has a first and a last probe.
`FactoryNew` in `irid_bus` keeps the search to stations that have not yet
persisted anything; `irid_home` and `irid_unreliable` have those that have, and the
proofs need neither.  In the push, two frames per window give partial windows, gaps and
a partial last window, and rings of two or three packets fill up (the code has 7 and
23).  `MaxRetries` is 1 to 4 for 20, `MaxEndRetries` 0 to 3 for 8: small retry limits
make giving up reachable, which is the interesting case.  `MaxLosses` does not exceed
`MaxEndRetries`, as a box that loses more than its retries may give up.

`service` has a ring of three slots (8 in the code), which fills, empties and wraps, and a
table of two peers (18) for three receivers, so that every new one may evict; `Wrap = 3`
with `MaxTime = 4` has stamps on both sides of a wrap.  `telegram` has two shots, the fewest
that can be mixed up or lost to one another; the skews -299 and 300 us are the ends of
what `Bit` and the windows tolerate; one foreign telegram or reset precedes, follows or
interrupts them.  CRC-4 and version find up to two misread bits; three may pass, so
`MaxMisread` is 2.  In `web`, two browsers are one that is served and one that waits, two
pieces a failure with pieces still to come, and `Grace = 1` a patience that can be used up.

*Deadlock.*  The push, ring, telegram and web runs stop when their bounded number of
pushes, ticks or shots is over or wait for somebody to connect, so they do not check
deadlock; the negotiation never stops and is checked.

*Fairness.*  `irid_unreliable` assumes that every station keeps ticking and consuming, that
pending packets are handled and that time passes: the loops of the devices run for
ever.  Nothing is assumed about troubles, hit reports, boots or switching off; the
number of troubles is bounded, so their end is where settling starts.
`telegram` assumes that the loop polls `take()`.  `web` assumes that the caller calls `loop()`,
that it restarts once `updateDone()`, as it is told to, and that a browser follows a
redirection.
`push_lossy` assumes the radio delivers, both loops run and deadlines pass, and
that one of the two copies of a final ack arrives (`FinalArrives`); without this the
property is false, which is `push_aborted`.

## 4. Proofs

`IrIdNegotiatorProofs` proves for every set of stations, every number of ids and all
timers with `TProbe < TListen` and `TProbe < TExpire`:

| Theorem | Statement |
|---|---|
| `Typing` | `Spec => []TypeOK` |
| `Invariance` | `Spec => []IInv` |
| `Uniqueness` | `Spec => []UniqueIds` |
| `HeldKept` | `Spec => HeldIsKept` |
| `Refinement` | `Spec => AllocationSpec` |
| `StableOverRestarts` | if hit reports only name held ids, `HomeSpec => []HeldIsHome` |
| `HomeInvariance` | under the same assumption, `HomeSpec => [](IInv /\ AtHome)` |

`UniqueIds` is not inductive: whether two probers of one id will both become holders
depends on what is on the air and on what everybody has heard.  `IInv` adds

* `ProbeIsKnown`: whenever s probes c, every other station that is on has the probe on
  its way, has evidence of c that will not have expired when s may become a holder,
  listens longer than s waits, or holds c;
* `RivalsJustBegan`: two probers of one id both began at this instant and the probe
  that decides between them is still on the air;
* `ObjectionPending`: whoever probes a held id began at this instant, and its probe or
  the holder's beacon is on the air;
* `BeaconIsTrue`, `ProbeIsFresh`, `Consistent`: what packets on the air say about
  their senders and receivers.

Time does not pass while packets are pending, so a wait that has run out implies that
nothing of this kind is left, and becoming a holder is safe.  The proof has a lemma per
handler (`OnProbeKeeps`, `OnBeaconKeeps`, ...), and the three that restart the probing
share `StartProbeKeeps`.  The two assumptions on the timers are used where the code
needs them: `TProbe < TListen` when a station boots next to a prober, `TProbe <
TExpire` when evidence must outlive a probe.  `NProbe` plays no role: on a bus that loses
nothing one probe is enough, and the others are for losses.

`HeldIsKept` follows from `BeaconIsTrue`: a beacon never reaches another holder of its
id, so the yield in `onBeacon` is for buses that lose packets.  For `Refinement`, power
and ids change only by `begin`, `PowerOff` and `becomeHeld`, which map to `Join`, `Leave`
and `Acquire`.

`HeldIsHome` rests on `AtHome`: every candidate and every packet on the air is for the id its
station or sender owns, so that nobody ever has evidence against its own.

`IrIdUnreliableProofs` proves for every set of stations and any number of losses, stalls, late
packets and restarts:

| Theorem | Statement |
|---|---|
| `UTyping` | `USpec => []UTypeOK` |
| `HeldPersists` | `USpec => []HeldIsPersisted` |
| `YieldedToSmaller` | `USpec => YieldsToSmaller` |
| `SmallestHolderKept` | `USpec => SmallestHolderKeeps` |
| `YieldedIsLeft` | `USpec => NoReclaim` |

`IInv` does not hold on such a bus: a prober may have been heard by nobody, and two stations
may hold one id for a while.  What is left is what a station knows of itself (`SelfKnown`: it
has an id or a candidate exactly in the states that do, and a held id whose change the caller
has consumed is the one in NVS) and, for the action properties, what each handler does to its
own station (`IdKnowledgeSteps` splits the steps by it): a holder changes its id in `onBeacon`
only, for a MAC that is smaller, and it notes the id as occupied before it looks for another
one.

`SmallestHolderKeeps` relates the beacons on the air to the holders.  A beacon may be handled
long after it was sent, when its sender has itself yielded; `ClaimsStand(c)` says that then a
station with a still smaller MAC holds the id.  Beacons are sent by holders only
(`NewBeaconsAreTrue`), and whoever yields to a claim that stands leaves a smaller holder behind
(`YieldLeavesSmaller`), so `ClaimsStand` is kept and the smallest holder has no beacon to yield
to.  Switching off a holder ends it: its last beacons may still take the id from the others,
who then search again.  That is why the property is stated step by step, from a state in which
all claims to the id stand.

`EspNowServiceProofs` proves for every set of devices, every ring of at least two slots,
every table and every period of the clock:

| Theorem | Statement |
|---|---|
| `Typing` | `Spec => []TypeOK` |
| `RingRefines` | `Spec => RingIsQueue`, the ring implements `ReceiveQueue`: first in, first out, nothing repeated or overwritten |
| `DataStays` | `Spec => []DataStaysData` |
| `PeersMatch` | `Spec => []PeersMatchDriver` |
| `EvictionIsFair` | `Spec => EvictsOldest` |

The refinement maps the ring to the packets between `_tail` and `_head`.  Its lemmas say what
reduced indices are (`ModOnce`, `CountIs`, `PlaceIs`): the packets lie at places other than
`_head`'s (`HeadIsBehind`), so that writing there disturbs none; one slot stays free, so
that the number of packets grows by one and not to zero (`PutCounts`); and advancing `_tail`
renames the places of the rest (`GetCounts`).  `PeersMatch` needs more than itself, that the
broadcast address is in the driver and never in the table; otherwise evicting it would
take it from the driver.  `OldestIsMinimal` is the existence of the minimum that the code's
loop finds, and `EpochOrder` why equal epochs make `millis()` compare like time.  All of
them use `Typing`.  A dropped packet is a stuttering step of `ReceiveQueue`, so the refinement does
not say that a packet is dropped only when the ring is full; that is the guard of `onRecv`.

`EspNowPushProofs` proves for every set of boxes and images, every window size, ring, queue and
retry limit, any choice of failures and any number of pushes and restarts:

| Theorem | Statement |
|---|---|
| `PushInvariance` | `Spec => []PushInv` |
| `PushTyping` | `Spec => []TypeOK` |
| `BootWhole` | `Spec => []BootIsWhole` |
| `PrefixWritten` | `Spec => []WrittenIsPrefix` |
| `DoneBooted` | `Spec => []DoneIsBooted` |

`PushInv` has four parts besides the types.  `Carries(S)`: every image named in a box, on the
air, in the ring, the queue, the window buffer, the flash or the boot slot is one of `S`, and no
`FINAL_OK` is on the air, and no box done, before one of `S` was booted.  `OneImage`: up to the
second push there is a single image for which this holds; that is what makes the mixtures of
`push_stale` impossible before.  `Placed`: a frame in the window buffer or in flash is where its
index says, which is why the flash holds a prefix and not only the right frames.  `Bounded`: the
retries and the window numbers, and that the device receives from a box.  The lemmas about the
actions show that each keeps `Carries(S)` for any `S` that the images pushed belong to; they are
used once for all images and once for the only one.  The images fit the flash (`PushAssumption`), otherwise
`_window` would wrap.  CRC and size are what they are in the model, the comparison of what
was written with the image.

`EspNowPushLockstepProofs` proves, for the same constants:

| Theorem | Statement |
|---|---|
| `LockstepInvariance` | `Spec => []LockInv` |
| `LockstepKept` | `Spec => []Lockstep` |

`Lockstep` speaks of the first push, of a device that stays on (`reboots = 0`) and of a flash that
can be written (`FlashWorks`).  The last condition is needed: when a write fails, a duplicate
`PUSH_BEGIN` left in the ring opens a new session at window 0 while the box is further on.  A
refused `Update.begin`, a failed `Update.end` and a failed read in the box are allowed for.
`LockInv` is what every place on the way between box and device agrees on.  `Alone`: only one
box is heard of.  `Paced`: no frame in the air or in the queue lies beyond the box's window, so
the device cannot complete a window the box has not reached.  `AcksFlashed` and `Gapped`: an
ack with nothing missing is for a flashed window, also when the device asks for what is
missing, because a complete window is flashed at once; so a stale ack never moves the box
on.  `EndsLast`: no `PUSH_BEGIN` is behind a `PUSH_END` in air and ring, so the session a
`PUSH_END` finished (`Over`) is not opened again, and one that has not begun (`Fresh`) has a box
at its first window.  `BoxEffect` sums up what a step of the box does to all this, `DeviceTakes`
what a step of the device leaves as it is.

`WebUpdateProofs` proves for every finite set of browsers, all files, hosts, numbers of pieces and
patience:

| Theorem | Statement |
|---|---|
| `WebInvariance` | `Spec => []WebInv` |
| `WebTyping` | `Spec => []TypeOK` |
| `AnswerTrue` | `Spec => []AnswerIsTrue` |
| `NothingOpen` | `Spec => []NothingLeftOpen` |
| `BootVetted` | `Spec => []BootIsVetted` |
| `Served` | `Spec => []ServedSoon` |
| `Dropped` | `Spec => NothingDropped` |

Of `WebInv`, `Connected` says that no connection is in two places and that a request has one;
`ThisUpload` that every flag which outlives a request (`_failed`, `_wrongFile`, `_done`,
`_storeActive`, `_storeOk`) speaks of the upload being served, at each of its parts; and `OnTime`
is the argument for `ServedSoon`: `Ahead(k)` is the patience that the connections before place k
of the backlog may still use up, and each iteration of the loop brings a request nearer by at
least as much as it has waited.  `Served` is thus a bound, where `Answered` is the liveness
that TLC checks.

`IrTelegramProofs` proves for all shots, every skew and foreign sender `AirAssumption` admits, any
number of shots, resets, cut-offs and misread bits:

| Theorem | Statement |
|---|---|
| `TwoErrors` | two valid frames that differ in two bits at most are one |
| `TelegramInvariance` | `Spec => []IrtInv` |
| `TelegramTyping` | `Spec => []TypeOK` |
| `CleanHeard` | `Spec => []CleanIsHeard` |
| `OnceTaken` | `Spec => []TakenOnce` |
| `ShotTaken` | if `MaxMisread <= 2` and all damages fit four bits, `Spec => [](Reported /\ TakenIsShot)` |

`IrtInv` is about the distance between decoder and telegram.  `OfShot`: what is on the air is
the rest of the last shot, which is not reported yet.  `Follows`: the decoder is in the state and
has the number of bits that belong to the phases left, or it is idle and the telegram is no
longer unharmed.  `Faithful`: it has no more wrong bits than were misread.  `OfOther`: a foreign
telegram moves it between `IDLE` and `HDR_SPACE` only.  The header restarts it from every state,
so `Follows` holds whatever came before, and the stop mark of a clean telegram finds sixteen
right bits.  `InTurn` orders what is taken, what `take()` is reading and what is pending.
`ShotTaken` adds the CRC: sixteen valid bits of which two at most are wrong are the code of
the shot (`TwoErrors`), and a code whose damage fits decodes to the shot.  Both hypotheses
are needed: three wrong bits may pass, and damage 16 is sent as 0 (section 5).  `CrcIs` unfolds
the recursion of `irtCrc4`, `CrcBits` reads the twelve steps as four parities.

`PacketsProofs` proves about every value of every field, without an assumption:
`TargetSurvives`, `BeginSurvives`, `AckSurvives` and `ReplySurvives` (what is encoded is decoded);
`StationIsSound` (any blob of any length decodes to a configuration with colours, mode and
brightness set); `TargetReadsItsBlob` (nothing beyond a blob's length is read, not half of
a two-byte time either); `ReplyFits` (any length a reply claims is cut on both sides).

Only model-checked:

* liveness, which the installed provers do not reach: `Settles`, `LossIsHealed`,
  `ReportedIsTaken`, `Answered`;
* `EspNowPushLossy`, which is there for its liveness.

## 5. Findings

* `push_aborted` - `EspNowPush.h:9` and `PROTOCOL.md:276` say that an aborted push never
  boots.  If both copies of the final ack are lost, the box reports failure after its
  retries while the device boots the new image: `PUSH_END` is not answered any more.
* `push_stale` - a box that gave up at the end of a push and starts another one while
  the device is still receiving has its `PUSH_BEGIN` taken for a duplicate
  (`EspNowPush.cpp:97-116`).  The device re-acks the new image's frames as already
  flashed, boots the old session's image, and the box reports the new image as done.
  The CRC does not help: it is the first image's.
* `push_detail` - `start()` does not reset `_finalDetail`, so a push that gave up shows
  the update-library error of an earlier one.

Observations, of cases outside what the runs' properties promise:

* A shot that the interrupt reports between `take()`'s read of `_frame` and its clearing of
  `_pending` is lost (`IrTelegram.cpp:103-108`); `ReportedIsTaken` leaves that window out, and
  `telegram` shows that it is the only one and that no shot is taken twice.
* `irtEncode` raises damage 0 to 1 (`IrTelegram.h:55`: a shot always carries at least 1 damage),
  and then keeps the low four bits: 16 is sent as 0 (`IrTelegram.cpp:20`).  No caller in this
  repository sends more than 15, and `telegram` uses damages that fit.
* `_done` is never reset (`WebUpdateService.cpp:279`): `AnswerIsTrue` rests on the caller's
  restart.  The 409 answer of `/reboot` is unreachable, see above.
* After 49 days the least recently used peer may be taken for the most recent one
  (`EspNowService.cpp:89`); it is registered again when next used, and `EvictsOldest` is
  stated for stamps of one epoch.

## 6. Not modelled, and the plan

Out of scope: the constant tables `SoundCatalog` and `FwMarker`, the wording of the pages,
the DNS server of the captive portal, texts, logging, the hardware set-up.  The bit
loops of `crc16` and `crc32` are loops over data that neither TLC can enumerate nor the
installed provers do induction on; the protocol modules use that a checksum matches.

Planned:

1. `EvidenceClock`: `isOccupied` and `_listenUntil` with wrapping milliseconds.
