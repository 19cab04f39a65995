---------------------------- MODULE IrIdNegotiator ----------------------------
(***************************************************************************)
(* Zero-configuration negotiation of the stations' IR ids                  *)
(* (src/src/IrIdNegotiator.cpp).  Every station runs one negotiator:       *)
(* LISTEN -> PROBE -> HELD.  Stations talk over a broadcast bus.           *)
(*                                                                         *)
(* Time.  One unit of time is the slack the system has between a packet    *)
(* leaving one station and the receiver's loop() having handled it: in     *)
(* this module every packet sent at an instant is handled before time      *)
(* advances, in any order, and a station whose timer has run out ticks at  *)
(* that instant.  IrIdUnreliable drops both assumptions.  Timers are kept  *)
(* relative to now: wait[s] is the time to the next thing tick() does, and *)
(* age[s][c] the time since s last had evidence of c, which saturates at   *)
(* TExpire ("not occupied").                                               *)
(***************************************************************************)
EXTENDS Integers

CONSTANTS
    Stations,   \* the stations' MAC addresses, as numbers (memcmp order)
    NumIds,     \* ids are 1..NumIds (15 in the code)
    TListen, TProbe, NProbe, TBeacon, TExpire, TRetry,  \* IRID_T_..., IRID_N_PROBE
    LateHitIds  \* ids a HIT_REPORT may carry although no station holds them now

ASSUME StationsAssumption == Stations \subseteq Nat
ASSUME NumIdsAssumption == NumIds \in Nat \ {0}
ASSUME LateHitIdsAssumption == LateHitIds \subseteq 1..NumIds
ASSUME TimesAssumption ==
    /\ TListen \in Nat /\ TProbe \in Nat \ {0} /\ NProbe \in Nat \ {0}
    /\ TBeacon \in Nat \ {0} /\ TExpire \in Nat /\ TRetry \in Nat \ {0}
    /\ TProbe < TListen
    /\ TProbe < TExpire

Ids == 1..NumIds
States == {"LISTEN", "PROBE", "HELD"}
Kinds == {"PROBE", "BEACON"}
Messages == [kind : Kinds, src : Stations, dst : Stations, id : Ids]

VARIABLES
    on,         \* on[s]: the station is powered
    state,      \* _state
    id,         \* _id, 0 = none
    cand,       \* _candidate, 0 = none
    wait,       \* time until tick() acts: _listenUntil, _lastProbeMs, _lastBeaconMs
    probesSent, \* _probesSent
    age,        \* _seen and _seenMs
    preferred,  \* _preferred
    idChanged,  \* _idChanged
    nvs,        \* the id the caller persisted; survives power-off
    net         \* packets on the air, one per receiver

vars == <<on, state, id, cand, wait, probesSent, age, preferred, idChanged, nvs, net>>

TypeOK ==
    /\ on \in [Stations -> BOOLEAN]
    /\ state \in [Stations -> States]
    /\ id \in [Stations -> 0..NumIds]
    /\ cand \in [Stations -> 0..NumIds]
    /\ wait \in [Stations -> Nat]
    /\ probesSent \in [Stations -> 0..NProbe]
    /\ age \in [Stations -> [Ids -> 0..TExpire]]
    /\ preferred \in [Stations -> 0..NumIds]
    /\ idChanged \in [Stations -> BOOLEAN]
    /\ nvs \in [Stations -> 0..NumIds]
    /\ net \subseteq Messages

RamInit ==
    /\ on = [s \in Stations |-> FALSE]
    /\ state = [s \in Stations |-> "LISTEN"]
    /\ id = [s \in Stations |-> 0]
    /\ cand = [s \in Stations |-> 0]
    /\ wait = [s \in Stations |-> 0]
    /\ probesSent = [s \in Stations |-> 0]
    /\ age = [s \in Stations |-> [c \in Ids |-> TExpire]]
    /\ preferred = [s \in Stations |-> 0]
    /\ idChanged = [s \in Stations |-> FALSE]
    /\ net = {}

\* Factory-new stations: nothing was ever persisted.
Init == RamInit /\ nvs = [s \in Stations |-> 0]

\* A game that was played before: every station has an id of its own in NVS.
HomeInit ==
    /\ RamInit
    /\ nvs \in {f \in [Stations -> Ids] : \A s, t \in Stations : f[s] = f[t] => s = t}

-----------------------------------------------------------------------------
(* The pieces the handlers are made of.  `ag' is the evidence table a      *)
(* handler has already updated, `rest' the packets it leaves on the air.   *)

Broadcast(kind, s, c) ==
    {m \in Messages : m.kind = kind /\ m.src = s /\ m.id = c /\ m.dst # s /\ on[m.dst]}

Unicast(kind, s, d, c) ==
    {m \in Messages : m.kind = kind /\ m.src = s /\ m.id = c /\ m.dst = d /\ on[d]}

isOccupied(ag, s, c) == ag[s][c] < TExpire

\* (noteForgets: the evidence is not recorded.)
noteForgets(ag, s, c) == ag
note(ag, s, c) == [ag EXCEPT ![s][c] = 0]

\* (otherWinsNever compares too few bytes of the MACs, otherWinsAlways tests
\* memcmp for inequality only, otherWinsLarger the wrong way round.)
otherWinsNever(s, other) == FALSE
otherWinsAlways(s, other) == other # s
otherWinsLarger(s, other) == other > s
otherWins(s, other) == other < s

FreeIds(ag, s) == {c \in Ids : ~isOccupied(ag, s, c)}
Base(s) == ((s % 256) % NumIds) + 1      \* from the last byte of the MAC
StepsFromBase(s, c) == (c + NumIds - Base(s)) % NumIds

\* (pickCandidateByMac: the persisted id is not tried first.)
pickCandidateByMac(ag, s) ==
    {c \in FreeIds(ag, s) :
        \A d \in FreeIds(ag, s) : StepsFromBase(s, c) <= StepsFromBase(s, d)}

\* A singleton, or empty when every id is taken.
pickCandidate(ag, s) ==
    {c \in FreeIds(ag, s) :
        \/ c = preferred[s]
        \/ /\ preferred[s] \notin FreeIds(ag, s)
           /\ \A d \in FreeIds(ag, s) : StepsFromBase(s, c) <= StepsFromBase(s, d)}

startProbe(s, ag, rest) ==
    /\ age' = ag
    /\ \/ \E c \in pickCandidate(ag, s) :
            /\ state' = [state EXCEPT ![s] = "PROBE"]
            /\ cand' = [cand EXCEPT ![s] = c]
            /\ wait' = [wait EXCEPT ![s] = TProbe]
            /\ probesSent' = [probesSent EXCEPT ![s] = 1]
            /\ net' = rest \cup Broadcast("PROBE", s, c)
       \/ /\ FreeIds(ag, s) = {}
          /\ state' = [state EXCEPT ![s] = "LISTEN"]
          /\ cand' = [cand EXCEPT ![s] = 0]
          /\ wait' = [wait EXCEPT ![s] = TRetry]
          /\ net' = rest
          /\ UNCHANGED probesSent

\* What a handler that leaves the negotiator's own state alone does.
KeepState == UNCHANGED <<state, cand, wait, probesSent>>
KeepId == UNCHANGED <<id, idChanged>>
KeepPower == UNCHANGED <<on, preferred, nvs>>

-----------------------------------------------------------------------------
(* The caller: power, the boot sequence and the persisted id.              *)

\* (beginEager: no LISTEN phase; beginForgets: preferredId is not passed.)
beginEager(s) ==
    /\ ~on[s]
    /\ on' = [on EXCEPT ![s] = TRUE]
    /\ preferred' = [preferred EXCEPT ![s] = nvs[s]]
    /\ UNCHANGED <<wait, state, id, cand, probesSent, age, idChanged, nvs, net>>
beginForgets(s) ==
    /\ ~on[s]
    /\ on' = [on EXCEPT ![s] = TRUE]
    /\ wait' = [wait EXCEPT ![s] = TListen]
    /\ UNCHANGED <<preferred, state, id, cand, probesSent, age, idChanged, nvs, net>>

begin(s) ==
    /\ ~on[s]
    /\ on' = [on EXCEPT ![s] = TRUE]
    /\ preferred' = [preferred EXCEPT ![s] = nvs[s]]
    /\ wait' = [wait EXCEPT ![s] = TListen]
    /\ UNCHANGED <<state, id, cand, probesSent, age, idChanged, nvs, net>>

\* Everything but nvs is RAM; packets for a station that is off are lost.
PowerOff(s) ==
    /\ on[s]
    /\ on' = [on EXCEPT ![s] = FALSE]
    /\ state' = [state EXCEPT ![s] = "LISTEN"]
    /\ id' = [id EXCEPT ![s] = 0]
    /\ cand' = [cand EXCEPT ![s] = 0]
    /\ wait' = [wait EXCEPT ![s] = 0]
    /\ probesSent' = [probesSent EXCEPT ![s] = 0]
    /\ age' = [age EXCEPT ![s] = [c \in Ids |-> TExpire]]
    /\ preferred' = [preferred EXCEPT ![s] = 0]
    /\ idChanged' = [idChanged EXCEPT ![s] = FALSE]
    /\ net' = {m \in net : m.dst # s}
    /\ UNCHANGED nvs

\* The caller persists a newly held id; a yield (id 0) leaves nvs alone.
consumeIdChanged(s) ==
    /\ on[s] /\ idChanged[s]
    /\ idChanged' = [idChanged EXCEPT ![s] = FALSE]
    /\ nvs' = [nvs EXCEPT ![s] = IF id[s] = 0 THEN @ ELSE id[s]]
    /\ UNCHANGED <<on, state, id, cand, wait, probesSent, age, preferred, net>>

-----------------------------------------------------------------------------
(* tick(), one action per case that does something.                        *)

TickListen(s) ==
    /\ on[s] /\ state[s] = "LISTEN" /\ wait[s] = 0
    /\ startProbe(s, age, net)
    /\ KeepId /\ KeepPower

\* (SendProbeOneMore: an off-by-one in the number of probes.)
SendProbeOneMore(s) ==
    /\ on[s] /\ state[s] = "PROBE" /\ wait[s] = 0
    /\ probesSent[s] <= NProbe
    /\ wait' = [wait EXCEPT ![s] = TProbe]
    /\ probesSent' = [probesSent EXCEPT ![s] = @ + 1]
    /\ net' = net \cup Broadcast("PROBE", s, cand[s])
    /\ UNCHANGED <<state, cand, age>> /\ KeepId /\ KeepPower

SendProbe(s) ==
    /\ on[s] /\ state[s] = "PROBE" /\ wait[s] = 0
    /\ probesSent[s] < NProbe
    /\ wait' = [wait EXCEPT ![s] = TProbe]
    /\ probesSent' = [probesSent EXCEPT ![s] = @ + 1]
    /\ net' = net \cup Broadcast("PROBE", s, cand[s])
    /\ UNCHANGED <<state, cand, age>> /\ KeepId /\ KeepPower

\* (becomeHeldOnce: only a station that booted without an id reports its new one.)
becomeHeldOnce(s) ==
    /\ on[s] /\ state[s] = "PROBE" /\ wait[s] = 0
    /\ probesSent[s] >= NProbe
    /\ state' = [state EXCEPT ![s] = "HELD"]
    /\ id' = [id EXCEPT ![s] = cand[s]]
    /\ idChanged' = [idChanged EXCEPT ![s] = @ \/ preferred[s] = 0]
    /\ cand' = [cand EXCEPT ![s] = 0]
    /\ age' = [age EXCEPT ![s][cand[s]] = TExpire]
    /\ wait' = [wait EXCEPT ![s] = TBeacon]
    /\ net' = net \cup Broadcast("BEACON", s, cand[s])
    /\ UNCHANGED probesSent /\ KeepPower

\* The two beacons sent at once are one packet on this bus: both are
\* handled within the instant, and the second changes nothing.
becomeHeld(s) ==
    /\ on[s] /\ state[s] = "PROBE" /\ wait[s] = 0
    /\ probesSent[s] >= NProbe
    /\ state' = [state EXCEPT ![s] = "HELD"]
    /\ id' = [id EXCEPT ![s] = cand[s]]
    /\ idChanged' = [idChanged EXCEPT ![s] = @ \/ cand[s] # id[s]]
    /\ cand' = [cand EXCEPT ![s] = 0]
    /\ age' = [age EXCEPT ![s][cand[s]] = TExpire]
    /\ wait' = [wait EXCEPT ![s] = TBeacon]
    /\ net' = net \cup Broadcast("BEACON", s, cand[s])
    /\ UNCHANGED probesSent /\ KeepPower

TickHeld(s) ==
    /\ on[s] /\ state[s] = "HELD" /\ wait[s] = 0
    /\ wait' = [wait EXCEPT ![s] = TBeacon]
    /\ net' = net \cup Broadcast("BEACON", s, id[s])
    /\ UNCHANGED <<state, cand, probesSent, age>> /\ KeepId /\ KeepPower

-----------------------------------------------------------------------------
(* The radio inputs.  A station never hears itself.                        *)

\* (onProbeUnsettled: no tie-break between two stations that probe one id.)
onProbeUnsettled(s, m) ==
    LET defended == state[s] = "HELD" /\ m.id = id[s]
    IN  /\ m \in net /\ m.dst = s /\ m.kind = "PROBE"
        /\ age' = IF defended THEN age ELSE note(age, s, m.id)
        /\ wait' = IF defended THEN [wait EXCEPT ![s] = TBeacon] ELSE wait
        /\ net' = (net \ {m}) \cup IF defended THEN Broadcast("BEACON", s, id[s]) ELSE {}
        /\ UNCHANGED <<state, cand, probesSent>>
        /\ KeepId /\ KeepPower

onProbe(s, m) ==
    LET rest == net \ {m}
        ag == IF m.id # id[s] THEN note(age, s, m.id) ELSE age
    IN  /\ m \in net /\ m.dst = s /\ m.kind = "PROBE"
        /\ CASE state[s] = "PROBE" /\ m.id = cand[s] /\ otherWins(s, m.src) ->
                  startProbe(s, ag, rest)
             [] state[s] = "HELD" /\ m.id = id[s] ->
                  /\ age' = ag
                  /\ wait' = [wait EXCEPT ![s] = TBeacon]
                  /\ net' = rest \cup Unicast("BEACON", s, m.src, id[s])
                                 \cup Broadcast("BEACON", s, id[s])
                  /\ UNCHANGED <<state, cand, probesSent>>
             [] OTHER ->
                  /\ age' = ag /\ net' = rest /\ KeepState
        /\ KeepId /\ KeepPower

onBeacon(s, m) ==
    LET rest == net \ {m}
        ag == IF m.id # id[s] THEN note(age, s, m.id) ELSE age
    IN  /\ m \in net /\ m.dst = s /\ m.kind = "BEACON"
        /\ CASE state[s] = "PROBE" /\ m.id = cand[s] ->
                  startProbe(s, ag, rest) /\ KeepId
             [] state[s] = "HELD" /\ m.id = id[s] /\ otherWins(s, m.src) ->
                  /\ id' = [id EXCEPT ![s] = 0]
                  /\ idChanged' = [idChanged EXCEPT ![s] = TRUE]
                  /\ startProbe(s, note(ag, s, m.id), rest)
             [] state[s] = "HELD" /\ m.id = id[s] /\ ~otherWins(s, m.src) ->
                  /\ age' = ag
                  /\ wait' = [wait EXCEPT ![s] = TBeacon]
                  /\ net' = rest \cup Broadcast("BEACON", s, id[s])
                  /\ UNCHANGED <<state, cand, probesSent>> /\ KeepId
             [] OTHER ->
                  /\ age' = ag /\ net' = rest /\ KeepState /\ KeepId
        /\ KeepPower

\* A target broadcasts a hit with the shooter's id.
onHitReport(s, c) ==
    /\ on[s] /\ c # id[s]
    /\ LET ag == note(age, s, c)
       IN  IF state[s] = "PROBE" /\ c = cand[s]
           THEN startProbe(s, ag, net)
           ELSE age' = ag /\ UNCHANGED net /\ KeepState
    /\ KeepId /\ KeepPower

\* Ids a hit report can carry: whoever shoots holds one, or held it a while ago.
HitIds == LateHitIds \cup {id[s] : s \in {t \in Stations : id[t] # 0}}

-----------------------------------------------------------------------------
Elapse ==
    /\ wait' = [s \in Stations |-> IF on[s] /\ wait[s] > 0 THEN wait[s] - 1 ELSE wait[s]]
    /\ age' = [s \in Stations |-> [c \in Ids |->
                 IF age[s][c] < TExpire THEN age[s][c] + 1 ELSE TExpire]]
    /\ UNCHANGED <<on, state, id, cand, probesSent, preferred, idChanged, nvs, net>>

Time ==
    /\ net = {}
    /\ \A s \in Stations : on[s] => wait[s] > 0
    /\ Elapse

Tick(s) == TickListen(s) \/ SendProbe(s) \/ becomeHeld(s) \/ TickHeld(s)
Deliver(m) == onProbe(m.dst, m) \/ onBeacon(m.dst, m)
Hit == \E s \in Stations, c \in HitIds : onHitReport(s, c)

Next ==
    \/ \E s \in Stations : begin(s) \/ PowerOff(s) \/ consumeIdChanged(s) \/ Tick(s)
    \/ \E m \in net : Deliver(m)
    \/ Hit
    \/ Time

Spec == Init /\ [][Next]_vars
HomeSpec == HomeInit /\ [][Next]_vars

-----------------------------------------------------------------------------
(* Properties.                                                             *)

Probing(s, c) == state[s] = "PROBE" /\ cand[s] = c
Holding(s, c) == state[s] = "HELD" /\ id[s] = c
Packet(kind, s, d, c) == [kind |-> kind, src |-> s, dst |-> d, id |-> c]

\* What the negotiation is for: no two stations hold the same id
\* (PROTOCOL.md, "paarweise verschiedene ir_ids").
UniqueIds ==
    \A s, t \in Stations, c \in Ids : Holding(s, c) /\ Holding(t, c) => s = t

\* A station that holds an id keeps it until it is switched off: on a bus
\* that loses nothing the yield in onBeacon never happens.
HeldIsKept ==
    [][\A s \in Stations : state[s] = "HELD" /\ on'[s] => id'[s] = id[s]]_vars

\* Once the caller has consumed the change, what it persisted is the id the
\* station holds, whatever aborts and retries lie between two holdings.
HeldIsPersisted ==
    \A s \in Stations : state[s] = "HELD" /\ ~idChanged[s] => nvs[s] = id[s]

\* Stations that own different ids in NVS get them back after every restart,
\* in any order and at any time (PROTOCOL.md, "stabil ueber Neustarts").
HeldIsHome == \A s \in Stations : state[s] = "HELD" => id[s] = nvs[s]

\* The negotiation implements the allocator the game relies on.
Allocation == INSTANCE IdAllocation
AllocationSpec == Allocation!ASpec

-----------------------------------------------------------------------------
(* Why UniqueIds holds: the inductive invariant, in named parts.           *)

\* irId() is 0 unless HELD, candidate() is 0 unless PROBE; a station that is
\* off has neither.  Packets are for stations that are on, from others.
Consistent ==
    /\ \A s \in Stations :
        /\ state[s] = "HELD" <=> id[s] # 0
        /\ state[s] = "PROBE" <=> cand[s] # 0
        /\ ~on[s] => state[s] = "LISTEN"
        /\ state[s] = "PROBE" => wait[s] <= TProbe
    /\ \A m \in net : on[m.dst] /\ m.src # m.dst

\* A prober with a packet still on the air sent it at this very instant.
ProbeIsFresh ==
    \A m \in net : m.kind = "PROBE" /\ Probing(m.src, m.id) => wait[m.src] = TProbe

\* Two stations that probe the same id have both just begun, and the tie-break
\* that stops one of them is on its way.
RivalsJustBegan ==
    \A s, t \in Stations, c \in Ids :
        s < t /\ Probing(s, c) /\ Probing(t, c) =>
            /\ wait[s] = TProbe /\ wait[t] = TProbe
            /\ Packet("PROBE", s, t, c) \in net

\* Every station that is on knows of a probe, is about to hear of it, holds
\* that id, or listens longer than the prober waits.
ProbeIsKnown ==
    \A s, t \in Stations, c \in Ids :
        s # t /\ on[t] /\ Probing(s, c) =>
            \/ Packet("PROBE", s, t, c) \in net
            \/ age[t][c] + wait[s] <= TProbe
            \/ state[t] = "LISTEN" /\ wait[s] < wait[t]
            \/ Holding(t, c)

\* Whoever probes a held id has just begun, and the objection is on its way.
ObjectionPending ==
    \A s, t \in Stations, c \in Ids :
        Holding(s, c) /\ Probing(t, c) =>
            /\ wait[t] = TProbe
            /\ \/ Packet("PROBE", t, s, c) \in net
               \/ Packet("BEACON", s, t, c) \in net

\* A beacon never reaches another holder of its id, and a prober it reaches
\* has just begun.
BeaconIsTrue ==
    \A m \in net : m.kind = "BEACON" =>
        /\ ~Holding(m.dst, m.id)
        /\ Probing(m.dst, m.id) => wait[m.dst] = TProbe

IInv ==
    /\ TypeOK
    /\ Consistent
    /\ ProbeIsFresh
    /\ RivalsJustBegan
    /\ ProbeIsKnown
    /\ ObjectionPending
    /\ BeaconIsTrue
    /\ UniqueIds

\* Why HeldIsHome holds: nobody ever has a reason to leave its own id.
AtHome ==
    /\ \A s \in Stations :
        /\ nvs[s] \in Ids
        /\ \A t \in Stations : nvs[s] = nvs[t] => s = t
        /\ on[s] => preferred[s] = nvs[s]
        /\ id[s] \in {0, nvs[s]} /\ cand[s] \in {0, nvs[s]}
        /\ ~isOccupied(age, s, nvs[s])
    /\ \A m \in net : m.id = nvs[m.src]

=============================================================================
