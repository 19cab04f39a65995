------------------------- MODULE IrIdNegotiatorProofs -------------------------
(***************************************************************************)
(* Proofs about IrIdNegotiator, for every number of stations and ids and   *)
(* every choice of timers its assumptions allow.                           *)
(***************************************************************************)
EXTENDS IrIdNegotiator, TLAPS

USE StationsAssumption, NumIdsAssumption, LateHitIdsAssumption, TimesAssumption

\* What broadcasts and unicasts put on the air are packets.
LEMMA PacketsAreTyped ==
    \A kind, s, d, c :
        /\ Broadcast(kind, s, c) \subseteq Messages
        /\ Unicast(kind, s, d, c) \subseteq Messages
    BY DEF Broadcast, Unicast

\* Noting evidence leaves a table of ages.
LEMMA NoteIsTyped ==
    ASSUME NEW ag \in [Stations -> [Ids -> 0..TExpire]], NEW s \in Stations, NEW c \in Ids
    PROVE  note(ag, s, c) \in [Stations -> [Ids -> 0..TExpire]]
    <1>1. 0 \in 0..TExpire
        OBVIOUS
    <1> QED BY <1>1 DEF note

\* What startProbe leaves typed.
LEMMA StartProbeTyped ==
    ASSUME TypeOK, NEW s \in Stations,
           NEW ag \in [Stations -> [Ids -> 0..TExpire]],
           NEW rest \in SUBSET Messages,
           startProbe(s, ag, rest)
    PROVE  /\ state' \in [Stations -> States]
           /\ cand' \in [Stations -> 0..NumIds]
           /\ wait' \in [Stations -> Nat]
           /\ probesSent' \in [Stations -> 0..NProbe]
           /\ age' \in [Stations -> [Ids -> 0..TExpire]]
           /\ net' \subseteq Messages
    <1>1. CASE FreeIds(ag, s) = {} /\ state' = [state EXCEPT ![s] = "LISTEN"]
                /\ cand' = [cand EXCEPT ![s] = 0] /\ wait' = [wait EXCEPT ![s] = TRetry]
                /\ net' = rest /\ UNCHANGED probesSent
        BY <1>1 DEF TypeOK, startProbe, States
    <1>2. CASE \E c \in pickCandidate(ag, s) :
                /\ state' = [state EXCEPT ![s] = "PROBE"]
                /\ cand' = [cand EXCEPT ![s] = c]
                /\ wait' = [wait EXCEPT ![s] = TProbe]
                /\ probesSent' = [probesSent EXCEPT ![s] = 1]
                /\ net' = rest \cup Broadcast("PROBE", s, c)
        <2>1. PICK c \in Ids :
                /\ state' = [state EXCEPT ![s] = "PROBE"]
                /\ cand' = [cand EXCEPT ![s] = c]
                /\ wait' = [wait EXCEPT ![s] = TProbe]
                /\ probesSent' = [probesSent EXCEPT ![s] = 1]
                /\ net' = rest \cup Broadcast("PROBE", s, c)
            BY <1>2 DEF pickCandidate, FreeIds
        <2>2. c \in 0..NumIds /\ 1 \in 0..NProbe
            BY DEF Ids
        <2> QED BY <2>1, <2>2, PacketsAreTyped DEF TypeOK, startProbe, States
    <1> QED BY <1>1, <1>2 DEF startProbe

\* Hit reports carry ids.
LEMMA HitIdsAreIds == ASSUME TypeOK PROVE HitIds \subseteq Ids
<1> SUFFICES ASSUME NEW c \in HitIds PROVE c \in Ids
    OBVIOUS
<1>1. CASE c \in LateHitIds
    BY <1>1 DEF Ids
<1>2. CASE \E t \in Stations : id[t] # 0 /\ c = id[t]
    BY <1>2 DEF TypeOK, Ids
<1> QED BY <1>1, <1>2 DEF HitIds

\* Whatever id a hit report carries.
LEMMA OnHitReportTyped ==
    ASSUME TypeOK, NEW s \in Stations, NEW c \in Ids, onHitReport(s, c)
    PROVE  TypeOK'
<1> DEFINE ag == note(age, s, c)
<1>1. ag \in [Stations -> [Ids -> 0..TExpire]] /\ net \in SUBSET Messages
    BY NoteIsTyped DEF TypeOK
<1>2. UNCHANGED <<id, idChanged, on, preferred, nvs>>
    BY DEF onHitReport, KeepId, KeepPower
<1>3. CASE startProbe(s, ag, net)
    <2> HIDE DEF ag
    <2> QED BY <1>1, <1>2, <1>3, StartProbeTyped DEF TypeOK
<1>4. CASE age' = ag /\ UNCHANGED net /\ KeepState
    <2> HIDE DEF ag
    <2> QED BY <1>1, <1>2, <1>4 DEF TypeOK, KeepState
<1> QED BY <1>3, <1>4 DEF onHitReport

\* Timers and ages stay within their bounds when time passes.
LEMMA ElapseTyped == ASSUME TypeOK, Elapse PROVE TypeOK'
<1>1. wait' \in [Stations -> Nat]
    BY DEF TypeOK, Elapse
<1>2. age' \in [Stations -> [Ids -> 0..TExpire]]
    BY DEF TypeOK, Elapse
<1> QED BY <1>1, <1>2 DEF TypeOK, Elapse

\* Every step leaves every variable in its set.
LEMMA TypingStep == TypeOK /\ [Next]_vars => TypeOK'
<1> SUFFICES ASSUME TypeOK, [Next]_vars PROVE TypeOK'
    OBVIOUS
<1>1. ASSUME NEW s \in Stations, begin(s) PROVE TypeOK'
    BY <1>1 DEF TypeOK, begin
<1>2. ASSUME NEW s \in Stations, PowerOff(s) PROVE TypeOK'
    BY <1>2 DEF TypeOK, PowerOff, States
<1>3. ASSUME NEW s \in Stations, consumeIdChanged(s) PROVE TypeOK'
    BY <1>3 DEF TypeOK, consumeIdChanged
<1>4. ASSUME NEW s \in Stations, TickListen(s) PROVE TypeOK'
    BY <1>4, StartProbeTyped DEF TypeOK, TickListen, KeepId, KeepPower
<1>5. ASSUME NEW s \in Stations, SendProbe(s) PROVE TypeOK'
    <2>1. probesSent' \in [Stations -> 0..NProbe]
        BY <1>5 DEF TypeOK, SendProbe
    <2> QED BY <1>5, <2>1, PacketsAreTyped DEF TypeOK, SendProbe, KeepId, KeepPower
<1>6. ASSUME NEW s \in Stations, becomeHeld(s) PROVE TypeOK'
    <2>1. age' \in [Stations -> [Ids -> 0..TExpire]]
        <3>1. TExpire \in 0..TExpire
            OBVIOUS
        <3>2. [age[s] EXCEPT ![cand[s]] = TExpire] \in [Ids -> 0..TExpire]
            BY <3>1 DEF TypeOK
        <3> QED BY <1>6, <3>2 DEF TypeOK, becomeHeld
    <2>2. idChanged' \in [Stations -> BOOLEAN]
        <3>1. (idChanged[s] \/ cand[s] # id[s]) \in BOOLEAN
            BY Zenon
        <3> QED BY <1>6, <3>1 DEF TypeOK, becomeHeld
    <2>3. net' \subseteq Messages
        BY <1>6, PacketsAreTyped DEF TypeOK, becomeHeld
    <2>4. id' \in [Stations -> 0..NumIds] /\ cand' \in [Stations -> 0..NumIds]
        BY <1>6 DEF TypeOK, becomeHeld
    <2> QED BY <1>6, <2>1, <2>2, <2>3, <2>4 DEF TypeOK, becomeHeld, KeepPower, States
<1>7. ASSUME NEW s \in Stations, TickHeld(s) PROVE TypeOK'
    BY <1>7, PacketsAreTyped DEF TypeOK, TickHeld, KeepId, KeepPower
<1>8. ASSUME NEW m \in net, onProbe(m.dst, m) PROVE TypeOK'
    <2> DEFINE s == m.dst
               ag == IF m.id # id[s] THEN note(age, s, m.id) ELSE age
               rest == net \ {m}
    <2>1. s \in Stations /\ m.id \in Ids /\ m.src \in Stations
        BY DEF TypeOK, Messages
    <2>2. ag \in [Stations -> [Ids -> 0..TExpire]] /\ rest \in SUBSET Messages
        BY <2>1, NoteIsTyped DEF TypeOK
    <2>3. UNCHANGED <<id, idChanged, on, preferred, nvs>>
        BY <1>8 DEF onProbe, KeepId, KeepPower
    <2> SUFFICES
            /\ state' \in [Stations -> States]
            /\ cand' \in [Stations -> 0..NumIds]
            /\ wait' \in [Stations -> Nat]
            /\ probesSent' \in [Stations -> 0..NProbe]
            /\ age' \in [Stations -> [Ids -> 0..TExpire]]
            /\ net' \subseteq Messages
        BY <2>3 DEF TypeOK
    <2>4. CASE startProbe(s, ag, rest)
        <3> HIDE DEF ag, rest, s
        <3> QED BY <2>1, <2>2, <2>4, StartProbeTyped
    <2>5. CASE /\ age' = ag
               /\ wait' = [wait EXCEPT ![s] = TBeacon]
               /\ net' = rest \cup Unicast("BEACON", s, m.src, id[s])
                              \cup Broadcast("BEACON", s, id[s])
               /\ UNCHANGED <<state, cand, probesSent>>
        <3> HIDE DEF ag, rest, s
        <3> QED BY <2>1, <2>2, <2>5, PacketsAreTyped DEF TypeOK
    <2>6. CASE age' = ag /\ net' = rest /\ KeepState
        <3> HIDE DEF ag, rest, s
        <3> QED BY <2>1, <2>2, <2>6 DEF TypeOK, KeepState
    <2> QED BY <1>8, <2>4, <2>5, <2>6 DEF onProbe
<1>9. ASSUME NEW m \in net, onBeacon(m.dst, m) PROVE TypeOK'
    <2> DEFINE s == m.dst
               ag == IF m.id # id[s] THEN note(age, s, m.id) ELSE age
               ag2 == note(ag, s, m.id)
               rest == net \ {m}
    <2>1. s \in Stations /\ m.id \in Ids /\ m.src \in Stations
        BY DEF TypeOK, Messages
    <2>2. /\ ag \in [Stations -> [Ids -> 0..TExpire]]
          /\ ag2 \in [Stations -> [Ids -> 0..TExpire]]
          /\ rest \in SUBSET Messages
        BY <2>1, NoteIsTyped DEF TypeOK
    <2>3. UNCHANGED <<on, preferred, nvs>>
        BY <1>9 DEF onBeacon, KeepPower
    <2>4. /\ id' \in [Stations -> 0..NumIds]
          /\ idChanged' \in [Stations -> BOOLEAN]
        <3>1. \/ UNCHANGED <<id, idChanged>>
              \/ id' = [id EXCEPT ![s] = 0] /\ idChanged' = [idChanged EXCEPT ![s] = TRUE]
            BY <1>9 DEF onBeacon, KeepId
        <3>2. id' \in [Stations -> 0..NumIds]
            BY <3>1 DEF TypeOK
        <3>3. idChanged' \in [Stations -> BOOLEAN]
            BY <3>1, Zenon DEF TypeOK
        <3> QED BY <3>2, <3>3
    <2> SUFFICES
            /\ state' \in [Stations -> States]
            /\ cand' \in [Stations -> 0..NumIds]
            /\ wait' \in [Stations -> Nat]
            /\ probesSent' \in [Stations -> 0..NProbe]
            /\ age' \in [Stations -> [Ids -> 0..TExpire]]
            /\ net' \subseteq Messages
        BY <2>3, <2>4 DEF TypeOK
    <2>5. CASE startProbe(s, ag, rest) \/ startProbe(s, ag2, rest)
        <3> HIDE DEF ag, ag2, rest, s
        <3> QED BY <2>1, <2>2, <2>5, StartProbeTyped
    <2>6. CASE /\ age' = ag
               /\ wait' = [wait EXCEPT ![s] = TBeacon]
               /\ net' = rest \cup Broadcast("BEACON", s, id[s])
               /\ UNCHANGED <<state, cand, probesSent>>
        <3> HIDE DEF ag, ag2, rest, s
        <3> QED BY <2>1, <2>2, <2>6, PacketsAreTyped DEF TypeOK
    <2>7. CASE age' = ag /\ net' = rest /\ KeepState
        <3> HIDE DEF ag, ag2, rest, s
        <3> QED BY <2>1, <2>2, <2>7 DEF TypeOK, KeepState
    <2> QED BY <1>9, <2>5, <2>6, <2>7 DEF onBeacon
<1>10. ASSUME NEW s \in Stations, NEW c \in HitIds, onHitReport(s, c) PROVE TypeOK'
    BY <1>10, HitIdsAreIds, OnHitReportTyped
<1>11. CASE Time
    BY <1>11, ElapseTyped DEF Time
<1>12. CASE UNCHANGED vars
    BY <1>12 DEF TypeOK, vars
<1> QED
    BY <1>1, <1>2, <1>3, <1>4, <1>5, <1>6, <1>7, <1>8, <1>9, <1>10, <1>11, <1>12
       DEF Next, Tick, Deliver, Hit

\* Factory-new stations are typed.
LEMMA InitTyped == Init => TypeOK
    BY DEF Init, RamInit, TypeOK, States, Ids

\* No handler, tick, restart or passing of time ever takes a variable of a
\* station out of its type.
THEOREM Typing == Spec => []TypeOK
    BY InitTyped, TypingStep, PTL DEF Spec

-----------------------------------------------------------------------------
(* The inductive invariant.  Safe is IInv without the types.               *)

Safe ==
    /\ Consistent
    /\ ProbeIsFresh
    /\ RivalsJustBegan
    /\ ProbeIsKnown
    /\ ObjectionPending
    /\ BeaconIsTrue
    /\ UniqueIds

\* IInv is the types and Safe.
LEMMA InvIsSafe == IInv <=> TypeOK /\ Safe
    BY DEF IInv, Safe

\* startProbe keeps the invariant when it is called where the code calls it:
\* by a station that holds nothing, out of LISTEN only when the timer ran out,
\* out of PROBE only after the candidate was noted, and after every packet
\* taken off the air was noted too.
LEMMA StartProbeKeeps ==
    ASSUME TypeOK, Safe, TypeOK', NEW s \in Stations,
           NEW ag \in [Stations -> [Ids -> 0..TExpire]],
           NEW rest \in SUBSET net,
           startProbe(s, ag, rest), UNCHANGED <<id, on>>,
           on[s], state[s] # "HELD",
           \A t \in Stations, c \in Ids : ag[t][c] = age[t][c] \/ (t = s /\ ag[t][c] = 0),
           \A m \in net \ rest : m.dst = s /\ ag[s][m.id] = 0,
           state[s] = "LISTEN" => wait[s] = 0,
           state[s] = "PROBE" => ag[s][cand[s]] = 0
    PROVE  Safe'
<1>1. CASE \E c \in pickCandidate(ag, s) :
            /\ state' = [state EXCEPT ![s] = "PROBE"]
            /\ cand' = [cand EXCEPT ![s] = c]
            /\ wait' = [wait EXCEPT ![s] = TProbe]
            /\ probesSent' = [probesSent EXCEPT ![s] = 1]
            /\ net' = rest \cup Broadcast("PROBE", s, c)
    <2>1. PICK c0 \in Ids :
            /\ ag[s][c0] >= TExpire
            /\ state' = [state EXCEPT ![s] = "PROBE"]
            /\ cand' = [cand EXCEPT ![s] = c0]
            /\ wait' = [wait EXCEPT ![s] = TProbe]
            /\ net' = rest \cup Broadcast("PROBE", s, c0)
        <3>1. ASSUME NEW c \in pickCandidate(ag, s) PROVE c \in Ids /\ ag[s][c] >= TExpire
            <4>1. c \in Ids /\ ~(ag[s][c] < TExpire)
                BY ZenonT(20) DEF pickCandidate, FreeIds, isOccupied
            <4>2. ag[s][c] \in 0..TExpire
                BY <4>1
            <4> QED BY <4>1, <4>2
        <3> QED BY <1>1, <3>1
    <2>2. age' = ag
        BY DEF startProbe
    <2>3. Consistent'
        <3>1. \A m \in net' : on'[m.dst] /\ m.src # m.dst
            BY <2>1 DEF Safe, Consistent, Broadcast
        <3>2. c0 # 0
            BY DEF Ids
        <3> QED BY <2>1, <3>1, <3>2 DEF TypeOK, Safe, Consistent
    <2>4. ProbeIsFresh'
        BY <2>1 DEF TypeOK, Safe, Consistent, ProbeIsFresh, Broadcast, Messages, Probing
    <2>5. ASSUME NEW t \in Stations, t # s, Probing(t, c0)
          PROVE  Packet("PROBE", t, s, c0) \in rest /\ wait[t] = TProbe
        <3>1. Packet("PROBE", t, s, c0) \in net
            <4>1. \/ Packet("PROBE", t, s, c0) \in net
                  \/ age[s][c0] + wait[t] <= TProbe
                  \/ state[s] = "LISTEN" /\ wait[t] < wait[s]
                  \/ Holding(s, c0)
                BY <2>5 DEF Safe, ProbeIsKnown
            <4>2. /\ wait[t] \in Nat /\ wait[s] \in Nat /\ age[s][c0] \in 0..TExpire
                  /\ ag[s][c0] = age[s][c0] \/ ag[s][c0] = 0
                BY DEF TypeOK
            <4>3. ag[s][c0] = age[s][c0] /\ age[s][c0] > TProbe
                BY <2>1, <4>2
            <4>4. ~Holding(s, c0)
                BY DEF Holding
            <4> QED BY <4>1, <4>2, <4>3, <4>4
        <3> QED BY <2>1, <2>5, <3>1 DEF Safe, ProbeIsFresh, Packet
    <2>6. RivalsJustBegan'
        <3> SUFFICES ASSUME NEW a \in Stations, NEW b \in Stations, NEW c \in Ids,
                            a < b, Probing(a, c)', Probing(b, c)'
                     PROVE  /\ wait'[a] = TProbe /\ wait'[b] = TProbe
                            /\ Packet("PROBE", a, b, c) \in net'
            BY DEF RivalsJustBegan, Packet
        <3>1. CASE a = s
            <4>1. c = c0 /\ b # s /\ Probing(b, c0) /\ wait'[a] = TProbe /\ wait'[b] = wait[b]
                BY <2>1, <3>1 DEF TypeOK, Probing
            <4>2. on[b] /\ wait[b] = TProbe
                BY <2>5, <4>1 DEF Safe, Consistent, Probing
            <4>3. Packet("PROBE", a, b, c) \in Broadcast("PROBE", s, c0)
                BY <3>1, <4>1, <4>2 DEF Broadcast, Messages, Kinds, Packet
            <4> QED BY <2>1, <4>1, <4>2, <4>3
        <3>2. CASE b = s
            <4>1. c = c0 /\ a # s /\ Probing(a, c0) /\ wait'[b] = TProbe /\ wait'[a] = wait[a]
                BY <2>1, <3>2 DEF TypeOK, Probing
            <4> QED BY <2>1, <2>5, <3>2, <4>1
        <3>3. CASE a # s /\ b # s
            <4>1. Probing(a, c) /\ Probing(b, c) /\ wait'[a] = wait[a] /\ wait'[b] = wait[b]
                BY <2>1, <3>3 DEF TypeOK, Probing
            <4> QED BY <2>1, <3>3, <4>1 DEF Safe, RivalsJustBegan, Packet
        <3> QED BY <3>1, <3>2, <3>3
    <2>7. ProbeIsKnown'
        <3> SUFFICES ASSUME NEW a \in Stations, NEW t \in Stations, NEW c \in Ids,
                            a # t, on[t], Probing(a, c)',
                            Packet("PROBE", a, t, c) \notin net'
                     PROVE  \/ age'[t][c] + wait'[a] <= TProbe
                            \/ state'[t] = "LISTEN" /\ wait'[a] < wait'[t]
                            \/ Holding(t, c)'
            BY DEF ProbeIsKnown, Packet
        <3>1. CASE a = s
            <4>1. c = c0
                BY <2>1, <3>1 DEF TypeOK, Probing
            <4>2. Packet("PROBE", a, t, c) \in Broadcast("PROBE", s, c0)
                BY <3>1, <4>1 DEF Broadcast, Messages, Kinds, Packet
            <4> QED BY <2>1, <4>2 DEF Packet
        <3>2. CASE a # s
            <4>1. Probing(a, c) /\ wait'[a] = wait[a] /\ wait[a] \in Nat
                BY <2>1, <3>2 DEF TypeOK, Probing
            <4>2. wait[a] <= TProbe
                BY <4>1 DEF Safe, Consistent, Probing
            <4>3. age[t][c] \in 0..TExpire /\ (age'[t][c] = age[t][c] \/ age'[t][c] = 0)
                BY <2>2 DEF TypeOK
            <4>4. CASE Packet("PROBE", a, t, c) \in net
                <5>1. Packet("PROBE", a, t, c) \in net \ rest
                    BY <2>1, <4>4 DEF Packet
                <5>2. age'[t][c] = 0
                    BY <2>2, <5>1 DEF Packet
                <5> QED BY <4>1, <4>2, <5>2
            <4>5. CASE age[t][c] + wait[a] <= TProbe
                BY <4>1, <4>2, <4>3, <4>5
            <4>6. CASE state[t] = "LISTEN" /\ wait[a] < wait[t]
                <5>1. t # s
                    BY <4>1, <4>6
                <5> QED BY <2>1, <4>1, <4>6, <5>1 DEF TypeOK
            <4>7. CASE Holding(t, c)
                BY <2>1, <4>7 DEF TypeOK, Holding
            <4> QED BY <3>2, <4>1, <4>4, <4>5, <4>6, <4>7 DEF Safe, ProbeIsKnown
        <3> QED BY <3>1, <3>2
    <2>8. ObjectionPending'
        BY <2>1 DEF TypeOK, Safe, Consistent, ObjectionPending, Broadcast, Messages, Kinds, Probing, Packet, Holding
    <2>9. BeaconIsTrue'
        BY <2>1 DEF TypeOK, Safe, Consistent, BeaconIsTrue, Broadcast, Messages, Kinds, Probing, Packet, Holding
    <2>10. UniqueIds'
        BY <2>1 DEF TypeOK, Safe, UniqueIds, Holding
    <2> QED BY <2>3, <2>4, <2>6, <2>7, <2>8, <2>9, <2>10 DEF Safe
<1>2. CASE /\ state' = [state EXCEPT ![s] = "LISTEN"]
           /\ cand' = [cand EXCEPT ![s] = 0]
           /\ wait' = [wait EXCEPT ![s] = TRetry]
           /\ net' = rest
    <2>1. age' = ag
        BY DEF startProbe
    <2>2. Consistent'
        BY <1>2 DEF TypeOK, Safe, Consistent
    <2>3. ProbeIsFresh'
        BY <1>2 DEF TypeOK, Safe, Consistent, ProbeIsFresh, Messages, Probing
    <2>4. RivalsJustBegan'
        BY <1>2 DEF TypeOK, Safe, Consistent, RivalsJustBegan, Probing, Packet
    <2>5. ProbeIsKnown'
        BY <1>2, <2>1 DEF TypeOK, Safe, Consistent, ProbeIsKnown, Probing, Packet, Holding
    <2>6. ObjectionPending'
        BY <1>2 DEF TypeOK, Safe, Consistent, ObjectionPending, Probing, Packet, Holding
    <2>7. BeaconIsTrue'
        BY <1>2 DEF TypeOK, Safe, Consistent, BeaconIsTrue, Messages, Probing, Holding
    <2>8. UniqueIds'
        BY <1>2 DEF TypeOK, Safe, UniqueIds, Holding
    <2> QED BY <2>2, <2>3, <2>4, <2>5, <2>6, <2>7, <2>8 DEF Safe
<1> QED BY <1>1, <1>2 DEF startProbe

\* Packet records and their parts.
LEMMA PacketParts ==
    ASSUME TypeOK, NEW m \in net
    PROVE  /\ m = Packet(m.kind, m.src, m.dst, m.id)
           /\ m.kind \in Kinds /\ m.src \in Stations /\ m.dst \in Stations /\ m.id \in Ids
    BY DEF TypeOK, Messages, Packet

\* Handling a probe keeps the invariant: a prober that loses the tie-break
\* moves on, a holder objects.
LEMMA OnProbeKeeps ==
    ASSUME TypeOK, Safe, TypeOK', NEW m \in net, onProbe(m.dst, m)
    PROVE  Safe'
<1> DEFINE s == m.dst
           rest == net \ {m}
           ag == IF m.id # id[s] THEN note(age, s, m.id) ELSE age
<1>1. /\ s \in Stations /\ m.src \in Stations /\ m.id \in Ids /\ m.kind = "PROBE"
      /\ m = Packet("PROBE", m.src, s, m.id)
    BY PacketParts DEF onProbe
<1>2. on[s] /\ m.src # s /\ UNCHANGED <<id, on>>
    BY DEF onProbe, KeepId, KeepPower, Safe, Consistent
<1>3. /\ ag \in [Stations -> [Ids -> 0..TExpire]]
      /\ \A t \in Stations, c \in Ids : ag[t][c] = age[t][c] \/ (t = s /\ ag[t][c] = 0)
      /\ m.id # id[s] => ag[s][m.id] = 0
    <2>1. age \in [Stations -> [Ids -> 0..TExpire]] /\ 0 \in 0..TExpire
        BY DEF TypeOK
    <2> QED BY <1>1, <2>1 DEF note
<1>4. CASE state[s] = "PROBE" /\ m.id = cand[s] /\ otherWins(s, m.src)
    <2>1. startProbe(s, ag, rest)
        BY <1>4 DEF onProbe
    <2>2. m.id # id[s]
        BY <1>1, <1>4 DEF Safe, Consistent, Ids
    <2>3. rest \in SUBSET net /\ \A n \in net \ rest : n.dst = s /\ ag[s][n.id] = 0
        BY <1>3, <2>2
    <2>4. state[s] = "PROBE" /\ ag[s][cand[s]] = 0
        BY <1>3, <1>4, <2>2
    <2> HIDE DEF ag, s, rest
    <2> QED BY <1>1, <1>2, <1>3, <2>1, <2>3, <2>4, StartProbeKeeps
<1>5. CASE state[s] = "HELD" /\ m.id = id[s]
    <2>1. /\ age' = ag
          /\ wait' = [wait EXCEPT ![s] = TBeacon]
          /\ net' = rest \cup Unicast("BEACON", s, m.src, id[s]) \cup Broadcast("BEACON", s, id[s])
          /\ UNCHANGED <<state, cand, probesSent>>
        BY <1>5 DEF onProbe
    <2> HIDE DEF ag, s
    <2>2. Consistent'
        BY <1>1, <1>2, <1>5, <2>1 DEF TypeOK, Safe, Consistent, Broadcast, Unicast
    <2>3. ProbeIsFresh'
        BY <1>1, <1>2, <1>5, <2>1 DEF TypeOK, Safe, ProbeIsFresh, Broadcast, Unicast, Messages, Probing
    <2>4. RivalsJustBegan'
        BY <1>1, <1>2, <1>5, <2>1 DEF TypeOK, Safe, RivalsJustBegan, Packet, Probing
    <2>5. ProbeIsKnown'
        BY <1>1, <1>2, <1>3, <1>5, <2>1 DEF TypeOK, Safe, Consistent, ProbeIsKnown, Packet, Probing, Holding
    <2>6. ObjectionPending'
        <3> SUFFICES ASSUME NEW a \in Stations, NEW b \in Stations, NEW c \in Ids,
                            Holding(a, c)', Probing(b, c)'
                     PROVE  /\ wait'[b] = TProbe
                            /\ \/ Packet("PROBE", b, a, c) \in net'
                               \/ Packet("BEACON", a, b, c) \in net'
            BY DEF ObjectionPending, Packet
        <3>1. Holding(a, c) /\ Probing(b, c) /\ b # s /\ on[b] /\ wait'[b] = wait[b]
            BY <1>2, <1>5, <2>1 DEF TypeOK, Safe, Consistent, Holding, Probing
        <3>2. CASE Packet("PROBE", b, a, c) = m
            <4>1. a = s /\ b = m.src /\ c = m.id
                BY <1>1, <3>2 DEF Packet
            <4>2. Packet("BEACON", a, b, c) \in Broadcast("BEACON", s, id[s])
                BY <1>1, <1>2, <1>5, <3>1, <4>1 DEF Broadcast, Packet, Messages, Kinds
            <4>3. wait[b] = TProbe
                BY <3>1 DEF Safe, ObjectionPending
            <4> QED BY <2>1, <3>1, <4>2, <4>3
        <3>3. CASE Packet("PROBE", b, a, c) # m
            <4>1. Packet("BEACON", a, b, c) # m
                BY <1>1 DEF Packet
            <4> QED BY <2>1, <3>1, <3>3, <4>1 DEF Safe, ObjectionPending
        <3> QED BY <3>2, <3>3
    <2>7. BeaconIsTrue'
        <3> SUFFICES ASSUME NEW n \in net', n.kind = "BEACON"
                     PROVE  /\ ~Holding(n.dst, n.id)'
                            /\ Probing(n.dst, n.id)' => wait'[n.dst] = TProbe
            BY DEF BeaconIsTrue
        <3>1. CASE n \in rest
            BY <1>1, <1>2, <1>5, <2>1, <3>1 DEF TypeOK, Safe, BeaconIsTrue, Holding, Probing, Messages
        <3>2. CASE n \notin rest
            <4>1. /\ n.src = s /\ n.id = id[s] /\ n.dst \in Stations
                BY <2>1, <3>2 DEF Broadcast, Unicast, Messages
            <4>2. n.dst # s
                BY <1>2, <2>1, <3>2 DEF Broadcast, Unicast
            <4>3. Holding(s, n.id)
                BY <1>5, <4>1 DEF Holding
            <4>4. ~Holding(n.dst, n.id) /\ (Probing(n.dst, n.id) => wait[n.dst] = TProbe)
                BY <1>1, <1>5, <4>1, <4>2, <4>3 DEF Safe, UniqueIds, ObjectionPending
            <4> QED BY <1>2, <2>1, <4>1, <4>2, <4>4 DEF TypeOK, Holding, Probing
        <3> QED BY <3>1, <3>2
    <2>8. UniqueIds'
        BY <1>2, <2>1 DEF Safe, UniqueIds, Holding
    <2> QED BY <2>2, <2>3, <2>4, <2>5, <2>6, <2>7, <2>8 DEF Safe
<1>6. CASE /\ ~(state[s] = "PROBE" /\ m.id = cand[s] /\ otherWins(s, m.src))
           /\ ~(state[s] = "HELD" /\ m.id = id[s])
    <2>1. age' = ag /\ net' = rest /\ UNCHANGED <<state, cand, wait, probesSent>>
        BY <1>6 DEF onProbe, KeepState
    <2> HIDE DEF ag, s
    <2>2. Consistent' /\ ProbeIsFresh' /\ BeaconIsTrue' /\ UniqueIds'
        BY <1>2, <2>1 DEF Safe, Consistent, ProbeIsFresh, BeaconIsTrue, UniqueIds, Probing, Holding
    <2>3. RivalsJustBegan'
        BY <1>1, <1>2, <1>6, <2>1 DEF Safe, RivalsJustBegan, Probing, Packet, otherWins
    <2>4. ProbeIsKnown'
        <3> SUFFICES ASSUME NEW a \in Stations, NEW t \in Stations, NEW c \in Ids,
                            a # t, on[t], Probing(a, c),
                            Packet("PROBE", a, t, c) \notin net'
                     PROVE  \/ age'[t][c] + wait[a] <= TProbe
                            \/ state[t] = "LISTEN" /\ wait[a] < wait[t]
                            \/ Holding(t, c)
            BY <1>2, <2>1 DEF ProbeIsKnown, Probing, Holding, Packet
        <3>1. /\ age[t][c] \in 0..TExpire /\ age'[t][c] \in 0..TExpire
              /\ wait[a] \in Nat /\ wait[a] <= TProbe
              /\ age'[t][c] = age[t][c] \/ age'[t][c] = 0
            BY <1>3, <2>1 DEF TypeOK, Safe, Consistent, Probing
        <3>2. CASE Packet("PROBE", a, t, c) = m
            <4>1. t = s /\ c = m.id
                BY <3>2, <1>1 DEF Packet
            <4>2. id[t] # 0 => state[t] = "HELD"
                BY DEF Safe, Consistent
            <4>3. Holding(t, c) \/ age'[t][c] = 0
                BY <1>3, <2>1, <4>1, <4>2 DEF Holding, Ids
            <4> QED BY <3>1, <4>3
        <3>3. CASE Packet("PROBE", a, t, c) # m
            <4>1. Packet("PROBE", a, t, c) \notin net
                BY <2>1, <3>3 DEF Packet
            <4> QED BY <3>1, <4>1 DEF Safe, ProbeIsKnown
        <3> QED BY <3>2, <3>3
    <2>5. ObjectionPending'
        BY <1>1, <1>2, <1>6, <2>1 DEF Safe, ObjectionPending, Probing, Packet, Holding
    <2> QED BY <2>2, <2>3, <2>4, <2>5 DEF Safe
<1> QED BY <1>4, <1>5, <1>6

\* Handling a beacon keeps the invariant and never changes an id: the yield
\* needs two holders of one id.
LEMMA OnBeaconKeeps ==
    ASSUME TypeOK, Safe, TypeOK', NEW m \in net, onBeacon(m.dst, m)
    PROVE  Safe' /\ UNCHANGED id
<1> DEFINE s == m.dst
           rest == net \ {m}
           ag == IF m.id # id[s] THEN note(age, s, m.id) ELSE age
<1>1. /\ s \in Stations /\ m.src \in Stations /\ m.id \in Ids /\ m.kind = "BEACON"
      /\ m = Packet("BEACON", m.src, s, m.id)
    BY PacketParts DEF onBeacon
<1>2. on[s] /\ m.src # s /\ on' = on
    BY DEF onBeacon, KeepPower, Safe, Consistent
<1>3. ~(state[s] = "HELD" /\ m.id = id[s])
    BY <1>1 DEF Safe, BeaconIsTrue, Holding
<1>4. m.id # id[s]
    <2>1. id[s] # 0 => state[s] = "HELD"
        BY <1>1 DEF Safe, Consistent
    <2> QED BY <1>1, <1>3, <2>1 DEF Ids
<1>5. /\ ag \in [Stations -> [Ids -> 0..TExpire]]
      /\ \A t \in Stations, c \in Ids : ag[t][c] = age[t][c] \/ (t = s /\ ag[t][c] = 0)
      /\ ag[s][m.id] = 0
    <2>1. age \in [Stations -> [Ids -> 0..TExpire]] /\ 0 \in 0..TExpire
        BY DEF TypeOK
    <2> QED BY <1>1, <1>4, <2>1 DEF note
<1>6. CASE state[s] = "PROBE" /\ m.id = cand[s]
    <2>1. startProbe(s, ag, rest) /\ id' = id
        BY <1>6 DEF onBeacon, KeepId
    <2>2. rest \in SUBSET net /\ \A n \in net \ rest : n.dst = s /\ ag[s][n.id] = 0
        BY <1>5
    <2>3. state[s] = "PROBE" /\ ag[s][cand[s]] = 0
        BY <1>5, <1>6
    <2> HIDE DEF ag, s, rest
    <2> QED BY <1>1, <1>2, <1>5, <2>1, <2>2, <2>3, StartProbeKeeps
<1>7. CASE ~(state[s] = "PROBE" /\ m.id = cand[s])
    <2>1. age' = ag /\ net' = rest /\ UNCHANGED <<state, cand, wait, probesSent, id>>
        BY <1>3, <1>7 DEF onBeacon, KeepState, KeepId
    <2> HIDE DEF ag, s
    <2>2. Consistent' /\ ProbeIsFresh' /\ BeaconIsTrue' /\ UniqueIds'
        BY <1>2, <2>1 DEF Safe, Consistent, ProbeIsFresh, BeaconIsTrue, UniqueIds, Probing, Holding
    <2>3. RivalsJustBegan'
        BY <1>1, <1>2, <2>1 DEF Safe, RivalsJustBegan, Probing, Packet
    <2>4. ProbeIsKnown'
        <3> SUFFICES ASSUME NEW a \in Stations, NEW t \in Stations, NEW c \in Ids,
                            a # t, on[t], Probing(a, c),
                            Packet("PROBE", a, t, c) \notin net'
                     PROVE  \/ age'[t][c] + wait[a] <= TProbe
                            \/ state[t] = "LISTEN" /\ wait[a] < wait[t]
                            \/ Holding(t, c)
            BY <1>2, <2>1 DEF ProbeIsKnown, Probing, Holding, Packet
        <3>1. Packet("PROBE", a, t, c) \notin net
            BY <1>1, <2>1 DEF Packet
        <3>2. /\ age[t][c] \in 0..TExpire /\ age'[t][c] \in 0..TExpire
              /\ wait[a] \in Nat /\ wait[a] <= TProbe
              /\ age'[t][c] = age[t][c] \/ age'[t][c] = 0
            BY <1>5, <2>1 DEF TypeOK, Safe, Consistent, Probing
        <3> QED BY <3>1, <3>2 DEF Safe, ProbeIsKnown
    <2>5. ObjectionPending'
        BY <1>1, <1>2, <1>7, <2>1 DEF Safe, ObjectionPending, Probing, Packet, Holding
    <2> QED BY <2>1, <2>2, <2>3, <2>4, <2>5 DEF Safe
<1> QED BY <1>6, <1>7

\* Handling a hit report keeps the invariant: it only ever aborts a probe.
LEMMA OnHitReportKeeps ==
    ASSUME TypeOK, Safe, TypeOK', NEW s \in Stations, NEW c \in Ids, onHitReport(s, c)
    PROVE  Safe'
<1> DEFINE ag == note(age, s, c)
<1>1. on[s] /\ c # id[s] /\ UNCHANGED <<id, on>>
    BY DEF onHitReport, KeepId, KeepPower
<1>2. /\ ag \in [Stations -> [Ids -> 0..TExpire]]
      /\ \A t \in Stations, d \in Ids : ag[t][d] = age[t][d] \/ (t = s /\ ag[t][d] = 0)
      /\ ag[s][c] = 0
    <2>1. age \in [Stations -> [Ids -> 0..TExpire]] /\ 0 \in 0..TExpire
        BY DEF TypeOK
    <2> QED BY <2>1 DEF note
<1>3. CASE state[s] = "PROBE" /\ c = cand[s]
    <2>1. startProbe(s, ag, net)
        BY <1>3 DEF onHitReport
    <2> HIDE DEF ag
    <2> QED BY <1>1, <1>2, <1>3, <2>1, StartProbeKeeps
<1>4. CASE ~(state[s] = "PROBE" /\ c = cand[s])
    <2>1. age' = ag /\ UNCHANGED <<net, state, cand, wait, probesSent>>
        BY <1>4 DEF onHitReport, KeepState
    <2> HIDE DEF ag
    <2>2. /\ Consistent' /\ ProbeIsFresh' /\ RivalsJustBegan' /\ ObjectionPending'
          /\ BeaconIsTrue' /\ UniqueIds'
        BY <1>1, <2>1 DEF Safe, Consistent, ProbeIsFresh, RivalsJustBegan, ObjectionPending,
           BeaconIsTrue, UniqueIds, Probing, Holding, Packet
    <2>3. ProbeIsKnown'
        <3> SUFFICES ASSUME NEW a \in Stations, NEW t \in Stations, NEW d \in Ids,
                            a # t, on[t], Probing(a, d),
                            Packet("PROBE", a, t, d) \notin net'
                     PROVE  \/ age'[t][d] + wait[a] <= TProbe
                            \/ state[t] = "LISTEN" /\ wait[a] < wait[t]
                            \/ Holding(t, d)
            BY <1>1, <2>1 DEF ProbeIsKnown, Probing, Holding, Packet
        <3>1. Packet("PROBE", a, t, d) \notin net
            BY <2>1 DEF Packet
        <3>2. /\ age[t][d] \in 0..TExpire /\ age'[t][d] \in 0..TExpire
              /\ wait[a] \in Nat /\ wait[a] <= TProbe
              /\ age'[t][d] = age[t][d] \/ age'[t][d] = 0
            BY <1>2, <2>1 DEF TypeOK, Safe, Consistent, Probing
        <3> QED BY <3>1, <3>2 DEF Safe, ProbeIsKnown
    <2> QED BY <2>2, <2>3 DEF Safe
<1> QED BY <1>3, <1>4

\* Booting, switching off and persisting keep the invariant; a booted station
\* listens longer than a prober waits.
LEMMA PowerKeeps ==
    ASSUME TypeOK, Safe, TypeOK', NEW s \in Stations,
           begin(s) \/ PowerOff(s) \/ consumeIdChanged(s)
    PROVE  Safe'
<1>1. CASE begin(s)
    <2>1. Consistent' /\ ProbeIsFresh' /\ RivalsJustBegan' /\ ObjectionPending' /\ BeaconIsTrue' /\ UniqueIds'
        BY <1>1 DEF begin, TypeOK, Safe, Consistent, ProbeIsFresh, RivalsJustBegan,
           ObjectionPending, BeaconIsTrue, UniqueIds, Probing, Holding, Packet, Messages
    <2>2. ProbeIsKnown'
        <3> SUFFICES ASSUME NEW a \in Stations, NEW t \in Stations, NEW c \in Ids,
                            a # t, on'[t], Probing(a, c)',
                            Packet("PROBE", a, t, c) \notin net'
                     PROVE  \/ age'[t][c] + wait'[a] <= TProbe
                            \/ state'[t] = "LISTEN" /\ wait'[a] < wait'[t]
                            \/ Holding(t, c)'
            BY DEF ProbeIsKnown, Packet
        <3>1. /\ UNCHANGED <<state, id, cand, age, net>>
              /\ on' = [on EXCEPT ![s] = TRUE] /\ wait' = [wait EXCEPT ![s] = TListen] /\ ~on[s]
            BY <1>1 DEF begin
        <3>2. Probing(a, c) /\ Packet("PROBE", a, t, c) \notin net
            BY <3>1 DEF Probing, Packet
        <3>3. a # s /\ wait'[a] = wait[a] /\ wait[a] \in Nat /\ wait[a] <= TProbe
            BY <3>1, <3>2 DEF TypeOK, Safe, Consistent, Probing
        <3>4. CASE t = s
            <4>1. state'[t] = "LISTEN" /\ wait'[t] = TListen
                BY <3>1, <3>4 DEF TypeOK, Safe, Consistent
            <4> QED BY <3>3, <4>1
        <3>5. CASE t # s
            <4>1. on[t] /\ wait'[t] = wait[t]
                BY <3>1, <3>5 DEF TypeOK
            <4> QED BY <3>1, <3>2, <3>3, <4>1 DEF Safe, ProbeIsKnown, Holding
        <3> QED BY <3>4, <3>5
    <2> QED BY <2>1, <2>2 DEF Safe
<1>2. CASE PowerOff(s)
    <2>1. Consistent'
        BY <1>2 DEF PowerOff, TypeOK, Safe, Consistent, Messages
    <2>2. ProbeIsFresh' /\ BeaconIsTrue'
        BY <1>2 DEF PowerOff, TypeOK, Safe, ProbeIsFresh, BeaconIsTrue, Probing, Holding, Messages, Ids
    <2>3. RivalsJustBegan' /\ ObjectionPending' /\ UniqueIds'
        BY <1>2 DEF PowerOff, TypeOK, Safe, RivalsJustBegan, ObjectionPending, UniqueIds,
           Probing, Holding, Packet
    <2>4. ProbeIsKnown'
        BY <1>2 DEF PowerOff, TypeOK, Safe, ProbeIsKnown, Probing, Holding, Packet
    <2> QED BY <2>1, <2>2, <2>3, <2>4 DEF Safe
<1>3. CASE consumeIdChanged(s)
    BY <1>3 DEF consumeIdChanged, Safe, Consistent, ProbeIsFresh, RivalsJustBegan, ProbeIsKnown,
       ObjectionPending, BeaconIsTrue, UniqueIds, Probing, Holding, Packet
<1> QED BY <1>1, <1>2, <1>3

\* Ticks keep the invariant; a prober becomes a holder only after everybody
\* has had the time to object.
LEMMA TickKeeps ==
    ASSUME TypeOK, Safe, TypeOK', NEW s \in Stations, Tick(s)
    PROVE  Safe'
<1>1. CASE TickListen(s)
    <2>1. /\ startProbe(s, age, net) /\ UNCHANGED <<id, on>>
          /\ on[s] /\ state[s] = "LISTEN" /\ wait[s] = 0
        BY <1>1 DEF TickListen, KeepId, KeepPower
    <2>2. age \in [Stations -> [Ids -> 0..TExpire]]
        BY DEF TypeOK
    <2> QED BY <2>1, <2>2, StartProbeKeeps
<1>2. CASE SendProbe(s)
    <2> DEFINE c0 == cand[s]
    <2>1. /\ on[s] /\ state[s] = "PROBE" /\ wait[s] = 0 /\ c0 \in Ids /\ Probing(s, c0)
          /\ wait' = [wait EXCEPT ![s] = TProbe]
          /\ net' = net \cup Broadcast("PROBE", s, c0)
          /\ UNCHANGED <<state, cand, age, id, on>>
        <3>1. /\ on[s] /\ state[s] = "PROBE" /\ wait[s] = 0
              /\ wait' = [wait EXCEPT ![s] = TProbe]
              /\ net' = net \cup Broadcast("PROBE", s, c0)
              /\ UNCHANGED <<state, cand, age, id, on>>
            BY <1>2 DEF SendProbe, KeepId, KeepPower
        <3>2. c0 \in 0..NumIds /\ c0 # 0
            BY <3>1 DEF TypeOK, Safe, Consistent
        <3> QED BY <3>1, <3>2 DEF Ids, Probing
    <2>2. ASSUME NEW t \in Stations, t # s PROVE ~Probing(t, c0)
        BY <2>1, <2>2 DEF Safe, RivalsJustBegan
    <2> HIDE DEF c0
    <2>3. Consistent'
        BY <2>1 DEF TypeOK, Safe, Consistent, Broadcast
    <2>4. ProbeIsFresh'
        BY <2>1 DEF TypeOK, Safe, ProbeIsFresh, Broadcast, Messages, Probing
    <2>5. RivalsJustBegan'
        BY <2>1, <2>2 DEF TypeOK, Safe, RivalsJustBegan, Probing, Packet
    <2>6. ProbeIsKnown'
        BY <2>1 DEF TypeOK, Safe, Consistent, ProbeIsKnown, Broadcast, Messages, Kinds, Probing, Packet, Holding
    <2>7. ObjectionPending' /\ BeaconIsTrue' /\ UniqueIds'
        BY <2>1 DEF TypeOK, Safe, ObjectionPending, BeaconIsTrue, UniqueIds, Broadcast, Messages,
           Probing, Packet, Holding
    <2> QED BY <2>3, <2>4, <2>5, <2>6, <2>7 DEF Safe
<1>3. CASE becomeHeld(s)
    <2> DEFINE c0 == cand[s]
    <2>1. /\ on[s] /\ state[s] = "PROBE" /\ wait[s] = 0 /\ c0 \in Ids /\ Probing(s, c0)
          /\ state' = [state EXCEPT ![s] = "HELD"]
          /\ id' = [id EXCEPT ![s] = c0]
          /\ cand' = [cand EXCEPT ![s] = 0]
          /\ wait' = [wait EXCEPT ![s] = TBeacon]
          /\ age' = [age EXCEPT ![s][c0] = TExpire]
          /\ net' = net \cup Broadcast("BEACON", s, c0)
          /\ on' = on
        BY <1>3 DEF becomeHeld, KeepPower, TypeOK, Safe, Consistent, Ids, Probing
    <2>2. ASSUME NEW t \in Stations, t # s PROVE ~Probing(t, c0) /\ ~Holding(t, c0)
        BY <2>1, <2>2 DEF Safe, RivalsJustBegan, ObjectionPending
    <2> HIDE DEF c0
    <2>3. Consistent'
        <3>1. \A m \in net' : on'[m.dst] /\ m.src # m.dst
            BY <2>1 DEF Safe, Consistent, Broadcast
        <3>2. c0 # 0
            BY <2>1 DEF Ids
        <3> QED BY <2>1, <3>1, <3>2 DEF TypeOK, Safe, Consistent
    <2>4. ProbeIsFresh'
        BY <2>1 DEF TypeOK, Safe, ProbeIsFresh, Broadcast, Messages, Probing
    <2>5. RivalsJustBegan'
        BY <2>1 DEF TypeOK, Safe, RivalsJustBegan, Probing, Packet
    <2>6. ProbeIsKnown'
        BY <2>1, <2>2 DEF TypeOK, Safe, Consistent, ProbeIsKnown, Probing, Packet, Holding
    <2>7. ObjectionPending'
        <3> SUFFICES ASSUME NEW a \in Stations, NEW b \in Stations, NEW c \in Ids,
                            Holding(a, c)', Probing(b, c)'
                     PROVE  /\ wait'[b] = TProbe
                            /\ \/ Packet("PROBE", b, a, c) \in net'
                               \/ Packet("BEACON", a, b, c) \in net'
            BY DEF ObjectionPending, Packet
        <3>1. b # s /\ Probing(b, c) /\ wait'[b] = wait[b]
            BY <2>1 DEF TypeOK, Probing
        <3>2. a # s /\ Holding(a, c)
            BY <2>1, <2>2, <3>1 DEF TypeOK, Holding
        <3> QED BY <2>1, <3>1, <3>2 DEF Safe, ObjectionPending
    <2>8. BeaconIsTrue'
        <3> SUFFICES ASSUME NEW n \in net', n.kind = "BEACON"
                     PROVE  /\ ~Holding(n.dst, n.id)'
                            /\ Probing(n.dst, n.id)' => wait'[n.dst] = TProbe
            BY DEF BeaconIsTrue
        <3>1. n.dst \in Stations /\ n.id \in Ids
            BY <2>1, PacketsAreTyped DEF TypeOK, Messages
        <3>2. CASE n.dst = s
            <4>1. n \in net
                BY <2>1, <3>2 DEF Broadcast
            <4>2. n.id # c0
                BY <2>1, <3>2, <4>1 DEF Safe, BeaconIsTrue
            <4> QED BY <2>1, <3>1, <3>2, <4>2 DEF TypeOK, Holding, Probing
        <3>3. CASE n.dst # s
            <4>1. /\ Holding(n.dst, n.id)' => Holding(n.dst, n.id)
                  /\ Probing(n.dst, n.id)' => Probing(n.dst, n.id)
                  /\ wait'[n.dst] = wait[n.dst]
                BY <2>1, <3>1, <3>3 DEF TypeOK, Holding, Probing
            <4>2. n \in net \/ n.id = c0
                BY <2>1 DEF Broadcast
            <4> QED BY <2>2, <3>1, <3>3, <4>1, <4>2 DEF Safe, BeaconIsTrue
        <3> QED BY <3>2, <3>3
    <2>9. UniqueIds'
        BY <2>1, <2>2 DEF TypeOK, Safe, UniqueIds, Holding
    <2> QED BY <2>3, <2>4, <2>5, <2>6, <2>7, <2>8, <2>9 DEF Safe
<1>4. CASE TickHeld(s)
    <2>1. /\ on[s] /\ state[s] = "HELD" /\ wait[s] = 0
          /\ wait' = [wait EXCEPT ![s] = TBeacon]
          /\ net' = net \cup Broadcast("BEACON", s, id[s])
          /\ UNCHANGED <<state, cand, age, id, on>>
        BY <1>4 DEF TickHeld, KeepId, KeepPower
    <2>2. Consistent'
        BY <2>1 DEF TypeOK, Safe, Consistent, Broadcast
    <2>3. ProbeIsFresh' /\ RivalsJustBegan' /\ ObjectionPending' /\ UniqueIds'
        BY <2>1 DEF TypeOK, Safe, ProbeIsFresh, RivalsJustBegan, ObjectionPending, UniqueIds,
           Broadcast, Messages, Probing, Packet, Holding
    <2>4. ProbeIsKnown'
        BY <2>1 DEF TypeOK, Safe, Consistent, ProbeIsKnown, Probing, Packet, Holding
    <2>5. BeaconIsTrue'
        <3> SUFFICES ASSUME NEW n \in net', n.kind = "BEACON"
                     PROVE  /\ ~Holding(n.dst, n.id)
                            /\ Probing(n.dst, n.id) => wait'[n.dst] = TProbe
            BY <2>1 DEF BeaconIsTrue, Holding, Probing
        <3>1. CASE n \in net
            BY <2>1, <3>1 DEF TypeOK, Safe, BeaconIsTrue, Holding, Probing, Messages
        <3>2. CASE n \in Broadcast("BEACON", s, id[s])
            <4>1. n.src = s /\ n.id = id[s] /\ n.dst \in Stations /\ n.dst # s /\ n.id \in Ids
                BY <3>2 DEF Broadcast, Messages
            <4>2. Holding(s, n.id)
                BY <2>1, <4>1 DEF Holding
            <4> QED BY <2>1, <4>1, <4>2 DEF TypeOK, Safe, UniqueIds, ObjectionPending
        <3> QED BY <2>1, <3>1, <3>2
    <2> QED BY <2>2, <2>3, <2>4, <2>5 DEF Safe
<1> QED BY <1>1, <1>2, <1>3, <1>4 DEF Tick

\* Time passes only when nothing is pending, so it keeps the invariant.
LEMMA TimeKeeps ==
    ASSUME TypeOK, Safe, TypeOK', Time
    PROVE  Safe'
<1>1. /\ net = {} /\ net' = {}
      /\ \A s \in Stations : on[s] => wait[s] > 0 /\ wait'[s] = wait[s] - 1
      /\ \A s \in Stations, c \in Ids : age'[s][c] \in {age[s][c], age[s][c] + 1}
      /\ UNCHANGED <<on, state, id, cand>>
    BY DEF Time, Elapse, TypeOK
<1>2. Consistent'
    BY <1>1 DEF TypeOK, Safe, Consistent
<1>3. ProbeIsFresh' /\ BeaconIsTrue' /\ UniqueIds'
    BY <1>1 DEF Safe, ProbeIsFresh, BeaconIsTrue, UniqueIds, Holding
<1>4. RivalsJustBegan' /\ ObjectionPending'
    BY <1>1 DEF Safe, RivalsJustBegan, ObjectionPending, Probing, Holding, Packet
<1>5. ProbeIsKnown'
    BY <1>1 DEF TypeOK, Safe, Consistent, ProbeIsKnown, Probing, Holding, Packet
<1> QED BY <1>2, <1>3, <1>4, <1>5 DEF Safe

\* Safe is inductive: one lemma per kind of step.
LEMMA SafeStep == TypeOK /\ Safe /\ [Next]_vars => Safe'
<1> SUFFICES ASSUME TypeOK, Safe, [Next]_vars PROVE Safe'
    OBVIOUS
<1> TypeOK'
    BY TypingStep
<1>1. ASSUME NEW s \in Stations, begin(s) \/ PowerOff(s) \/ consumeIdChanged(s) PROVE Safe'
    BY <1>1, PowerKeeps
<1>2. ASSUME NEW s \in Stations, Tick(s) PROVE Safe'
    BY <1>2, TickKeeps
<1>3. ASSUME NEW m \in net, Deliver(m) PROVE Safe'
    BY <1>3, OnProbeKeeps, OnBeaconKeeps DEF Deliver
<1>4. ASSUME NEW s \in Stations, NEW c \in HitIds, onHitReport(s, c) PROVE Safe'
    BY <1>4, OnHitReportKeeps, HitIdsAreIds
<1>5. CASE Time
    BY <1>5, TimeKeeps
<1>6. CASE UNCHANGED vars
    BY <1>6 DEF vars, Safe, Consistent, ProbeIsFresh, RivalsJustBegan, ProbeIsKnown,
       ObjectionPending, BeaconIsTrue, UniqueIds, Probing, Holding, Packet
<1> QED BY <1>1, <1>2, <1>3, <1>4, <1>5, <1>6 DEF Next, Hit

\* The invariant holds when every station is off, whatever is in NVS.
LEMMA InvInit == RamInit /\ nvs \in [Stations -> 0..NumIds] => IInv
<1> SUFFICES ASSUME RamInit, nvs \in [Stations -> 0..NumIds] PROVE IInv
    OBVIOUS
<1>1. TypeOK
    BY DEF RamInit, TypeOK, States, Ids
<1>2. Safe
    BY DEF RamInit, Safe, Consistent, ProbeIsFresh, RivalsJustBegan, ProbeIsKnown,
       ObjectionPending, BeaconIsTrue, UniqueIds, Probing, Holding
<1> QED BY <1>1, <1>2, InvIsSafe

\* The inductive invariant: what is on the air and how far the timers of two
\* stations are apart whenever they go for the same id.
THEOREM Invariance == Spec => []IInv
<1>1. IInv /\ [Next]_vars => IInv'
    BY InvIsSafe, TypingStep, SafeStep DEF IInv, Safe
<1>2. Init => IInv
    BY InvInit DEF Init
<1> QED BY <1>1, <1>2, PTL DEF Spec

\* The main result: with every packet delivered within the instant and every
\* loop() punctual, no two stations ever hold the same id - whatever the
\* stations' number, restarts, hit reports and the order packets are handled in.
THEOREM Uniqueness == Spec => []UniqueIds
<1>1. IInv => UniqueIds
    BY DEF IInv
<1> QED BY <1>1, Invariance, PTL

-----------------------------------------------------------------------------
(* Ids change only when a station acquires one or is switched off.         *)

\* Power and ids change only by booting, switching off and becoming HELD.
LEMMA IdSteps ==
    ASSUME TypeOK, Safe, [Next]_vars
    PROVE  \/ UNCHANGED <<on, id>>
           \/ \E s \in Stations : begin(s) \/ PowerOff(s) \/ becomeHeld(s)
<1> TypeOK'
    BY TypingStep
<1>1. ASSUME NEW s \in Stations, consumeIdChanged(s) \/ TickListen(s) \/ SendProbe(s) \/ TickHeld(s)
      PROVE  UNCHANGED <<on, id>>
    BY <1>1 DEF consumeIdChanged, TickListen, SendProbe, TickHeld, KeepId, KeepPower
<1>2. ASSUME NEW m \in net, Deliver(m) PROVE UNCHANGED <<on, id>>
    <2>1. CASE onProbe(m.dst, m)
        BY <2>1 DEF onProbe, KeepId, KeepPower
    <2>2. CASE onBeacon(m.dst, m)
        <3>1. on' = on
            BY <2>2 DEF onBeacon, KeepPower
        <3> QED BY <2>2, <3>1, OnBeaconKeeps
    <2> QED BY <1>2, <2>1, <2>2 DEF Deliver
<1>3. ASSUME NEW s \in Stations, NEW c \in HitIds, onHitReport(s, c) PROVE UNCHANGED <<on, id>>
    BY <1>3 DEF onHitReport, KeepId, KeepPower
<1>4. CASE Time \/ UNCHANGED vars
    BY <1>4 DEF Time, Elapse, vars
<1> QED BY <1>1, <1>2, <1>3, <1>4 DEF Next, Hit, Tick

\* A station never loses its id except by being switched off.
THEOREM HeldKept == Spec => HeldIsKept
<1>1. IInv /\ [Next]_vars
        => [\A s \in Stations : state[s] = "HELD" /\ on'[s] => id'[s] = id[s]]_vars
    <2> SUFFICES ASSUME TypeOK, Safe, [Next]_vars, NEW s \in Stations, state[s] = "HELD", on'[s]
                 PROVE  id'[s] = id[s]
        BY InvIsSafe
    <2>1. ASSUME NEW t \in Stations, begin(t) \/ PowerOff(t) \/ becomeHeld(t) PROVE id'[s] = id[s]
        BY <2>1 DEF TypeOK, begin, PowerOff, becomeHeld
    <2> QED BY <2>1, IdSteps
<1> QED BY <1>1, Invariance, PTL DEF Spec, HeldIsKept

\* The negotiators implement the allocator.
THEOREM Refinement == Spec => AllocationSpec
<1>1. Init => Allocation!AInit
    BY DEF Init, RamInit, Allocation!AInit
<1>2. IInv /\ [Next]_vars => [Allocation!ANext]_(Allocation!avars)
    <2> SUFFICES ASSUME TypeOK, Safe, [Next]_vars
                 PROVE  Allocation!ANext \/ UNCHANGED <<on, id>>
        BY InvIsSafe DEF Allocation!avars
    <2>1. ASSUME NEW s \in Stations, begin(s) PROVE Allocation!Join(s)
        BY <2>1 DEF begin, Allocation!Join
    <2>2. ASSUME NEW s \in Stations, PowerOff(s) PROVE Allocation!Leave(s)
        BY <2>2 DEF PowerOff, Allocation!Leave
    <2>3. ASSUME NEW s \in Stations, becomeHeld(s) PROVE Allocation!Acquire(s)
        <3>1. on[s] /\ state[s] = "PROBE" /\ wait[s] = 0 /\ on' = on /\ id' = [id EXCEPT ![s] = cand[s]]
            BY <2>3 DEF becomeHeld, KeepPower
        <3>2. id[s] = 0 /\ cand[s] \in Ids /\ Probing(s, cand[s])
            BY <3>1 DEF TypeOK, Safe, Consistent, Ids, Probing
        <3>3. ASSUME NEW t \in Stations PROVE id[t] # cand[s]
            <4>1. ~Holding(t, cand[s])
                BY <3>1, <3>2 DEF Safe, ObjectionPending
            <4> QED BY <3>2, <4>1 DEF Safe, Consistent, Holding, Ids
        <3> QED BY <3>1, <3>2, <3>3 DEF Allocation!Acquire
    <2> QED BY <2>1, <2>2, <2>3, IdSteps DEF Allocation!ANext
<1> QED BY <1>1, <1>2, Invariance, PTL DEF Spec, AllocationSpec, Allocation!ASpec

-----------------------------------------------------------------------------
(* Stations that own different ids keep them over restarts.                *)

\* startProbe goes for the station's own id when that is not occupied.
LEMMA StartProbeStaysHome ==
    ASSUME TypeOK, AtHome, NEW s \in Stations, on[s],
           NEW ag \in [Stations -> [Ids -> 0..TExpire]], NEW rest \in SUBSET net,
           startProbe(s, ag, rest), UNCHANGED <<on, id, nvs, preferred>>,
           \A t \in Stations : ag[t][nvs[t]] = age[t][nvs[t]]
    PROVE  AtHome'
<1>1. nvs[s] \in FreeIds(ag, s) /\ preferred[s] = nvs[s]
    BY DEF AtHome, FreeIds, isOccupied
<1>2. \A c \in pickCandidate(ag, s) : c = nvs[s]
    BY <1>1 DEF pickCandidate
<1>3. /\ age' = ag
      /\ cand' = [cand EXCEPT ![s] = nvs[s]]
      /\ net' = rest \cup Broadcast("PROBE", s, nvs[s])
    BY <1>1, <1>2 DEF startProbe
<1>4. \A t \in Stations : cand'[t] \in {0, nvs[t]} /\ ~isOccupied(age', t, nvs[t])
    BY <1>3 DEF TypeOK, AtHome, isOccupied
<1>5. \A m \in net' : m.id = nvs[m.src]
    BY <1>3 DEF AtHome, Broadcast
<1> QED BY <1>4, <1>5 DEF AtHome, isOccupied

\* No step takes a station away from its own id.
LEMMA AtHomeStep ==
    ASSUME TypeOK, Safe, AtHome, [Next]_vars, LateHitIds = {}
    PROVE  AtHome'
<1>1. age \in [Stations -> [Ids -> 0..TExpire]]
    BY DEF TypeOK
<1>2. ASSUME NEW s \in Stations, begin(s) \/ PowerOff(s) \/ consumeIdChanged(s) PROVE AtHome'
    <2>1. CASE begin(s)
        BY <2>1 DEF begin, TypeOK, AtHome, isOccupied
    <2>2. CASE PowerOff(s)
        <3>1. \A t \in Stations : ~isOccupied(age', t, nvs[t])
            BY <1>1, <2>2 DEF PowerOff, AtHome, isOccupied
        <3> QED BY <2>2, <3>1 DEF PowerOff, TypeOK, AtHome, isOccupied
    <2>3. CASE consumeIdChanged(s)
        <3>1. nvs' = nvs
            BY <2>3 DEF consumeIdChanged, TypeOK, AtHome
        <3> QED BY <2>3, <3>1 DEF consumeIdChanged, AtHome, isOccupied
    <2> QED BY <1>2, <2>1, <2>2, <2>3
<1>3. ASSUME NEW s \in Stations, Tick(s) PROVE AtHome'
    <2>1. CASE TickListen(s)
        <3>1. net \in SUBSET net /\ on[s] /\ startProbe(s, age, net)
              /\ UNCHANGED <<on, id, nvs, preferred>>
            BY <2>1 DEF TickListen, KeepId, KeepPower
        <3> QED BY <1>1, <3>1, StartProbeStaysHome
    <2>2. CASE SendProbe(s)
        <3>1. cand[s] = nvs[s]
            BY <2>2 DEF SendProbe, Safe, Consistent, AtHome
        <3> QED BY <2>2, <3>1 DEF SendProbe, KeepId, KeepPower, AtHome, isOccupied, Broadcast
    <2>3. CASE becomeHeld(s)
        <3>1. cand[s] = nvs[s] /\ nvs[s] \in Ids
            BY <2>3 DEF becomeHeld, Safe, Consistent, AtHome
        <3>2. \A t \in Stations : ~isOccupied(age', t, nvs[t])
            BY <1>1, <2>3, <3>1 DEF becomeHeld, AtHome, isOccupied
        <3>3. \A m \in net' : m.id = nvs[m.src]
            BY <2>3, <3>1 DEF becomeHeld, AtHome, Broadcast
        <3> QED BY <2>3, <3>1, <3>2, <3>3 DEF becomeHeld, KeepPower, TypeOK, AtHome, isOccupied
    <2>4. CASE TickHeld(s)
        <3>1. id[s] = nvs[s]
            BY <2>4 DEF TickHeld, Safe, Consistent, AtHome
        <3> QED BY <2>4, <3>1 DEF TickHeld, KeepId, KeepPower, AtHome, isOccupied, Broadcast
    <2> QED BY <1>3, <2>1, <2>2, <2>3, <2>4 DEF Tick
<1>4. ASSUME NEW m \in net, Deliver(m) PROVE AtHome'
    <2> DEFINE s == m.dst
               ag == IF m.id # id[s] THEN note(age, s, m.id) ELSE age
               rest == net \ {m}
    <2>1. /\ s \in Stations /\ m.src \in Stations /\ m.id \in Ids
          /\ on[s] /\ m.src # s /\ m.id = nvs[m.src] /\ m.id # nvs[s]
        <3>1. s \in Stations /\ m.src \in Stations /\ m.id \in Ids
            BY PacketParts
        <3>2. on[s] /\ m.src # s
            BY DEF Safe, Consistent
        <3>3. m.id = nvs[m.src] /\ nvs[m.src] # nvs[s]
            BY <3>1, <3>2 DEF AtHome
        <3> QED BY <3>1, <3>2, <3>3
    <2>2. m.id # id[s] /\ m.id # cand[s]
        <3>1. id[s] \in {0, nvs[s]} /\ cand[s] \in {0, nvs[s]}
            BY <2>1 DEF AtHome
        <3>2. m.id # 0
            BY <2>1 DEF Ids
        <3> QED BY <2>1, <3>1, <3>2
    <2>3. age' = ag /\ net' = rest /\ UNCHANGED <<state, cand, id, on, nvs, preferred>>
        BY <1>4, <2>2 DEF Deliver, onProbe, onBeacon, KeepState, KeepId, KeepPower
    <2>4. \A t \in Stations : age'[t][nvs[t]] = age[t][nvs[t]]
        BY <1>1, <2>1, <2>3 DEF note
    <2> HIDE DEF ag
    <2> QED BY <2>3, <2>4 DEF AtHome, isOccupied
<1>5. ASSUME NEW s \in Stations, NEW c \in HitIds, onHitReport(s, c) PROVE AtHome'
    <2>1. PICK t \in Stations : c = id[t] /\ id[t] # 0
        BY LateHitIds = {} DEF HitIds
    <2>2. t # s /\ c = nvs[t] /\ c # nvs[s] /\ c # cand[s] /\ c \in Ids
        BY <1>5, <2>1 DEF onHitReport, AtHome, Ids
    <2>3. age' = note(age, s, c) /\ UNCHANGED <<net, state, cand, id, on, nvs, preferred>>
        BY <1>5, <2>2 DEF onHitReport, KeepState, KeepId, KeepPower
    <2>4. \A u \in Stations : age'[u][nvs[u]] = age[u][nvs[u]]
        BY <1>1, <2>2, <2>3 DEF note
    <2> QED BY <2>3, <2>4 DEF AtHome, isOccupied
<1>6. CASE Time
    <2>1. \A s \in Stations : ~isOccupied(age', s, nvs[s])
        BY <1>1, <1>6 DEF Time, Elapse, AtHome, isOccupied
    <2> QED BY <1>6, <2>1 DEF Time, Elapse, AtHome, isOccupied
<1>7. CASE UNCHANGED vars
    BY <1>7 DEF vars, AtHome, isOccupied
<1> QED BY <1>2, <1>3, <1>4, <1>5, <1>6, <1>7 DEF Next, Hit

\* Nobody ever has a reason to leave the id it has in NVS: it is tried first, and
\* no evidence, no packet and no other station stands against it.
THEOREM HomeInvariance == ASSUME LateHitIds = {} PROVE HomeSpec => [](IInv /\ AtHome)
<1>1. HomeInit => IInv /\ AtHome
    <2> SUFFICES ASSUME HomeInit PROVE IInv /\ AtHome
        OBVIOUS
    <2>1. PICK f \in [Stations -> Ids] : nvs = f /\ \A s, t \in Stations : f[s] = f[t] => s = t
        BY DEF HomeInit
    <2>2. IInv
        BY <2>1, InvInit DEF HomeInit, Ids
    <2>3. AtHome
        <3>1. ASSUME NEW s \in Stations PROVE nvs[s] \in Ids /\ ~isOccupied(age, s, nvs[s])
            <4>1. nvs[s] \in Ids
                BY <2>1
            <4>2. age[s][nvs[s]] = TExpire
                BY <4>1 DEF HomeInit, RamInit
            <4> QED BY <4>1, <4>2 DEF isOccupied
        <3>2. \A s, t \in Stations : nvs[s] = nvs[t] => s = t
            BY <2>1
        <3> QED BY <3>1, <3>2 DEF HomeInit, RamInit, AtHome
    <2> QED BY <2>2, <2>3
<1>2. IInv /\ AtHome /\ [Next]_vars => (IInv /\ AtHome)'
    BY InvIsSafe, TypingStep, SafeStep, AtHomeStep DEF IInv, Safe
<1> QED BY <1>1, <1>2, PTL DEF HomeSpec

\* Stations with different ids in NVS, restarted at any time and in any order,
\* never hold an id but their own - if no hit report names an id that nobody
\* holds any more.
THEOREM StableOverRestarts == ASSUME LateHitIds = {} PROVE HomeSpec => []HeldIsHome
<1>1. IInv /\ AtHome => HeldIsHome
    BY DEF IInv, Consistent, AtHome, HeldIsHome
<1> QED BY <1>1, HomeInvariance, PTL

=============================================================================
