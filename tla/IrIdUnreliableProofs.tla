------------------------- MODULE IrIdUnreliableProofs -------------------------
(***************************************************************************)
(* Proofs about IrIdUnreliable: what holds of the negotiation whatever is  *)
(* lost, late or switched off, for every number of stations, ids and       *)
(* troubles.  The invariant of the reliable bus (IInv) does not hold here; *)
(* what is left is what a station knows about itself.                      *)
(***************************************************************************)
EXTENDS IrIdUnreliable, IrIdNegotiatorProofs

USE StationsAssumption, NumIdsAssumption, TimesAssumption, MaxTroublesAssumption

\* A step is one of the reliable bus, a lost packet, or late.
LEMMA StepCases ==
    ASSUME UNext
    PROVE  \/ Next
           \/ \E m \in net : Lose(m)
           \/ Elapse
           \/ \E s \in Stations, c \in Ids : onHitReport(s, c)
BY DEF UNext, Run, Next, Stall, LateHit

\* Nothing that is lost or late takes a variable out of its type.
THEOREM UTyping == USpec => []UTypeOK
<1>1. UInit => UTypeOK
    <2>1. Init => TypeOK
        BY InitTyped
    <2> QED BY <2>1 DEF UInit, UTypeOK
<1>2. UTypeOK /\ [UNext]_uvars => UTypeOK'
    <2> SUFFICES ASSUME UTypeOK, [UNext]_uvars PROVE UTypeOK'
        OBVIOUS
    <2> TypeOK /\ troubles \in 0..MaxTroubles
        BY DEF UTypeOK
    <2>1. troubles' \in 0..MaxTroubles
        BY DEF UNext, Trouble, Lose, Stall, LateHit, uvars
    <2>2. TypeOK'
        <3>1. CASE Next \/ UNCHANGED vars
            BY <3>1, TypingStep
        <3>2. ASSUME NEW m \in net, Lose(m) PROVE TypeOK'
            BY <3>2 DEF Lose, TypeOK
        <3>3. CASE Elapse
            BY <3>3, ElapseTyped
        <3>4. ASSUME NEW s \in Stations, NEW c \in Ids, onHitReport(s, c) PROVE TypeOK'
            BY <3>4, OnHitReportTyped
        <3> QED BY <3>1, <3>2, <3>3, <3>4, StepCases DEF uvars
    <2> QED BY <2>1, <2>2 DEF UTypeOK
<1> QED BY <1>1, <1>2, PTL DEF USpec

-----------------------------------------------------------------------------
(* How ids change.                                                         *)

\* The station goes for candidate c, or back to LISTEN without one.
Goes(s, c) ==
    /\ state' = [state EXCEPT ![s] = IF c = 0 THEN "LISTEN" ELSE "PROBE"]
    /\ cand' = [cand EXCEPT ![s] = c]

\* startProbe goes for an id that is free by the table it is given.
LEMMA StartProbeGoes ==
    ASSUME NEW s \in Stations, NEW ag, NEW rest, startProbe(s, ag, rest)
    PROVE  \E c \in 0..NumIds : Goes(s, c) /\ (c # 0 => c \in FreeIds(ag, s))
<1>1. ASSUME NEW c \in pickCandidate(ag, s),
             state' = [state EXCEPT ![s] = "PROBE"], cand' = [cand EXCEPT ![s] = c]
      PROVE  c \in 0..NumIds /\ Goes(s, c) /\ c \in FreeIds(ag, s)
    <2>1. c \in FreeIds(ag, s) /\ c \in Ids
        BY DEF pickCandidate, FreeIds
    <2>2. c \in 0..NumIds /\ c # 0
        BY <2>1 DEF Ids
    <2> QED BY <1>1, <2>1, <2>2 DEF Goes
<1>2. ASSUME state' = [state EXCEPT ![s] = "LISTEN"], cand' = [cand EXCEPT ![s] = 0]
      PROVE  0 \in 0..NumIds /\ Goes(s, 0)
    BY <1>2 DEF Goes
<1> QED BY <1>1, <1>2 DEF startProbe

\* A station without an id goes for one or gives up.
Searches(s) ==
    /\ state[s] = "PROBE" \/ (state[s] = "LISTEN" /\ on[s])
    /\ \E c \in 0..NumIds : Goes(s, c)
    /\ UNCHANGED <<on, id, idChanged, nvs>>

\* The station hears a beacon of its own id from a smaller one, and goes for
\* another.
Yields(s, m) ==
    /\ m \in net \ net' /\ m.kind = "BEACON" /\ m.dst = s
    /\ state[s] = "HELD" /\ m.id = id[s] /\ otherWins(s, m.src)
    /\ id' = [id EXCEPT ![s] = 0]
    /\ idChanged' = [idChanged EXCEPT ![s] = TRUE]
    /\ \E c \in 0..NumIds : c # id[s] /\ Goes(s, c)
    /\ UNCHANGED <<on, nvs>>

\* What a step does to what a station knows of its own id, whatever is lost,
\* late or switched off.
LEMMA IdKnowledgeSteps ==
    ASSUME UTypeOK, [UNext]_uvars
    PROVE  \/ UNCHANGED <<on, state, id, cand, idChanged, nvs>>
           \/ \E s \in Stations : begin(s) \/ PowerOff(s) \/ consumeIdChanged(s) \/ becomeHeld(s)
           \/ \E s \in Stations : Searches(s)
           \/ \E s \in Stations, m \in net : Yields(s, m)
<1> DEFINE Quiet == UNCHANGED <<on, state, id, cand, idChanged, nvs>>
<1> TypeOK
    BY DEF UTypeOK
<1>1. ASSUME NEW s \in Stations, TickListen(s) PROVE Searches(s)
    BY <1>1, StartProbeGoes DEF TickListen, KeepId, KeepPower, Searches
<1>2. ASSUME NEW s \in Stations, SendProbe(s) \/ TickHeld(s) PROVE Quiet
    BY <1>2 DEF SendProbe, TickHeld, KeepId, KeepPower
<1>3. \A m \in net : m.dst \in Stations /\ m.id \in Ids
    BY DEF TypeOK, Messages
<1>4. ASSUME NEW m \in net, onProbe(m.dst, m) PROVE Quiet \/ Searches(m.dst)
    <2> DEFINE s == m.dst
               ag == IF m.id # id[s] THEN note(age, s, m.id) ELSE age
    <2>1. KeepId /\ KeepPower
        BY <1>4 DEF onProbe
    <2>2. \/ UNCHANGED <<state, cand>>
          \/ state[s] = "PROBE" /\ startProbe(s, ag, net \ {m})
        BY <1>4 DEF onProbe, KeepState
    <2> HIDE DEF ag
    <2> QED BY <1>3, <2>1, <2>2, StartProbeGoes DEF KeepId, KeepPower, Searches
<1>5. ASSUME NEW m \in net, onBeacon(m.dst, m)
      PROVE  Quiet \/ Searches(m.dst) \/ Yields(m.dst, m)
    <2> DEFINE s == m.dst
               ag == IF m.id # id[s] THEN note(age, s, m.id) ELSE age
    <2>1. KeepPower
        BY <1>5 DEF onBeacon
    <2>2. \/ KeepId /\ UNCHANGED <<state, cand>>
          \/ KeepId /\ state[s] = "PROBE" /\ startProbe(s, ag, net \ {m})
          \/ /\ state[s] = "HELD" /\ m.id = id[s] /\ otherWins(s, m.src)
             /\ id' = [id EXCEPT ![s] = 0]
             /\ idChanged' = [idChanged EXCEPT ![s] = TRUE]
             /\ startProbe(s, note(ag, s, m.id), net \ {m})
        BY <1>5 DEF onBeacon, KeepState
    <2>3. s \in Stations /\ m.id \in Ids
        BY <1>3
    <2>4. ag \in [Stations -> [Ids -> 0..TExpire]]
        BY <2>3, NoteIsTyped DEF TypeOK
    <2> HIDE DEF ag
    <2>9. m.kind = "BEACON" /\ (startProbe(s, note(ag, s, m.id), net \ {m}) => m \notin net')
        BY <1>5 DEF onBeacon, startProbe, Broadcast
    <2>5. m.id \notin FreeIds(note(ag, s, m.id), s)
        <3>1. note(ag, s, m.id)[s][m.id] = 0
            BY <2>3, <2>4 DEF note
        <3>2. isOccupied(note(ag, s, m.id), s, m.id) \/ TExpire = 0
            BY <3>1 DEF isOccupied
        <3>3. TExpire # 0
            OBVIOUS
        <3> QED BY <3>2, <3>3 DEF FreeIds
    <2>6. CASE KeepId /\ UNCHANGED <<state, cand>>
        BY <2>1, <2>6 DEF KeepId, KeepPower
    <2>7. CASE KeepId /\ state[s] = "PROBE" /\ startProbe(s, ag, net \ {m})
        BY <2>1, <2>3, <2>7, StartProbeGoes DEF KeepId, KeepPower, Searches
    <2>8. CASE /\ state[s] = "HELD" /\ m.id = id[s] /\ otherWins(s, m.src)
               /\ id' = [id EXCEPT ![s] = 0]
               /\ idChanged' = [idChanged EXCEPT ![s] = TRUE]
               /\ startProbe(s, note(ag, s, m.id), net \ {m})
        <3>1. PICK c \in 0..NumIds : Goes(s, c) /\ (c # 0 => c \in FreeIds(note(ag, s, m.id), s))
            BY <2>3, <2>8, StartProbeGoes
        <3>2. c # id[s]
            BY <2>3, <2>5, <2>8, <3>1 DEF Ids
        <3> QED BY <1>5, <2>1, <2>8, <2>9, <3>1, <3>2 DEF KeepPower, Yields
    <2> QED BY <2>2, <2>6, <2>7, <2>8
<1>6. ASSUME NEW s \in Stations, NEW c \in Ids, onHitReport(s, c) PROVE Quiet \/ Searches(s)
    <2> DEFINE ag == note(age, s, c)
    <2>1. KeepId /\ KeepPower
        BY <1>6 DEF onHitReport
    <2>2. \/ UNCHANGED <<state, cand>>
          \/ state[s] = "PROBE" /\ startProbe(s, ag, net)
        BY <1>6 DEF onHitReport, KeepState
    <2> HIDE DEF ag
    <2> QED BY <2>1, <2>2, StartProbeGoes DEF KeepId, KeepPower, Searches
<1>7. CASE Elapse \/ UNCHANGED vars
    BY <1>7 DEF Elapse, vars
<1>8. ASSUME NEW m \in net, Lose(m) PROVE Quiet
    BY <1>8 DEF Lose
<1>9. ASSUME Next
      PROVE  \/ \E s \in Stations : begin(s) \/ PowerOff(s) \/ consumeIdChanged(s) \/ becomeHeld(s)
             \/ \E s \in Stations : TickListen(s) \/ SendProbe(s) \/ TickHeld(s)
             \/ \E m \in net : onProbe(m.dst, m) \/ onBeacon(m.dst, m)
             \/ \E s \in Stations, c \in Ids : onHitReport(s, c)
             \/ Elapse
    BY <1>9, HitIdsAreIds DEF Next, Time, Hit, Tick, Deliver
<1> HIDE DEF Quiet
<1>10. CASE Next
    BY <1>1, <1>2, <1>3, <1>4, <1>5, <1>6, <1>7, <1>9, <1>10 DEF Quiet
<1> QED BY <1>6, <1>7, <1>8, <1>10, StepCases DEF Quiet, uvars

\* What a station knows of its own id: irId() is 0 unless HELD, candidate() is 0
\* unless PROBE, a station that is off has neither, and what it holds is
\* persisted or announced.
SelfKnown ==
    \A s \in Stations :
        /\ state[s] = "HELD" <=> id[s] # 0
        /\ state[s] = "PROBE" <=> cand[s] # 0
        /\ ~on[s] => state[s] = "LISTEN"
        /\ state[s] = "HELD" /\ ~idChanged[s] => nvs[s] = id[s]

\* No step takes it from a station.
LEMMA SelfKnownStep ==
    ASSUME UTypeOK, SelfKnown, [UNext]_uvars
    PROVE  SelfKnown'
<1> TypeOK
    BY DEF UTypeOK
<1>1. CASE UNCHANGED <<on, state, id, cand, idChanged, nvs>>
    BY <1>1 DEF SelfKnown
<1>2. ASSUME NEW s \in Stations, begin(s) PROVE SelfKnown'
    BY <1>2 DEF begin, TypeOK, SelfKnown
<1>3. ASSUME NEW s \in Stations, PowerOff(s) PROVE SelfKnown'
    BY <1>3 DEF PowerOff, TypeOK, SelfKnown
<1>4. ASSUME NEW s \in Stations, consumeIdChanged(s) PROVE SelfKnown'
    BY <1>4 DEF consumeIdChanged, TypeOK, SelfKnown
<1>5. ASSUME NEW s \in Stations, becomeHeld(s) PROVE SelfKnown'
    BY <1>5 DEF becomeHeld, KeepPower, TypeOK, SelfKnown
<1>6. ASSUME NEW s \in Stations, Searches(s) PROVE SelfKnown'
    <2>1. PICK c \in 0..NumIds :
            /\ state' = [state EXCEPT ![s] = IF c = 0 THEN "LISTEN" ELSE "PROBE"]
            /\ cand' = [cand EXCEPT ![s] = c]
        BY <1>6 DEF Searches, Goes
    <2>2. state[s] # "HELD" /\ on[s] /\ UNCHANGED <<on, id, idChanged, nvs>>
        BY <1>6 DEF Searches, SelfKnown
    <2> QED BY <2>1, <2>2 DEF TypeOK, SelfKnown
<1>7. ASSUME NEW s \in Stations, NEW m \in net, Yields(s, m) PROVE SelfKnown'
    BY <1>7 DEF Yields, Goes, TypeOK, SelfKnown
<1> QED BY <1>1, <1>2, <1>3, <1>4, <1>5, <1>6, <1>7, IdKnowledgeSteps

\* Once the caller has consumed the change, what it persisted is the id the station
\* holds, whatever is lost, late or switched off in between.
THEOREM HeldPersists == USpec => []HeldIsPersisted
<1>1. UInit => SelfKnown
    BY DEF UInit, Init, RamInit, SelfKnown
<1>2. UTypeOK /\ SelfKnown /\ [UNext]_uvars => SelfKnown'
    BY SelfKnownStep
<1>3. SelfKnown => HeldIsPersisted
    BY DEF SelfKnown, HeldIsPersisted
<1> QED BY <1>1, <1>2, <1>3, UTyping, PTL DEF USpec

\* A station that is on loses its id to a beacon for it from a smaller one only,
\* whatever is lost or late.
THEOREM YieldedToSmaller == USpec => YieldsToSmaller
<1>1. UTypeOK /\ [UNext]_uvars
        => [\A s \in Stations :
              state[s] = "HELD" /\ on'[s] /\ id'[s] # id[s] =>
                  \E m \in net \ net' :
                      m.kind = "BEACON" /\ m.dst = s /\ m.id = id[s] /\ m.src < s]_uvars
    <2> SUFFICES ASSUME UTypeOK, [UNext]_uvars, NEW s \in Stations,
                        state[s] = "HELD", on'[s], id'[s] # id[s]
                 PROVE  \E m \in net \ net' :
                            m.kind = "BEACON" /\ m.dst = s /\ m.id = id[s] /\ m.src < s
        OBVIOUS
    <2> TypeOK
        BY DEF UTypeOK
    <2>1. ASSUME NEW t \in Stations, begin(t) \/ PowerOff(t) \/ consumeIdChanged(t) \/ becomeHeld(t)
          PROVE  FALSE
        BY <2>1 DEF TypeOK, begin, PowerOff, consumeIdChanged, becomeHeld
    <2>2. ASSUME NEW t \in Stations, NEW m \in net, Yields(t, m) PROVE t = s /\ m.src < s
        BY <2>2 DEF TypeOK, Yields, otherWins
    <2>3. PICK t \in Stations, m \in net : Yields(t, m)
        BY <2>1, IdKnowledgeSteps DEF Searches
    <2>4. t = s /\ m.src < s
        BY <2>2, <2>3
    <2> QED BY <2>3, <2>4 DEF Yields
<1> QED BY <1>1, UTyping, PTL DEF USpec, YieldsToSmaller

\* A beacon is only ever sent by a station that holds the id it names.
LEMMA NewBeaconsAreTrue ==
    ASSUME UTypeOK, [UNext]_uvars, NEW m \in net', m \notin net, m.kind = "BEACON"
    PROVE  m.src \in Stations /\ Holding(m.src, m.id)'
<1> TypeOK
    BY DEF UTypeOK
<1>1. \A x \in net : x.dst \in Stations
    BY DEF TypeOK, Messages
<1>2. ASSUME NEW s \in Stations, NEW ag, NEW rest, startProbe(s, ag, rest), rest \subseteq net
      PROVE  FALSE
    BY <1>2 DEF startProbe, Broadcast
<1>3. ASSUME NEW s \in Stations, becomeHeld(s) PROVE m.src \in Stations /\ Holding(m.src, m.id)'
    BY <1>3 DEF becomeHeld, Broadcast, Holding, TypeOK
<1>4. ASSUME NEW s \in Stations, TickHeld(s) PROVE m.src \in Stations /\ Holding(m.src, m.id)'
    BY <1>4 DEF TickHeld, KeepId, Broadcast, Holding, TypeOK
<1>5. ASSUME NEW s \in Stations, TickListen(s) \/ SendProbe(s) PROVE FALSE
    BY <1>2, <1>5 DEF TickListen, SendProbe, Broadcast
<1>6. ASSUME NEW x \in net, onProbe(x.dst, x) PROVE m.src \in Stations /\ Holding(m.src, m.id)'
    <2> DEFINE s == x.dst
               rest == net \ {x}
               ag == IF x.id # id[s] THEN note(age, s, x.id) ELSE age
    <2>1. s \in Stations /\ rest \subseteq net
        BY <1>1
    <2>2. \/ startProbe(s, ag, rest)
          \/ /\ state[s] = "HELD" /\ state' = state /\ id' = id
             /\ net' = rest \cup Unicast("BEACON", s, x.src, id[s]) \cup Broadcast("BEACON", s, id[s])
          \/ net' = rest
        BY <1>6 DEF onProbe, KeepId
    <2> HIDE DEF ag
    <2>3. /\ state[s] = "HELD" /\ state' = state /\ id' = id
          /\ m \in Unicast("BEACON", s, x.src, id[s]) \cup Broadcast("BEACON", s, id[s])
        BY <1>2, <2>1, <2>2
    <2>4. m.src = s /\ m.id = id[s]
        BY <2>3 DEF Unicast, Broadcast
    <2> QED BY <2>1, <2>3, <2>4 DEF Holding
<1>7. ASSUME NEW x \in net, onBeacon(x.dst, x) PROVE m.src \in Stations /\ Holding(m.src, m.id)'
    BY <1>1, <1>2, <1>7 DEF onBeacon, KeepId, KeepState, Broadcast, Holding, TypeOK
<1>8. ASSUME NEW s \in Stations, NEW c \in Ids, onHitReport(s, c) PROVE FALSE
    BY <1>2, <1>8 DEF onHitReport
<1>9. ASSUME NEW s \in Stations, begin(s) \/ PowerOff(s) \/ consumeIdChanged(s) PROVE FALSE
    BY <1>9 DEF begin, PowerOff, consumeIdChanged
<1>10. CASE Elapse \/ UNCHANGED vars \/ \E x \in net : Lose(x)
    BY <1>10 DEF Elapse, vars, Lose
<1>11. CASE Next
    BY <1>3, <1>4, <1>5, <1>6, <1>7, <1>8, <1>9, <1>10, <1>11, HitIdsAreIds
       DEF Next, Time, Hit, Tick, Deliver
<1> QED BY <1>8, <1>10, <1>11, StepCases DEF uvars

\* A holder that stays on keeps its id unless it yields it.
LEMMA HoldingStep ==
    ASSUME UTypeOK, SelfKnown, [UNext]_uvars, NEW s \in Stations, NEW c \in Ids,
           Holding(s, c), on'[s]
    PROVE  Holding(s, c)' \/ \E m \in net : Yields(s, m)
<1> TypeOK
    BY DEF UTypeOK
<1>1. on[s]
    BY DEF SelfKnown, Holding
<1>2. ASSUME NEW t \in Stations, begin(t) \/ PowerOff(t) \/ consumeIdChanged(t) \/ becomeHeld(t)
      PROVE  Holding(s, c)'
    BY <1>1, <1>2 DEF TypeOK, begin, PowerOff, consumeIdChanged, becomeHeld, Holding
<1>3. ASSUME NEW t \in Stations, Searches(t) PROVE Holding(s, c)'
    BY <1>3 DEF Searches, Goes, TypeOK, Holding
<1>4. ASSUME NEW t \in Stations, NEW m \in net, Yields(t, m)
      PROVE  t = s \/ Holding(s, c)'
    BY <1>4 DEF Yields, Goes, TypeOK, Holding
<1> QED BY <1>2, <1>3, <1>4, IdKnowledgeSteps DEF Holding

\* If all claims to c stand, a holder that yields leaves a smaller one behind.
LEMMA YieldLeavesSmaller ==
    ASSUME UTypeOK, NEW s \in Stations, NEW c \in Ids, ClaimsStand(c),
           Holding(s, c), NEW m \in net, Yields(s, m)
    PROVE  \E r \in Stations : r < s /\ Holding(r, c) /\ Holding(r, c)'
<1> TypeOK
    BY DEF UTypeOK
<1>1. m.src \in Stations /\ m.src < s /\ m.kind = "BEACON" /\ m.id = c
    BY DEF TypeOK, Messages, Yields, otherWins, Holding
<1>2. PICK r \in Stations : r <= m.src /\ Holding(r, c)
    BY <1>1 DEF ClaimsStand
<1>3. r < s
    <2>1. r \in Nat /\ m.src \in Nat /\ s \in Nat
        BY <1>1
    <2> QED BY <1>1, <1>2, <2>1
<1>4. Holding(r, c)'
    BY <1>2, <1>3 DEF Yields, Goes, TypeOK, Holding
<1> QED BY <1>2, <1>3, <1>4

\* The smallest holder of an id keeps it while it is on, and the claims to the id
\* go on to stand unless a station is switched off, whatever is lost or late.
THEOREM SmallestHolderKept == USpec => SmallestHolderKeeps
<1>1. UInit => SelfKnown
    BY DEF UInit, Init, RamInit, SelfKnown
<1>2. UTypeOK /\ SelfKnown /\ [UNext]_uvars => SelfKnown'
    BY SelfKnownStep
<1>3. UTypeOK /\ SelfKnown /\ [UNext]_uvars
        => [\A c \in Ids : ClaimsStand(c) =>
              /\ \A s \in Stations : SmallestHolder(s, c) /\ on'[s] => Holding(s, c)'
              /\ (\A s \in Stations : on[s] => on'[s]) => ClaimsStand(c)']_uvars
    <2> SUFFICES ASSUME UTypeOK, SelfKnown, [UNext]_uvars, NEW c \in Ids, ClaimsStand(c)
                 PROVE  /\ \A s \in Stations : SmallestHolder(s, c) /\ on'[s] => Holding(s, c)'
                        /\ (\A s \in Stations : on[s] => on'[s]) => ClaimsStand(c)'
        OBVIOUS
    <2>1. ASSUME NEW s \in Stations, SmallestHolder(s, c), on'[s] PROVE Holding(s, c)'
        <3>1. Holding(s, c) /\ \A r \in Stations : Holding(r, c) => ~(r < s)
            BY <2>1 DEF SmallestHolder
        <3> QED BY <2>1, <3>1, HoldingStep, YieldLeavesSmaller
    <2>2. ASSUME \A s \in Stations : on[s] => on'[s] PROVE ClaimsStand(c)'
        <3> SUFFICES ASSUME NEW m \in net', m.kind = "BEACON", m.id = c
                     PROVE  \E r \in Stations : r <= m.src /\ Holding(r, c)'
            BY DEF ClaimsStand
        <3>1. CASE m \notin net
            <4>1. m.src \in Stations /\ Holding(m.src, c)'
                BY <3>1, NewBeaconsAreTrue
            <4>2. m.src \in Nat
                BY <4>1
            <4> QED BY <4>1, <4>2
        <3>2. CASE m \in net
            <4>1. PICK r \in Stations : r <= m.src /\ Holding(r, c)
                BY <3>2 DEF ClaimsStand
            <4>2. on'[r]
                BY <2>2, <4>1 DEF SelfKnown, Holding
            <4>3. Holding(r, c)' \/ \E q \in Stations : q < r /\ Holding(q, c)'
                BY <4>1, <4>2, HoldingStep, YieldLeavesSmaller
            <4>4. m.src \in Stations
                BY <3>2 DEF UTypeOK, TypeOK, Messages
            <4>5. \A q \in Stations : q < r => q <= m.src
                <5>1. r \in Nat /\ m.src \in Nat /\ \A q \in Stations : q \in Nat
                    BY <4>4
                <5> QED BY <4>1, <5>1
            <4> QED BY <4>1, <4>3, <4>5
        <3> QED BY <3>1, <3>2
    <2> QED BY <2>1, <2>2
<1> QED BY <1>1, <1>2, <1>3, UTyping, PTL DEF USpec, SmallestHolderKeeps

\* A station that yields an id does not take it for its next candidate, although it
\* may be the one it persisted.
THEOREM YieldedIsLeft == USpec => NoReclaim
<1>1. UTypeOK /\ [UNext]_uvars
        => [\A s \in Stations :
              state[s] = "HELD" /\ on'[s] /\ id'[s] # id[s] => cand'[s] # id[s]]_uvars
    <2> SUFFICES ASSUME UTypeOK, [UNext]_uvars, NEW s \in Stations,
                        state[s] = "HELD", on'[s], id'[s] # id[s]
                 PROVE  cand'[s] # id[s]
        OBVIOUS
    <2> TypeOK
        BY DEF UTypeOK
    <2>1. ASSUME NEW t \in Stations, begin(t) \/ PowerOff(t) \/ consumeIdChanged(t) \/ becomeHeld(t)
          PROVE  FALSE
        BY <2>1 DEF TypeOK, begin, PowerOff, consumeIdChanged, becomeHeld
    <2>2. ASSUME NEW t \in Stations, NEW m \in net, Yields(t, m) PROVE cand'[s] # id[s]
        BY <2>2 DEF TypeOK, Yields, Goes
    <2> QED BY <2>1, <2>2, IdKnowledgeSteps DEF Searches
<1> QED BY <1>1, UTyping, PTL DEF USpec, NoReclaim
=============================================================================
