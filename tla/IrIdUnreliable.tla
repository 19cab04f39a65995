---------------------------- MODULE IrIdUnreliable ----------------------------
(***************************************************************************)
(* The negotiators of IrIdNegotiator where the system misbehaves: ESP-NOW  *)
(* broadcasts are unacknowledged and get lost, the receive ring of         *)
(* EspNowService drops packets, a loop() that plays a sound neither ticks  *)
(* nor handles packets while time goes on, stations are switched off and   *)
(* on, and targets report ids that are not held any more.  MaxTroubles     *)
(* bounds how many such things happen, wherever they happen; what must     *)
(* follow is that the conflicts they caused are resolved.                  *)
(***************************************************************************)
EXTENDS IrIdNegotiator

CONSTANT MaxTroubles
ASSUME MaxTroublesAssumption == MaxTroubles \in Nat

VARIABLE troubles  \* how many have happened

uvars == <<vars, troubles>>

UTypeOK == TypeOK /\ troubles \in 0..MaxTroubles

UInit == Init /\ troubles = 0

Trouble == troubles < MaxTroubles /\ troubles' = troubles + 1

Lose(m) ==
    /\ Trouble
    /\ net' = net \ {m}
    /\ UNCHANGED <<on, state, id, cand, wait, probesSent, age, preferred, idChanged, nvs>>

\* Time goes on although packets are pending and ticks are due.
Stall == Trouble /\ ~(net = {} /\ \A s \in Stations : on[s] => wait[s] > 0) /\ Elapse

\* A hit report comes late: whoever shot has another id or is gone.
LateHit == Trouble /\ \E s \in Stations, c \in Ids : onHitReport(s, c)

\* The handlers, boots and punctual time are those of IrIdNegotiator.
Run ==
    \/ \E s \in Stations : begin(s) \/ consumeIdChanged(s) \/ Tick(s)
    \/ \E m \in net : Deliver(m)
    \/ Hit
    \/ Time

UNext ==
    \/ Run /\ UNCHANGED troubles
    \/ \E s \in Stations : PowerOff(s) /\ Trouble
    \/ \E m \in net : Lose(m)
    \/ Stall
    \/ LateHit

USpec == UInit /\ [][UNext]_uvars

UFairness ==
    /\ \A s \in Stations :
        /\ WF_uvars(Tick(s) /\ UNCHANGED troubles)
        /\ WF_uvars(consumeIdChanged(s) /\ UNCHANGED troubles)
    /\ WF_uvars((\E m \in net : Deliver(m)) /\ UNCHANGED troubles)
    /\ WF_uvars(Time /\ UNCHANGED troubles)

UFairSpec == USpec /\ UFairness

-----------------------------------------------------------------------------
\* Whatever was lost or late, the stations end up with different ids, every
\* one of them while there are enough, and stay there (test_irid:
\* "duplicate ir_id after settling").
Settled ==
    /\ UniqueIds
    /\ \A s \in Stations : on[s] =>
        state[s] = "HELD" \/ \A c \in Ids : \E t \in Stations : Holding(t, c)

Settles == <>[]Settled

\* A station that is on and gives up its id does so on a beacon of that very id
\* from a smaller MAC, which it handles in this step (the yield in onBeacon);
\* nothing else it hears, nor the timers, take the id from it.
YieldsToSmaller ==
    [][\A s \in Stations :
         state[s] = "HELD" /\ on'[s] /\ id'[s] # id[s] =>
             \E m \in net \ net' :
                 m.kind = "BEACON" /\ m.dst = s /\ m.id = id[s] /\ m.src < s]_uvars

\* A holder of c that no other holder of c is smaller than.
SmallestHolder(s, c) == Holding(s, c) /\ \A t \in Stations : Holding(t, c) => s <= t

\* Whoever claims c in a beacon on the air still holds it, or a smaller one does.
ClaimsStand(c) ==
    \A m \in net : m.kind = "BEACON" /\ m.id = c =>
        \E r \in Stations : r <= m.src /\ Holding(r, c)

\* However late or incomplete the beacons of a conflict arrive, it never ends
\* with nobody holding the id: of its holders the smallest one keeps it, and
\* the others' beacons stay covered by one.  Only a holder that is switched off
\* leaves claims behind that nobody stands for (onBeacon, otherWins).
SmallestHolderKeeps ==
    [][\A c \in Ids : ClaimsStand(c) =>
         /\ \A s \in Stations : SmallestHolder(s, c) /\ on'[s] => Holding(s, c)'
         /\ (\A s \in Stations : on[s] => on'[s]) => ClaimsStand(c)']_uvars

\* A station that yields does not go for the id it just lost.
NoReclaim ==
    [][\A s \in Stations :
         state[s] = "HELD" /\ on'[s] /\ id'[s] # id[s] => cand'[s] # id[s]]_uvars
=============================================================================
