----------------------------- MODULE IdAllocation -----------------------------
(***************************************************************************)
(* What the negotiation promises the game: stations come and go, a station *)
(* that is on acquires an id nobody holds, and keeps it until it goes.     *)
(***************************************************************************)
EXTENDS Naturals

CONSTANTS Stations, Ids

VARIABLES
    on,  \* the stations that are in the game
    id   \* the id each of them plays with, 0 = none yet

avars == <<on, id>>

AInit ==
    /\ on = [s \in Stations |-> FALSE]
    /\ id = [s \in Stations |-> 0]

Join(s) ==
    /\ ~on[s]
    /\ on' = [on EXCEPT ![s] = TRUE]
    /\ UNCHANGED id

Leave(s) ==
    /\ on[s]
    /\ on' = [on EXCEPT ![s] = FALSE]
    /\ id' = [id EXCEPT ![s] = 0]

Acquire(s) ==
    /\ on[s] /\ id[s] = 0
    /\ \E c \in Ids :
        /\ \A t \in Stations : id[t] # c
        /\ id' = [id EXCEPT ![s] = c]
    /\ UNCHANGED on

ANext == \E s \in Stations : Join(s) \/ Leave(s) \/ Acquire(s)

ASpec == AInit /\ [][ANext]_avars
=============================================================================
