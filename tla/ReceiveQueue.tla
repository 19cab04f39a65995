----------------------------- MODULE ReceiveQueue -----------------------------
(***************************************************************************)
(* What the receive ring of EspNowService promises: packets are handed to  *)
(* loop() in the order they were put in, each once, and never more than    *)
(* Cap are waiting.  A dropped packet is not a step of this queue.         *)
(***************************************************************************)
EXTENDS Naturals, Sequences

CONSTANTS Items, Cap

VARIABLE q

QInit == q = <<>>

Put == Len(q) < Cap /\ \E item \in Items : q' = Append(q, item)
Get == q # <<>> /\ q' = Tail(q)

QSpec == QInit /\ [][Put \/ Get]_q
=============================================================================
