--------------------------- MODULE EspNowPushLossy ---------------------------
(***************************************************************************)
(* The firmware push when the radio loses a bounded number of packets and  *)
(* the two loops are prompt: a box's deadline (500 ms, 2 s after PUSH_END) *)
(* passes only once everything sent has been handled and the device has    *)
(* no gap to report (it reports one after 250 ms).                         *)
(***************************************************************************)
EXTENDS EspNowPush

CONSTANTS
    MaxLosses,      \* bounds the packets lost
    FinalArrives    \* at least one of the two copies of a final ack arrives

ASSUME LossyAssumption == MaxLosses \in Nat /\ FinalArrives \in BOOLEAN

VARIABLES
    losses,   \* packets lost so far
    acked     \* the device sent an ack since the last deadline: it is throttled

lvars == <<vars, losses, acked>>

LInit == Init /\ losses = 0 /\ acked = FALSE

Idle ==
    /\ \A b \in Boxes : air[b] = <<>> /\ acks[b] = <<>>
    /\ ring = <<>> /\ queue = <<>>

\* The device sends its final ack twice and answers no PUSH_END after it.
LastCopy(b) == Len(acks[b]) = 1 /\ Head(acks[b]).status # "WINDOW"

Loss ==
    /\ losses < MaxLosses
    /\ losses' = losses + 1
    /\ \E b \in Boxes : Lose(b) \/ (LoseAck(b) /\ (FinalArrives => ~LastCopy(b)))
    /\ UNCHANGED acked

Sent == \E b \in Boxes : Len(acks'[b]) > Len(acks[b])

Deadline ==
    /\ Idle
    /\ Receiving => DOMAIN winBuf = {}
    /\ \E b \in Boxes : Timeout(b)
    /\ acked' = FALSE
    /\ UNCHANGED losses

\* A step of the loops or the radio; the first frame of a flashed window after
\* a deadline is acknowledged again, for the last ack is long ago.
Run(A) ==
    /\ A
    /\ acked' = (acked \/ Sent)
    /\ UNCHANGED losses

Start == \E b \in Boxes, img \in Images : start(b, img)
Deliver == \E b \in Boxes : Arrive(b)
Acks == \E b \in Boxes : onAck(b)
Drain == DrainFrame /\ (~acked /\ IsFlashed(Head(queue)) => Sent)
Report == PeriodicAck /\ Idle

LNext ==
    \/ Loss
    \/ Deadline
    \/ Run(Start) \/ Run(Deliver) \/ Run(Acks)
    \/ Run(onControl) \/ Run(Drain) \/ Run(Report)

\* Both loops run, the radio delivers and deadlines pass.
LFairness ==
    /\ WF_lvars(Run(Deliver)) /\ WF_lvars(Run(Acks)) /\ WF_lvars(Deadline)
    /\ WF_lvars(Run(onControl)) /\ WF_lvars(Run(Drain)) /\ WF_lvars(Run(Report))

LSpec == LInit /\ [][LNext]_lvars /\ LFairness

-----------------------------------------------------------------------------
\* Any MaxLosses packets may be lost - PUSH_BEGIN, PUSH_END, frames, window
\* acks - and the push still succeeds: retries, the gap bitmap, the doubled and
\* the repeated acks heal every one of them.
LossIsHealed == \A b \in Boxes : sState[b] = "PUSHING" ~> sState[b] = "DONE"
=============================================================================
