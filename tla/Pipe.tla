-------------------------------- MODULE Pipe --------------------------------
(***************************************************************************)
(* What an encrypted connection promises about the data that was sent over *)
(* it, without records, reads or buffers: the data arrives in order, waits *)
(* and is delivered, all that waits at a time.  Once, before anything has  *)
(* been delivered, what waits may be dropped instead: that is what comes   *)
(* with the end of the handshake.                                          *)
(***************************************************************************)
EXTENDS Naturals, Sequences

CONSTANT Sent       \* the data, in the order it was sent

VARIABLES arrived, waiting, delivered, dropped

vars == <<arrived, waiting, delivered, dropped>>

Init == arrived = 0 /\ waiting = <<>> /\ delivered = <<>> /\ dropped = <<>>

\* What waits when the first n pieces of the data have arrived.
WaitingAt(n) == waiting \o SubSeq(Sent, arrived + 1, n)

Keep(n) ==
    /\ waiting' = WaitingAt(n)
    /\ UNCHANGED <<delivered, dropped>>

Deliver(n) ==
    /\ delivered' = delivered \o WaitingAt(n)
    /\ waiting' = <<>>
    /\ UNCHANGED dropped

Drop(n) ==
    /\ delivered = <<>> /\ dropped = <<>>
    /\ dropped' = WaitingAt(n)
    /\ waiting' = <<>>
    /\ UNCHANGED delivered

Next ==
    \E n \in arrived..Len(Sent) :
        /\ arrived' = n
        /\ Keep(n) \/ Deliver(n) \/ Drop(n)

Spec == Init /\ [][Next]_vars
=============================================================================
