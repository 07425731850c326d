---------------------------- MODULE LossyStream ----------------------------
(* What the receive path of a port promises, whatever the DMA, the worker   *)
(* and the USB core do: bytes come off the wire, and each of them is either *)
(* handed to the host, once and in order, or given up -- but only after     *)
(* `Size' newer bytes arrived, when the ring no longer holds it.            *)
(*                                                                          *)
(* A byte is named by its position in the stream: the first one is 1.       *)
EXTENDS Integers, Sequences

CONSTANT Size       \* bytes the receiver promises to hold, a natural number

VARIABLES sent,     \* bytes received from the wire
          pos,      \* bytes handed over or given up
          host      \* what the host was handed

vars == <<sent, pos, host>>

Init == sent = 0 /\ pos = 0 /\ host = <<>>

Receive == sent' = sent + 1 /\ UNCHANGED <<pos, host>>

Deliver(k) ==
  /\ pos + k <= sent
  /\ host' = host \o [i \in 1..k |-> pos + i]
  /\ pos' = pos + k
  /\ UNCHANGED sent

Lose(k) ==
  /\ pos + k <= sent - Size
  /\ pos' = pos + k
  /\ UNCHANGED <<sent, host>>

Next == Receive \/ \E k \in 1..(sent - pos) : Deliver(k) \/ Lose(k)

Spec == Init /\ [][Next]_vars
=============================================================================
