------------------------------ MODULE TxStream ------------------------------
(* What the transmit path of a port promises the host, whatever the ring,    *)
(* the DMA, the FIFO and the shift register do: bytes that were accepted go  *)
(* out once, in order and whole, in the line format that was in force when   *)
(* they were accepted.  Only a close or a restart of the port drops bytes,   *)
(* and then all that are left.                                               *)
(*                                                                           *)
(* A byte is named by its position among the accepted ones: the first is 1.  *)
EXTENDS Integers, Sequences

CONSTANTS Formats,
          Chunk    \* no chunk that is accepted at once is larger

VARIABLES format, \* line format in force
          asked,  \* per accepted byte, the format in force at that moment
          next,   \* bytes sent or dropped
          line    \* what went out: byte and format, in the order of the wire

vars == <<format, asked, next, line>>

Init == format \in Formats /\ asked = <<>> /\ next = 0 /\ line = <<>>

Accept(k) ==
  /\ asked' = asked \o [i \in 1..k |-> format]
  /\ UNCHANGED <<format, next, line>>

Send ==
  /\ next < Len(asked)
  /\ line' = Append(line, [byte |-> next + 1, format |-> format])
  /\ next' = next + 1
  /\ UNCHANGED <<format, asked>>

(* The format changes between bytes, and only when none is left.             *)
Reformat(f) ==
  /\ next = Len(asked)
  /\ format' = f
  /\ UNCHANGED <<asked, next, line>>

Restart(f) ==
  /\ format' = f /\ next' = Len(asked)
  /\ UNCHANGED <<asked, line>>

Next == \/ \E k \in 1..Chunk : Accept(k)
        \/ Send
        \/ \E f \in Formats : Reformat(f) \/ Restart(f)

Spec == Init /\ [][Next]_vars
=============================================================================
