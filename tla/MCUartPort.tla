----------------------------- MODULE MCUartPort -----------------------------
(* UartPort for TLC: two formats, a handful of host operations and bytes. *)
EXTENDS UartPort

CONSTANTS f8N1, f7E1

MCFormats == {f8N1, f7E1}
=============================================================================
