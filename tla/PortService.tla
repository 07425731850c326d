---------------------------- MODULE PortService ----------------------------
(* What a port promises the host that opens it, in terms of what the host can *)
(* observe: whether it is open and ready, the two control flags of the status *)
(* report, the line format, and the bytes that went in and out.  Nothing here *)
(* says which core does what, where a request waits or how long.              *)
(*                                                                            *)
(*  - Bytes are accepted only by a ready port with no request under way, and  *)
(*    the format changes only when all of them have left.                     *)
(*  - A request ends by being in force or by `failed', and `failed' stays     *)
(*    until the host makes the next request or closes.                        *)
(*  - Nothing that was started before a close makes the port ready after it,  *)
(*    and no byte is accepted between a close and the next start.             *)
EXTENDS Integers

CONSTANTS Formats,     \* line formats
          BootFormat,  \* the one after power-on
          NoFormat     \* no request to answer for

VARIABLES open, stopping,   \* DTR; a close that is not carried out yet
          running, ready,   \* the transmitter runs; the port says so
          busy, failed,     \* CONTROL_PENDING, CONTROL_ERROR
          wanted, format,   \* what was asked for last, what is in force
          accepted, sent    \* bytes since the start

control == <<busy, failed, wanted>>
bytes   == <<accepted, sent>>
vars    == <<open, stopping, running, ready, control, format, bytes>>

Init == /\ ~open /\ ~stopping /\ ~running /\ ~ready /\ ~busy /\ ~failed
        /\ wanted = NoFormat /\ format = BootFormat
        /\ accepted = 0 /\ sent = 0

(* A port that is ready, not busy and reports no failure runs in the format   *)
(* that was asked for last.                                                   *)
Honest == ready /\ ~busy /\ ~failed => wanted \in {NoFormat, format}
-----------------------------------------------------------------------------
(* The host                                                                   *)

Open ==
  /\ ~open /\ open' = TRUE
  /\ UNCHANGED <<stopping, running, ready, control, format, bytes>>

Ask(f) ==
  /\ wanted' = f /\ busy' = TRUE /\ failed' = FALSE
  /\ UNCHANGED <<open, stopping, running, ready, format, bytes>>

(* A request that cannot be met fails at once.                                *)
Refuse ==
  /\ wanted' = NoFormat /\ failed' = TRUE
  /\ UNCHANGED <<open, stopping, running, ready, busy, format, bytes>>

(* Nobody waits for the answer any more, and a port that is no longer open is *)
(* not ready.                                                                 *)
Withdraw ==
  /\ wanted' = NoFormat
  /\ busy' \in BOOLEAN /\ (busy' => busy)
  /\ open' = open \/ (open' = FALSE /\ ~ready)
  /\ UNCHANGED <<stopping, running, ready, failed, format, bytes>>

Close ==
  /\ stopping' = TRUE /\ ready' = FALSE
  /\ wanted' = NoFormat /\ busy' = TRUE /\ failed' = FALSE
  /\ open' \in {open, FALSE}
  /\ UNCHANGED <<running, format, bytes>>
-----------------------------------------------------------------------------
(* The bytes                                                                  *)

Accept ==
  /\ open /\ running /\ ready /\ ~busy
  /\ accepted' \in Nat /\ accepted' > accepted
  /\ UNCHANGED <<open, stopping, running, ready, control, format, sent>>

Send ==
  /\ running
  /\ sent' \in (sent + 1)..accepted
  /\ UNCHANGED <<open, stopping, running, ready, control, format, accepted>>
-----------------------------------------------------------------------------
(* The port                                                                   *)

Change ==
  /\ running /\ busy /\ sent = accepted
  /\ format' \in Formats
  /\ UNCHANGED <<open, stopping, running, ready, control, bytes>>

(* Neither the new format nor the old one can be had.                         *)
Die ==
  /\ running /\ busy /\ sent = accepted
  /\ running' = FALSE
  /\ UNCHANGED <<open, stopping, ready, control, format, bytes>>

Lost ==
  /\ ~running /\ ready' = FALSE
  /\ UNCHANGED <<open, stopping, running, control, format, bytes>>

(* A request is answered; another one may keep the port busy.                 *)
Answer ==
  /\ busy /\ (failed => failed')
  /\ busy' \in BOOLEAN /\ failed' \in BOOLEAN
  /\ Honest'
  /\ UNCHANGED <<open, stopping, running, ready, wanted, format, bytes>>

(* What a close finds in the transmitter is dropped.                          *)
Stop ==
  /\ stopping /\ running' = FALSE
  /\ sent' \in sent..accepted
  /\ UNCHANGED <<open, stopping, ready, control, format, accepted>>

Stopped ==
  /\ stopping /\ ~running
  /\ stopping' = FALSE
  /\ busy' \in BOOLEAN /\ (busy' => busy)
  /\ UNCHANGED <<open, running, ready, failed, wanted, format, bytes>>

(* A start that a close overtook is not reported; the close will undo it.     *)
Start ==
  /\ ~running /\ ~ready /\ (open \/ stopping)
  /\ running' \in BOOLEAN /\ format' \in Formats
  /\ accepted' = 0 /\ sent' = 0
  /\ UNCHANGED <<open, stopping, ready, control>>

Ready ==
  /\ open /\ ~stopping /\ running
  /\ ready' = TRUE
  /\ Honest'
  /\ UNCHANGED <<open, stopping, running, control, format, bytes>>

Next == \/ Open \/ (\E f \in Formats : Ask(f)) \/ Refuse \/ Withdraw \/ Close
        \/ Accept \/ Send
        \/ Change \/ Die \/ Lost \/ Answer \/ Stop \/ Stopped \/ Start \/ Ready

Spec == Init /\ [][Next]_vars
=============================================================================
