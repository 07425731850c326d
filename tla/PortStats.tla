------------------------------ MODULE PortStats ------------------------------
(* The counters of one port: core 1 changes them between two increments of   *)
(* stats_sequence, core 0 copies them field by field and keeps the copy only *)
(* if the sequence was even and did not move.  A step is one access to a     *)
(* shared variable.                                                          *)
EXTENDS Naturals

CONSTANTS
  Fields,    \* what a sample consists of: counters, watermarks, cursors
  Attempts,  \* UART_DRIVER_STATS_SNAPSHOT_ATTEMPTS
  MaxSeq     \* bound on the sequence; 2^32 in the code, where it wraps

ASSUME StatsAssumption == Attempts \in Nat \ {0} /\ MaxSeq \in Nat

VARIABLES
  seq,      \* stats_sequence
  value,    \* the fields; a value is the sequence at which it was written
  storage,  \* the rings have storage: the port was started once
  wpc,      \* core 1: "idle" or inside an "update"
  rpc,      \* core 0: "idle", before the "sequence", "read"ing
  attempt, first, sample,
  copied,   \* fields of the sample that are read
  result,   \* of the last call: "none", "sample", "failed"
  (* history *)
  called,   \* the sequence when the call began
  stable    \* the fields as each update left them, by sequence

worker == <<seq, value, storage, wpc, stable>>
reader == <<rpc, attempt, first, sample, copied, result, called>>
vars == <<seq, value, storage, wpc, rpc, attempt, first, sample, copied,
          result, called, stable>>

Values == [Fields -> 0..MaxSeq]

TypeOK ==
  /\ seq \in 0..MaxSeq /\ value \in Values /\ storage \in BOOLEAN
  /\ wpc \in {"idle", "update"}
  /\ rpc \in {"idle", "sequence", "read"}
  /\ attempt \in 0..(Attempts - 1)
  /\ first \in 0..MaxSeq /\ sample \in Values /\ copied \subseteq Fields
  /\ result \in {"none", "sample", "failed"}
  /\ called \in 0..MaxSeq
  /\ stable \in [0..MaxSeq -> Values]

Blank == [f \in Fields |-> 0]

Init ==
  /\ seq = 0 /\ value = Blank /\ storage \in BOOLEAN /\ wpc = "idle"
  /\ rpc = "idle" /\ attempt = 0 /\ first = 0 /\ sample = Blank
  /\ copied = {} /\ result = "none"
  /\ called = 0 /\ stable = [s \in 0..MaxSeq |-> Blank]
-----------------------------------------------------------------------------
(* Core 1.  Polling a port, stopping it, starting it and applying a format   *)
(* are updates, each of them bracketed.                                      *)

BeginUpdate ==
  /\ wpc = "idle" /\ seq + 1 < MaxSeq
  /\ seq' = seq + 1
  /\ wpc' = "update"
  /\ UNCHANGED <<value, storage, stable, reader>>

(* A start that gets as far as ring_buffer_init gives the rings storage.     *)
Change(f) ==
  /\ wpc = "update"
  /\ value' = [value EXCEPT ![f] = seq]
  /\ storage' \in {storage, TRUE}
  /\ UNCHANGED <<seq, wpc, stable, reader>>

EndUpdate ==
  /\ wpc = "update"
  /\ seq' = seq + 1
  /\ wpc' = "idle"
  /\ stable' = [stable EXCEPT ![seq + 1] = value]
  /\ UNCHANGED <<value, storage, reader>>
-----------------------------------------------------------------------------
(* Core 0: uart_driver_port_stats.                                           *)

Call ==
  /\ rpc = "idle"
  /\ rpc' = "sequence" /\ attempt' = 0 /\ result' = "none"
  /\ called' = seq
  /\ UNCHANGED <<first, sample, copied, worker>>

Fail == rpc' = "idle" /\ result' = "failed" /\ UNCHANGED attempt

(* The next turn of the loop; a worker that never rests cannot hold core 0.  *)
Retry == IF attempt + 1 < Attempts
         THEN /\ rpc' = "sequence" /\ attempt' = attempt + 1
              /\ UNCHANGED result
         ELSE Fail

TakeSequence ==
  /\ rpc = "sequence"
  /\ first' = seq /\ copied' = {}
  /\ IF seq % 2 = 1
     THEN Retry
     ELSE rpc' = "read" /\ UNCHANGED <<attempt, result>>
  /\ UNCHANGED <<sample, called, worker>>

NoStorage ==
  /\ rpc = "read" /\ copied = {} /\ ~storage
  /\ Fail
  /\ UNCHANGED <<first, sample, copied, called, worker>>

Copy(f) ==
  /\ rpc = "read" /\ f \notin copied
  /\ copied = {} => storage
  /\ sample' = [sample EXCEPT ![f] = value[f]]
  /\ copied' = copied \cup {f}
  /\ UNCHANGED <<rpc, attempt, first, result, called, worker>>

CheckSequence_OnlyParity ==
  /\ rpc = "read" /\ copied = Fields
  /\ IF seq % 2 = 0
     THEN rpc' = "idle" /\ result' = "sample" /\ UNCHANGED attempt
     ELSE Retry
  /\ UNCHANGED <<first, sample, copied, called, worker>>

CheckSequence ==
  /\ rpc = "read" /\ copied = Fields
  /\ IF seq = first
     THEN rpc' = "idle" /\ result' = "sample" /\ UNCHANGED attempt
     ELSE Retry
  /\ UNCHANGED <<first, sample, copied, called, worker>>

Worker == BeginUpdate \/ (\E f \in Fields : Change(f)) \/ EndUpdate
Reader == Call \/ TakeSequence \/ NoStorage
          \/ (\E f \in Fields : Copy(f)) \/ CheckSequence

Next == Worker \/ Reader

Spec == Init /\ [][Next]_vars
-----------------------------------------------------------------------------
(* Properties.                                                               *)

Even(s) == s % 2 = 0

(* A sample that is handed out is the set of counters as one update left     *)
(* them, never a mixture of two, and not older than the call.                *)
SampleCoherent ==
  result = "sample" =>
    \E s \in called..seq : Even(s) /\ sample = stable[s]

(* The sequence is odd exactly while the worker changes the counters.        *)
ParityInv == /\ wpc = "idle" <=> Even(seq)
             /\ wpc = "update" => seq < MaxSeq

(* Between updates the counters are what the last one left.                  *)
StableInv == wpc = "idle" => value = stable[seq]

(* The sequence was even when the sample was begun; as long as it does not   *)
(* move, what is copied is as the update before left it.                     *)
ReadingInv ==
  /\ called <= seq
  /\ rpc # "idle" => result = "none"
  /\ rpc = "read" => called <= first /\ first <= seq /\ Even(first)
  /\ rpc = "read" /\ first = seq =>
       \A f \in copied : sample[f] = stable[seq][f]

(* The inductive invariant.                                                  *)
StatsInv == TypeOK /\ ParityInv /\ StableInv /\ ReadingInv /\ SampleCoherent
=============================================================================
