------------------------------- MODULE TxPath -------------------------------
(* The transmit path of one port.  Core 0 copies what the host wrote into a  *)
(* ring; the worker on core 1 hands spans of the ring to a DMA channel, or,  *)
(* for short queues of a PIO port, puts them into the FIFO itself; the       *)
(* transmitter shifts bytes out as long as CTS allows.  A pending change of  *)
(* the line format must find all of it empty, and nothing tells the worker   *)
(* when a PIO shift register is: it has to infer that from a sticky flag.    *)
(*                                                                           *)
(* A step is one access of a core to state that another core, the DMA or the *)
(* transmitter changes too, with the private state around it.  A byte is its *)
(* position among all bytes accepted from the host.                          *)
EXTENDS Integers, Sequences

CONSTANTS
  Formats,     \* line formats
  Backends,    \* kinds of backend the port may have: "hw", "pio"
  Size,        \* capacity of the ring
  Depth,       \* capacity of the transmit FIFO
  Budget,      \* bytes a launch may take, by format: what goes out in 25 ms,
               \* at least one and, on a PIO port, at most 256
  Threshold,   \* backlog from which a PIO port launches a DMA
  MaxBytes,    \* bound: bytes the host writes
  MaxChanges,  \* bound: requests to change the format
  MaxRestarts  \* bound: closes and restarts

ASSUME TxAssumption ==
  /\ Backends \subseteq {"hw", "pio"} /\ Backends # {}
  /\ Size \in Nat \ {0} /\ Depth \in Nat \ {0} /\ Threshold \in Nat \ {0}
  /\ Formats # {} /\ "none" \notin Formats
  /\ Budget \in [Formats -> Nat \ {0}]
  /\ MaxBytes \in Nat /\ MaxChanges \in Nat /\ MaxRestarts \in Nat

VARIABLES
  backend,     \* the port's kind of backend, fixed when it is built
  (* ring *)
  cell,        \* storage
  producer, consumer,
  base,        \* bytes accepted before the cursors were last reset
  (* bridge, core 0 *)
  fpc, spanIn, copied,
  (* worker, core 1 *)
  wpc,
  active, inFlight, \* tx_dma_active (tx_active), tx_dma_bytes_in_flight
  spanOut,     \* consumer_reserved_count
  chunk,       \* bytes put into the FIFO and not yet committed
  waiting,     \* txstall_waiting
  pending, wanted, boundary, \* deferred line-coding request
  changes, restarts,
  (* DMA channel and transmitter *)
  dmaAt, dmaLeft,
  fifo,
  shifter,     \* the byte that was pulled, 0 if none
  started,     \* format its start bit was sent in, "none" before that
  stalled,     \* FDEBUG.TXSTALL, sticky
  format,      \* format the transmitter is set to
  (* history *)
  asked,       \* per accepted byte, the format in force
  line         \* what went out

ringVars   == <<cell, producer, consumer, base>>
fillVars   == <<fpc, spanIn, copied>>
launchVars == <<active, inFlight, spanOut, chunk, waiting>>
reqVars    == <<pending, wanted, boundary, changes>>
wireVars   == <<dmaAt, dmaLeft, fifo, shifter, started, stalled, format>>
history    == <<asked, line>>
vars == <<backend, ringVars, fillVars, wpc, launchVars, reqVars, restarts,
          wireVars, history>>

Least(a, b) == IF a < b THEN a ELSE b

Slot(cursor) == cursor % Size
Occupancy    == producer - consumer

Span_WholeRing(cursor, count) == count

(* Both spans end where the storage ends.                                    *)
Span(cursor, count) == Least(count, Size - Slot(cursor))

(* What a launch may take of a span.                                         *)
Launch(count) == Least(count, Budget[format])

Stored(i) == IF i < Size THEN cell[i] ELSE 0

TypeOK ==
  /\ backend \in Backends
  /\ cell \in [0..(Size - 1) -> Nat]
  /\ producer \in Nat /\ consumer \in Nat /\ base \in Nat
  /\ fpc \in {"idle", "copy", "commit"} /\ spanIn \in Nat /\ copied \in Nat
  /\ wpc \in {"service", "apply", "empty", "probe", "settle", "poll", "launch",
              "commit"}
  /\ active \in BOOLEAN /\ inFlight \in Nat /\ spanOut \in Nat
  /\ chunk \in Nat /\ waiting \in BOOLEAN
  /\ pending \in BOOLEAN /\ wanted \in Formats /\ boundary \in Nat
  /\ changes \in Nat /\ restarts \in Nat
  /\ dmaAt \in Nat /\ dmaLeft \in Nat
  /\ fifo \in Seq(Nat) /\ shifter \in Nat
  /\ started \in Formats \cup {"none"}
  /\ stalled \in BOOLEAN /\ format \in Formats
  /\ asked \in Seq(Formats)
  /\ line \in Seq([byte : Nat, format : Formats])

Init ==
  /\ backend \in Backends
  /\ cell = [i \in 0..(Size - 1) |-> 0]
  /\ producer = 0 /\ consumer = 0 /\ base = 0
  /\ fpc = "idle" /\ spanIn = 0 /\ copied = 0
  /\ wpc = "service"
  /\ active = FALSE /\ inFlight = 0 /\ spanOut = 0 /\ chunk = 0
  /\ waiting = FALSE
  /\ pending = FALSE /\ wanted \in Formats /\ boundary = 0
  /\ changes = 0 /\ restarts = 0
  /\ dmaAt = 0 /\ dmaLeft = 0 /\ fifo = <<>> /\ shifter = 0
  /\ started = "none" /\ stalled \in BOOLEAN /\ format = wanted
  /\ asked = <<>> /\ line = <<>>
-----------------------------------------------------------------------------
(* Core 0: uart_bridge_fill_tx, while the port admits bytes.                 *)

(* ring_buffer_write_span *)
FillReserve ==
  /\ fpc = "idle" /\ ~pending
  /\ Len(asked) < MaxBytes
  /\ Occupancy < Size
  /\ spanIn' = Span(producer, Size - Occupancy)
  /\ fpc' = "copy"
  /\ UNCHANGED <<backend, ringVars, copied, wpc, launchVars, reqVars, restarts,
                 wireVars, history>>

(* The reader copies what the host wrote straight into the span.             *)
FillCopy(k) ==
  /\ fpc = "copy" /\ k <= spanIn /\ Len(asked) + k <= MaxBytes
  /\ cell' = [i \in 0..(Size - 1) |->
                IF Slot(producer) <= i /\ i < Slot(producer) + k
                THEN base + producer + (i - Slot(producer)) + 1 ELSE cell[i]]
  /\ copied' = k
  /\ fpc' = "commit"
  /\ UNCHANGED <<backend, producer, consumer, base, spanIn, wpc, launchVars,
                 reqVars, restarts, wireVars, history>>

(* ring_buffer_commit_produced: only now does the worker see the bytes.      *)
FillCommit ==
  /\ fpc = "commit"
  /\ producer' = producer + copied
  /\ asked' = asked \o [i \in 1..copied |-> format]
  /\ fpc' = "idle" /\ spanIn' = 0 /\ copied' = 0
  /\ UNCHANGED <<backend, cell, consumer, base, wpc, launchVars, reqVars,
                 restarts, wireVars, line>>

(* Core 0 queued a request, which ends admission, and the worker took it.    *)
Request(f) ==
  /\ ~pending /\ fpc = "idle" /\ wpc = "service"
  /\ changes < MaxChanges
  /\ pending' = TRUE /\ wanted' = f /\ boundary' = producer
  /\ changes' = changes + 1
  /\ UNCHANGED <<backend, ringVars, fillVars, wpc, launchVars, restarts,
                 wireVars, history>>
-----------------------------------------------------------------------------
(* Core 1, the sweep: first a pending request, then the poll of the port.    *)

(* ring_buffer_commit_consumed: a commit that its reservation does not cover *)
(* is refused, and the callers do not look.                                  *)
CommitConsumed(count) ==
  IF count <= spanOut THEN consumer' = consumer + count /\ spanOut' = 0
                      ELSE UNCHANGED <<consumer, spanOut>>

PollCompletion_StaysActive ==
  IF active /\ dmaLeft = 0
  THEN CommitConsumed(inFlight) /\ inFlight' = 0 /\ UNCHANGED active
  ELSE UNCHANGED <<consumer, spanOut, inFlight, active>>

(* poll_tx_dma, poll_tx_completion: the span is given back when the channel  *)
(* has read all of it.                                                       *)
PollCompletion ==
  IF active /\ dmaLeft = 0
  THEN CommitConsumed(inFlight) /\ inFlight' = 0 /\ active' = FALSE
  ELSE UNCHANGED <<consumer, spanOut, inFlight, active>>

BoundaryDrained == consumer = boundary

(* Bytes from before the request have the line to themselves.                *)
Service ==
  /\ wpc = "service"
  /\ wpc' = IF pending /\ BoundaryDrained THEN "apply" ELSE "poll"
  /\ UNCHANGED <<backend, ringVars, fillVars, launchVars, reqVars, restarts,
                 wireVars, history>>

(* The request's second is over.                                             *)
GiveUp ==
  /\ wpc = "service" /\ pending
  /\ wpc' = "poll" /\ pending' = FALSE
  /\ UNCHANGED <<backend, ringVars, fillVars, launchVars, wanted, boundary,
                 changes, restarts, wireVars, history>>

(* prepare_baud_change of a PIO port, read by read.                          *)
ApplyPio ==
  /\ wpc = "apply" /\ backend = "pio"
  /\ PollCompletion
  /\ wpc' = IF active' THEN "poll" ELSE "empty"
  /\ UNCHANGED <<backend, cell, producer, base, fillVars, chunk, waiting,
                 reqVars, restarts, wireVars, history>>

ApplyFifo ==
  /\ wpc = "empty"
  /\ wpc' = IF fifo = <<>> THEN "probe" ELSE "poll"
  /\ UNCHANGED <<backend, ringVars, fillVars, launchVars, reqVars, restarts,
                 wireVars, history>>

(* pio_uart_txstall_sample: a flag that is found set may be an old one.  It  *)
(* is cleared, and only a flag that comes back counts.                       *)
ProbeStall ==
  /\ wpc = "probe"
  /\ waiting' = IF stalled THEN ~waiting ELSE waiting
  /\ stalled' = (stalled /\ waiting)
  /\ wpc' = IF stalled /\ waiting THEN "settle" ELSE "poll"
  /\ UNCHANGED <<backend, ringVars, fillVars, active, inFlight, spanOut, chunk,
                 reqVars, restarts, dmaAt, dmaLeft, fifo, shifter, started,
                 format, history>>

(* A PL011 says itself whether it is busy.                                   *)
HwBusy == fifo # <<>> \/ shifter # 0

ApplyHw ==
  /\ wpc = "apply" /\ backend = "hw"
  /\ wpc' = IF active \/ HwBusy THEN "poll" ELSE "settle"
  /\ UNCHANGED <<backend, ringVars, fillVars, launchVars, reqVars, restarts,
                 wireVars, history>>

(* The receiver is not quiet, or its DMA does not settle: try again later.   *)
ApplyDefer ==
  /\ wpc = "settle"
  /\ wpc' = "poll"
  /\ UNCHANGED <<backend, ringVars, fillVars, launchVars, reqVars, restarts,
                 wireVars, history>>

(* What is left in the FIFO or the shift register would be lost here.        *)
SetFormat(f) ==
  /\ format' = f
  /\ fifo' = <<>> /\ shifter' = 0 /\ started' = "none"

(* With interrupts off the FIFOs are looked at again; then the transmitter   *)
(* is set up anew.                                                           *)
Apply ==
  /\ wpc = "settle" /\ (backend = "pio" => fifo = <<>>)
  /\ SetFormat(wanted)
  /\ active' = FALSE /\ inFlight' = 0
  /\ waiting' = (backend = "hw" /\ waiting)
  /\ dmaLeft' = IF backend = "hw" THEN 0 ELSE dmaLeft
  /\ pending' = FALSE
  /\ wpc' = "poll"
  /\ UNCHANGED <<backend, ringVars, fillVars, spanOut, chunk, wanted, boundary,
                 changes, restarts, dmaAt, stalled, history>>
-----------------------------------------------------------------------------
(* The poll.                                                                 *)

LaunchAllowed_NotWhilePending == ~pending

LaunchAllowed == ~pending \/ ~BoundaryDrained

Poll ==
  /\ wpc = "poll"
  /\ PollCompletion
  /\ wpc' = IF LaunchAllowed /\ ~active' /\ producer # consumer'
            THEN "launch" ELSE "service"
  /\ UNCHANGED <<backend, cell, producer, base, fillVars, chunk, waiting,
                 reqVars, restarts, wireVars, history>>

Clear_Ignored == TRUE

(* No second budget behind bytes that still wait in the transmitter.         *)
Clear == IF backend = "hw" THEN ~HwBusy ELSE fifo = <<>>

LaunchBlocked_Spins == wpc = "launch" /\ ~Clear /\ UNCHANGED vars

LaunchBlocked ==
  /\ wpc = "launch" /\ ~Clear
  /\ wpc' = "service"
  /\ UNCHANGED <<backend, ringVars, fillVars, launchVars, reqVars, restarts,
                 wireVars, history>>

ProbeRestarts_Keeps == UNCHANGED waiting

(* What the probe has seen says nothing about bytes launched after it.       *)
ProbeRestarts == waiting' = FALSE

(* start_tx_dma: the channel reads the span while core 0 goes on filling.    *)
StartDma ==
  /\ wpc = "launch" /\ Clear
  /\ backend = "pio" => Occupancy >= Threshold
  /\ LET span == Span(consumer, Occupancy)
     IN  /\ spanOut' = span
         /\ inFlight' = Launch(span) /\ dmaLeft' = Launch(span)
  /\ dmaAt' = Slot(consumer)
  /\ active' = TRUE /\ ProbeRestarts
  /\ wpc' = "service"
  /\ UNCHANGED <<backend, ringVars, fillVars, chunk, reqVars, restarts, fifo,
                 shifter, started, stalled, format, history>>

(* drain_tx_fifo: put, ...                                                   *)
DrainPut ==
  /\ wpc = "launch" /\ Clear
  /\ backend = "pio" /\ Occupancy < Threshold
  /\ LET span  == Span(consumer, Occupancy)
         count == Launch(Least(span, Depth - Len(fifo)))
     IN  /\ spanOut' = span /\ chunk' = count
         /\ fifo' = fifo \o [i \in 1..count |-> Stored(Slot(consumer) + i - 1)]
  /\ ProbeRestarts
  /\ wpc' = "commit"
  /\ UNCHANGED <<backend, ringVars, fillVars, active, inFlight, reqVars,
                 restarts, dmaAt, dmaLeft, shifter, started, stalled, format,
                 history>>

(* ... then commit.                                                          *)
DrainCommit ==
  /\ wpc = "commit"
  /\ CommitConsumed(chunk) /\ chunk' = 0
  /\ wpc' = "service"
  /\ UNCHANGED <<backend, cell, producer, base, fillVars, active, inFlight,
                 waiting, reqVars, restarts, wireVars, history>>

(* Deinit and start: a close and the next open, or a restart for a request   *)
(* made before the open.  Core 0 is kept out of the ring meanwhile           *)
(* (BridgeExclusion of UartPort); TXSTALL stays as it was.                   *)
Restart(f) ==
  /\ wpc = "service" /\ fpc = "idle" /\ restarts < MaxRestarts
  /\ restarts' = restarts + 1
  /\ base' = base + producer /\ producer' = 0 /\ consumer' = 0
  /\ active' = FALSE /\ inFlight' = 0 /\ spanOut' = 0 /\ waiting' = FALSE
  /\ dmaLeft' = 0 /\ SetFormat(f)
  /\ pending' = FALSE
  /\ UNCHANGED <<backend, cell, fillVars, wpc, chunk, wanted, boundary,
                 changes, dmaAt, stalled, history>>
-----------------------------------------------------------------------------
(* DMA channel and transmitter.                                              *)

DmaMove ==
  /\ dmaLeft > 0 /\ Len(fifo) < Depth
  /\ fifo' = Append(fifo, Stored(dmaAt))
  /\ dmaAt' = dmaAt + 1 /\ dmaLeft' = dmaLeft - 1
  /\ UNCHANGED <<backend, ringVars, fillVars, wpc, launchVars, reqVars,
                 restarts, shifter, started, stalled, format, history>>

(* pull, with a byte ...                                                     *)
Pull ==
  /\ shifter = 0 /\ fifo # <<>>
  /\ shifter' = Head(fifo) /\ fifo' = Tail(fifo)
  /\ UNCHANGED <<backend, ringVars, fillVars, wpc, launchVars, reqVars,
                 restarts, dmaAt, dmaLeft, started, stalled, format, history>>

(* ... and without one.                                                      *)
Stall ==
  /\ backend = "pio" /\ shifter = 0 /\ fifo = <<>> /\ ~stalled
  /\ stalled' = TRUE
  /\ UNCHANGED <<backend, ringVars, fillVars, wpc, launchVars, reqVars,
                 restarts, dmaAt, dmaLeft, fifo, shifter, started, format,
                 history>>

(* CTS, looked at between frames only, decides when this happens.            *)
StartBit ==
  /\ shifter # 0 /\ started = "none"
  /\ started' = format
  /\ UNCHANGED <<backend, ringVars, fillVars, wpc, launchVars, reqVars,
                 restarts, dmaAt, dmaLeft, fifo, shifter, stalled, format,
                 history>>

StopBit ==
  /\ started # "none"
  /\ line' = Append(line, [byte |-> shifter, format |-> started])
  /\ shifter' = 0 /\ started' = "none"
  /\ UNCHANGED <<backend, ringVars, fillVars, wpc, launchVars, reqVars,
                 restarts, dmaAt, dmaLeft, fifo, stalled, format, asked>>
-----------------------------------------------------------------------------
Fill     == FillReserve \/ (\E k \in 1..Size : FillCopy(k)) \/ FillCommit
ApplyTry == ApplyPio \/ ApplyFifo \/ ProbeStall \/ ApplyHw \/ ApplyDefer
            \/ Apply
PollTx   == Poll \/ LaunchBlocked \/ StartDma \/ DrainPut \/ DrainCommit
Shift    == Pull \/ Stall \/ StopBit

Host == \E f \in Formats : Request(f) \/ Restart(f)

(* Everything is sent and nobody asks for anything any more: the worker goes *)
(* on sweeping, so the system never stops.                                   *)
Next == Fill \/ Host \/ Service \/ GiveUp \/ ApplyTry \/ PollTx
        \/ DmaMove \/ Shift \/ StartBit

Spec == Init /\ [][Next]_vars

Worker == Service \/ ApplyTry \/ PollTx

(* The worker sweeps, the DMA serves its requests and a frame that began     *)
(* ends.  The receiver is quiet from time to time, and so CTS is granted.    *)
Fairness == /\ WF_vars(FillCommit) /\ WF_vars(\E k \in 1..Size : FillCopy(k))
            /\ WF_vars(Worker) /\ SF_vars(Apply)
            /\ WF_vars(DmaMove) /\ WF_vars(Shift) /\ SF_vars(StartBit)

FairSpec == Spec /\ Fairness
-----------------------------------------------------------------------------
(* Properties.                                                               *)

(* Bytes handed to the FIFO that the consumer cursor does not show yet.      *)
Handed == chunk + (inFlight - dmaLeft)

(* All bytes that were handed over or dropped.                               *)
Handover == base + consumer + Handed

(* Bytes that have left, or were dropped by a restart.                       *)
Gone == Handover - Len(fifo) - (IF shifter = 0 THEN 0 ELSE 1)

(* The transmit path is a TxStream.                                          *)
Stream == INSTANCE TxStream WITH next <- Gone, Chunk <- Size
ImplementsTxStream == Stream!Spec

(* A flag that came back after it was cleared, with nothing launched since,  *)
(* says that the shift register is empty: the worker's only evidence that a  *)
(* format change cuts no byte in two.                                        *)
ProbeHonest ==
  backend = "pio" /\ waiting /\ stalled =>
    shifter = 0 /\ fifo = <<>> /\ dmaLeft = 0

(* At no time is more than one launch's budget committed to the transmitter, *)
(* so a format change or a close waits for at most that and the byte being   *)
(* shifted.                                                                  *)
BacklogBounded == Len(fifo) + dmaLeft <= Budget[format]

(* The worker never waits in place for a transmitter that CTS may hold for   *)
(* ever, and neither the DMA nor the transmitter waits for the worker: what  *)
(* has something to do can do it.                                            *)
TxNeverBlocks ==
  /\ ENABLED <<Worker>>_vars
  /\ wpc = "settle" => ENABLED <<Apply>>_vars
  /\ dmaLeft > 0 /\ Len(fifo) < Depth => ENABLED <<DmaMove>>_vars
  /\ shifter # 0 /\ started = "none" => ENABLED <<StartBit>>_vars
  /\ \/ started # "none"
     \/ shifter = 0 /\ fifo # <<>>
     \/ backend = "pio" /\ shifter = 0 /\ fifo = <<>> /\ ~stalled
     => ENABLED <<Shift>>_vars

(* Every byte that was accepted goes out, or is dropped by a restart: as     *)
(* long as one waits the path advances past the next.                        *)
Drains ==
  \A n \in 0..(MaxBytes - 1) : Gone = n /\ n < Len(asked) ~> Gone > n

(* A change of the format is applied or given up: until then the bytes       *)
(* before it go out, and with the last of them gone the probe comes to an    *)
(* end.                                                                      *)
FormatSettles ==
  \A n \in 0..MaxBytes : pending /\ Gone = n ~> ~pending \/ Gone > n
=============================================================================
