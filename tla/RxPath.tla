------------------------------- MODULE RxPath -------------------------------
(* The receive path of one port: a DMA channel writes the bytes of the wire  *)
(* into a ring and nothing stops it; the worker on core 1 turns the          *)
(* channel's transfer count into the ring's producer cursor; the bridge on   *)
(* core 0 copies a span out of the ring, decides afterwards whether the DMA  *)
(* was in it meanwhile, and hands the copy to the host.  No lock: only the   *)
(* order of single reads and writes, which is therefore the grain of steps.  *)
(*                                                                           *)
(* A byte is its position in the stream of the wire (1, 2, ...), so a copy   *)
(* that mixes old and new bytes can be told from a good one.                 *)
EXTENDS Integers, Sequences

CONSTANTS
  Size,         \* ring capacity; the code requires a power of two
  Modulus,      \* the cursors count modulo this (2^32 in the code)
  Countdown,    \* transfer count a channel is armed with
  SnapshotCap,  \* capacity of the bridge's copy buffer and its pass budget
  Backends,     \* kinds of backend the port may have: "hw", "pio"
  MaxBytes,     \* bound: bytes the wire delivers
  MaxApplies    \* bound: attempts to change the line format

ASSUME RxAssumption ==
  /\ Size \in Nat \ {0} /\ Modulus \in Nat /\ Countdown \in Nat \ {0}
  /\ SnapshotCap \in Nat \ {0} /\ Backends \subseteq {"hw", "pio"}
  /\ MaxBytes \in Nat /\ MaxApplies \in Nat
  /\ 2 * Size <= Modulus /\ Modulus % Size = 0 /\ Countdown < Modulus

VARIABLES
  backend,      \* the port's kind of backend, fixed when it is built
  (* DMA channel and its storage *)
  received,     \* bytes the DMA moved so far
  cell,         \* ring storage: position of the byte last stored, 0 if none
  writeAt,      \* WRITE_ADDR, as an offset into the storage
  remaining,    \* TRANS_COUNT
  channel,      \* "run", "paused" (EN clear), "done", "off" (aborted), "dead"
  irqPending,   \* the channel's completion is latched
  irqOn,        \* the channel's interrupt is enabled
  (* worker, core 1 *)
  wpc, site, wprog, wprod, applies,
  lastProgress, \* rx_dma_last_progress
  (* shared cursors and the parity of stats_sequence *)
  producer, consumer,
  updating,     \* stats_sequence is odd
  moved,        \* stats_sequence differs from the bridge's sample of it
  (* bridge, core 0 *)
  cpc, reservedSeq, reservedCount, offered, snap, cprog, cprod, accepted,
  overflow,     \* overflow_count, saturating
  host          \* everything the USB FIFO accepted

dmaVars    == <<received, cell, writeAt, remaining, channel, irqPending,
                irqOn>>
wrkVars    == <<backend, wpc, site, wprog, wprod, applies, lastProgress>>
seqVars    == <<updating, moved>>
spanVars   == <<reservedSeq, reservedCount>>
copyVars   == <<offered, snap, cprog, cprod>>
bridgeVars == <<cpc, spanVars, copyVars, accepted, overflow, consumer, host>>
vars == <<dmaVars, wrkVars, producer, seqVars, bridgeVars>>

WorkerPcs == {"idle", "sample", "store", "produce", "rearm", "end", "decide",
              "settle", "abort", "stopped", "configure"}
BridgePcs == {"idle", "recover", "reserve", "sample", "copy", "check",
              "progress", "last", "live", "seq", "reject", "write", "commit"}
Cursors == 0..(Modulus - 1)

TypeOK ==
  /\ backend \in Backends
  /\ received \in 0..MaxBytes /\ cell \in [0..(Size - 1) -> 0..MaxBytes]
  /\ writeAt \in 0..(Size - 1) /\ remaining \in 0..Countdown
  /\ channel \in {"run", "paused", "done", "off", "dead"}
  /\ irqPending \in BOOLEAN /\ irqOn \in BOOLEAN
  /\ wpc \in WorkerPcs /\ site \in {"poll", "try", "finish"}
  /\ wprog \in 0..Countdown /\ wprod \in 0..Countdown
  /\ applies \in 0..MaxApplies /\ lastProgress \in 0..Countdown
  /\ producer \in Cursors /\ consumer \in Cursors
  /\ updating \in BOOLEAN /\ moved \in BOOLEAN
  /\ cpc \in BridgePcs /\ reservedSeq \in Cursors
  /\ reservedCount \in 0..Size /\ offered \in 0..SnapshotCap
  /\ snap \in Seq(0..MaxBytes) /\ Len(snap) <= offered
  /\ accepted \in 0..SnapshotCap
  /\ cprog \in 0..Countdown /\ cprod \in 0..Countdown
  /\ overflow \in Cursors /\ host \in Seq(0..MaxBytes)

Init ==
  /\ backend \in Backends
  /\ received = 0 /\ cell = [i \in 0..(Size - 1) |-> 0] /\ writeAt = 0
  /\ remaining = Countdown /\ channel = "run"
  /\ irqPending = FALSE /\ irqOn = TRUE
  /\ wpc = "idle" /\ site = "poll" /\ wprog = 0 /\ wprod = 0 /\ applies = 0
  /\ lastProgress = 0
  /\ producer = 0 /\ consumer = 0 /\ updating = FALSE /\ moved = FALSE
  /\ cpc = "idle" /\ reservedSeq = 0 /\ reservedCount = 0 /\ offered = 0
  /\ snap = <<>> /\ cprog = 0 /\ cprod = 0 /\ accepted = 0
  /\ overflow = 0 /\ host = <<>>

-----------------------------------------------------------------------------
(* Unsigned arithmetic on the cursors, and what is derived from them.        *)

Minus(a, b) == (a - b) % Modulus
Plus(a, b)  == (a + b) % Modulus
Least(a, b) == IF a < b THEN a ELSE b

(* uart_saturating_add_u32 *)
SaturatingAdd(a, b) == Least(a + b, Modulus - 1)

Available == Least(Minus(producer, consumer), Size)

PendingOverflow == IF Minus(producer, consumer) > Size
                   THEN Minus(producer, consumer) - Size ELSE 0

Progress == Countdown - remaining

(* Bytes between two samples of a countdown that was re-armed at most once.  *)
BytesProduced(progress, last) ==
  IF progress < last THEN (Countdown - last) + progress ELSE progress - last

Busy        == channel \in {"run", "paused"}
ShouldRearm == ~Busy /\ remaining = 0

(* Absolute positions behind the cursors.  They are well defined because the *)
(* wire never runs Modulus bytes ahead of a pass of the bridge, nor a whole  *)
(* countdown ahead of a poll: see DmaWrite.                                  *)
Lag         == Minus(received, consumer)
Consumed    == received - Lag
Unpublished == Minus(received, producer)
-----------------------------------------------------------------------------
(* Hardware: the DMA channel and its completion interrupt.                   *)

(* One byte moves from the UART to memory and the transfer count follows.  A *)
(* paused channel may still retire the beat in flight until the worker saw   *)
(* the count settle.  Two bounds on speed stand for the sizes in the code: a *)
(* pass of core 0 per 2^32 bytes and a sweep of core 1 per countdown.        *)
DmaWrite ==
  /\ received < MaxBytes
  /\ Lag < Modulus - 1
  /\ Unpublished < Countdown - 1
  /\ channel = "run" \/ (channel = "paused" /\ wpc = "settle")
  /\ remaining > 0
  /\ received' = received + 1
  /\ cell' = [cell EXCEPT ![writeAt] = received + 1]
  /\ writeAt' = (writeAt + 1) % Size
  /\ remaining' = remaining - 1
  /\ IF remaining = 1 THEN channel' = "done" /\ irqPending' = TRUE
                      ELSE UNCHANGED <<channel, irqPending>>
  /\ UNCHANGED <<irqOn, wrkVars, producer, seqVars, bridgeVars>>

Rearm == remaining' = Countdown /\ channel' = "run"

(* The interrupt handler acknowledges, then re-arms a channel that is done.  *)
(* It runs between any two steps of the worker except inside PollRearm; in a *)
(* format change the channel's own interrupt is off from pause to restart.   *)
RxDmaIrq ==
  /\ irqPending /\ irqOn
  /\ irqPending' = FALSE
  /\ IF ShouldRearm THEN Rearm ELSE UNCHANGED <<remaining, channel>>
  /\ UNCHANGED <<received, cell, writeAt, irqOn, wrkVars, producer, seqVars,
                 bridgeVars>>
-----------------------------------------------------------------------------
(* Worker: the poll of the port and the service of a pending format change,  *)
(* each between two increments of stats_sequence.  First the poll ...        *)

PollBegin ==
  /\ wpc = "idle" /\ channel # "dead"
  /\ wpc' = "sample" /\ site' = "poll"
  /\ updating' = TRUE /\ moved' = TRUE
  /\ UNCHANGED <<backend, dmaVars, wprog, wprod, applies, lastProgress,
                 producer, bridgeVars>>

(* publish_rx, read by read: the count; then the stores, in this order.      *)
PublishSample ==
  /\ wpc = "sample"
  /\ wpc' = "store"
  /\ wprog' = Progress
  /\ wprod' = BytesProduced(Progress, lastProgress)
  /\ UNCHANGED <<backend, dmaVars, site, applies, lastProgress, producer,
                 seqVars, bridgeVars>>

PublishLast ==
  /\ wpc = "store"
  /\ wpc' = "produce"
  /\ lastProgress' = wprog
  /\ UNCHANGED <<backend, dmaVars, site, wprog, wprod, applies, producer,
                 seqVars, bridgeVars>>

PublishProduce ==
  /\ wpc = "produce"
  /\ producer' = Plus(producer, wprod)
  /\ wpc' = CASE site = "poll"   -> "rearm"
              [] site = "try"    -> "decide"
              [] site = "finish" -> "abort"
  /\ wprog' = 0 /\ wprod' = 0
  /\ UNCHANGED <<backend, dmaVars, site, applies, lastProgress, seqVars,
                 bridgeVars>>

(* The fallback re-arm: checked again with interrupts off, latch cleared.    *)
PollRearm ==
  /\ wpc = "rearm"
  /\ wpc' = "end"
  /\ IF ShouldRearm THEN Rearm /\ irqPending' = FALSE
                    ELSE UNCHANGED <<remaining, channel, irqPending>>
  /\ UNCHANGED <<backend, received, cell, writeAt, irqOn, site, wprog, wprod,
                 applies, lastProgress, producer, seqVars, bridgeVars>>

EndUpdate ==
  /\ wpc = "end"
  /\ wpc' = "idle" /\ site' = "poll"
  /\ updating' = FALSE /\ moved' = TRUE
  /\ UNCHANGED <<backend, dmaVars, wprog, wprod, applies, lastProgress,
                 producer, bridgeVars>>

(* ... then a format change.  The PIO backend starts every attempt with a    *)
(* publish while the channel still runs.                                     *)
ApplyStart_NoBracket ==
  /\ wpc = "idle" /\ channel # "dead" /\ applies < MaxApplies
  /\ applies' = applies + 1
  /\ wpc' = IF backend = "pio" THEN "sample" ELSE "decide"
  /\ site' = "try"
  /\ UNCHANGED <<backend, dmaVars, wprog, wprod, lastProgress, producer,
                 seqVars, bridgeVars>>

ApplyStart ==
  /\ wpc = "idle" /\ channel # "dead" /\ applies < MaxApplies
  /\ applies' = applies + 1
  /\ updating' = TRUE /\ moved' = TRUE
  /\ wpc' = IF backend = "pio" THEN "sample" ELSE "decide"
  /\ site' = "try"
  /\ UNCHANGED <<backend, dmaVars, wprog, wprod, lastProgress, producer,
                 bridgeVars>>

(* Traffic defers the change to a later sweep ...                            *)
ApplyDefer ==
  /\ wpc = "decide"
  /\ wpc' = "end"
  /\ UNCHANGED <<backend, dmaVars, site, wprog, wprod, applies, lastProgress,
                 producer, seqVars, bridgeVars>>

(* ... or the port is idle and the channel is paused.                        *)
ApplyPause ==
  /\ wpc = "decide"
  /\ wpc' = "settle"
  /\ irqOn' = FALSE
  /\ channel' = IF channel = "run" THEN "paused" ELSE channel
  /\ UNCHANGED <<backend, received, cell, writeAt, remaining, irqPending,
                 site, wprog, wprod, applies, lastProgress, producer, seqVars,
                 bridgeVars>>

(* The count never settled: resume the channel and retry in a later sweep.   *)
ApplyUnsettled ==
  /\ wpc = "settle"
  /\ wpc' = "end"
  /\ irqOn' = TRUE
  /\ channel' = IF channel = "paused" THEN "run" ELSE channel
  /\ UNCHANGED <<backend, received, cell, writeAt, remaining, irqPending,
                 site, wprog, wprod, applies, lastProgress, producer, seqVars,
                 bridgeVars>>

ApplySettled_NoPublish ==
  /\ wpc = "settle"
  /\ wpc' = "abort" /\ site' = "finish"
  /\ UNCHANGED <<backend, dmaVars, wprog, wprod, applies, lastProgress,
                 producer, seqVars, bridgeVars>>

ApplySettled ==
  /\ wpc = "settle"
  /\ wpc' = "sample" /\ site' = "finish"
  /\ UNCHANGED <<backend, dmaVars, wprog, wprod, applies, lastProgress,
                 producer, seqVars, bridgeVars>>

(* Abort does not promise a usable count, so it may also read as zero.       *)
ApplyAbort ==
  /\ wpc = "abort"
  /\ wpc' = "stopped"
  /\ channel' = "off" /\ irqPending' = FALSE
  /\ remaining' \in {remaining, 0}
  /\ UNCHANGED <<backend, received, cell, writeAt, irqOn, site, wprog, wprod,
                 applies, lastProgress, producer, seqVars, bridgeVars>>

StartRxDmaMark_Keeps ==
  /\ wpc = "stopped"
  /\ wpc' = "configure"
  /\ UNCHANGED <<backend, dmaVars, site, wprog, wprod, applies, lastProgress,
                 producer, seqVars, bridgeVars>>

(* start_rx_dma -- because a byte arrived after all, because the new format  *)
(* is in place, or because the old one was restored: the mark goes first,    *)
(* then the channel is armed at the producer's cell.  A change the PIO       *)
(* backend completed ends in a poll.                                         *)
StartRxDmaMark ==
  /\ wpc = "stopped"
  /\ wpc' = "configure"
  /\ lastProgress' = 0
  /\ UNCHANGED <<backend, dmaVars, site, wprog, wprod, applies, producer,
                 seqVars, bridgeVars>>

StartRxDmaArm ==
  /\ wpc = "configure"
  /\ \/ wpc' = "end" /\ UNCHANGED site
     \/ backend = "pio" /\ wpc' = "sample" /\ site' = "poll"
  /\ writeAt' = producer % Size
  /\ Rearm /\ irqPending' = FALSE /\ irqOn' = TRUE
  /\ UNCHANGED <<backend, received, cell, wprog, wprod, applies, lastProgress,
                 producer, seqVars, bridgeVars>>

(* Neither format can be configured: the port is dropped.                    *)
ApplyDead ==
  /\ wpc = "configure" /\ backend = "hw"
  /\ wpc' = "end" /\ channel' = "dead"
  /\ UNCHANGED <<backend, received, cell, writeAt, remaining, irqPending,
                 irqOn, site, wprog, wprod, applies, lastProgress, producer,
                 seqVars, bridgeVars>>
-----------------------------------------------------------------------------
(* Bridge, core 0.  A pass ends in `Done', which also forgets what the pass  *)
(* no longer needs.                                                          *)

Forget == offered' = 0 /\ snap' = <<>> /\ cprog' = 0 /\ cprod' = 0
Done   == cpc' = "idle" /\ Forget

Begin ==
  /\ cpc = "idle" /\ channel # "dead"
  /\ cpc' = "recover"
  /\ UNCHANGED <<dmaVars, wrkVars, producer, seqVars, spanVars, copyVars,
                 accepted, overflow, consumer, host>>

(* ring_buffer_recover_overflow: skip what the producer has overwritten.     *)
RecoverOverflow ==
  /\ consumer' = Plus(consumer, PendingOverflow)
  /\ overflow' = SaturatingAdd(overflow, PendingOverflow)
  /\ reservedCount' = IF PendingOverflow = 0 THEN reservedCount ELSE 0

(* A full USB FIFO leaves it at that: the pass only retires the overrun.     *)
RecoverOnly ==
  /\ cpc = "recover"
  /\ RecoverOverflow /\ Done
  /\ UNCHANGED <<dmaVars, wrkVars, producer, seqVars, reservedSeq, accepted,
                 host>>

Recover ==
  /\ cpc = "recover"
  /\ RecoverOverflow
  /\ cpc' = "reserve"
  /\ UNCHANGED <<dmaVars, wrkVars, producer, seqVars, reservedSeq, copyVars,
                 accepted, host>>

(* ring_buffer_read_span after its recovery; the producer is read again, and *)
(* the span ends with the storage.  The host's free space bounds the offer.  *)
Reserve ==
  /\ cpc = "reserve"
  /\ LET length == Least(Available, Size - (consumer % Size))
     IN  IF length = 0
         THEN /\ reservedCount' = 0 /\ Done
              /\ UNCHANGED reservedSeq
         ELSE /\ reservedSeq' = consumer /\ reservedCount' = length
              /\ offered' \in 1..Least(length, SnapshotCap)
              /\ cpc' = "sample"
              /\ UNCHANGED <<snap, cprog, cprod>>
  /\ UNCHANGED <<dmaVars, wrkVars, producer, seqVars, accepted, overflow,
                 consumer, host>>

SampleSequence_IgnoresOdd ==
  /\ cpc = "sample"
  /\ cpc' = "copy" /\ moved' = FALSE
  /\ UNCHANGED <<dmaVars, wrkVars, producer, updating, spanVars, copyVars,
                 accepted, overflow, consumer, host>>

SampleSequence ==
  /\ cpc = "sample"
  /\ IF updating THEN Done /\ UNCHANGED moved
                 ELSE /\ cpc' = "copy" /\ moved' = FALSE
                      /\ UNCHANGED copyVars
  /\ UNCHANGED <<dmaVars, wrkVars, producer, updating, spanVars, accepted,
                 overflow, consumer, host>>

(* memcpy, byte by byte, while the DMA may be writing the same cells.        *)
CopyByte ==
  /\ cpc = "copy"
  /\ snap' = Append(snap, cell[(reservedSeq + Len(snap)) % Size])
  /\ cpc' = IF Len(snap) + 1 = offered THEN "check" ELSE "copy"
  /\ UNCHANGED <<dmaVars, wrkVars, producer, seqVars, spanVars, offered,
                 cprog, cprod, accepted, overflow, consumer, host>>

CheckGoesTo(ok, next) ==
  /\ cpc' = IF ok THEN next ELSE "reject"
  /\ UNCHANGED <<dmaVars, wrkVars, producer, seqVars, spanVars, offered, snap,
                 accepted, overflow, consumer, host>>

(* ring_buffer_read_span_is_current                                          *)
CheckSpan ==
  /\ cpc = "check"
  /\ CheckGoesTo(/\ consumer = reservedSeq /\ reservedCount # 0
                 /\ Minus(producer, reservedSeq) <= Size, "progress")
  /\ UNCHANGED <<cprog, cprod>>

(* rx_snapshot_is_current: the count, the worker's mark, the producer.       *)
CheckProgress ==
  /\ cpc = "progress"
  /\ cprog' = Progress
  /\ CheckGoesTo(channel # "dead", "last")
  /\ UNCHANGED cprod

CheckLast ==
  /\ cpc = "last"
  /\ cprod' = BytesProduced(cprog, lastProgress)
  /\ CheckGoesTo(TRUE, "live")
  /\ UNCHANGED cprog

CheckLive ==
  /\ cpc = "live"
  /\ CheckGoesTo(Minus(Plus(producer, cprod), reservedSeq) <= Size, "seq")
  /\ UNCHANGED <<cprog, cprod>>

CheckSequence ==
  /\ cpc = "seq"
  /\ CheckGoesTo(~moved, "write")
  /\ UNCHANGED <<cprog, cprod>>

Reject ==
  /\ cpc = "reject"
  /\ RecoverOverflow /\ Done
  /\ UNCHANGED <<dmaVars, wrkVars, producer, seqVars, reservedSeq, accepted,
                 host>>

(* The USB FIFO accepts any part of the copy, or nothing.                    *)
Write ==
  /\ cpc = "write"
  /\ \E count \in 0..offered :
       IF count = 0
       THEN Done /\ UNCHANGED <<accepted, host>>
       ELSE /\ host' = host \o SubSeq(snap, 1, count)
            /\ accepted' = count
            /\ cpc' = "commit"
            /\ UNCHANGED copyVars
  /\ UNCHANGED <<dmaVars, wrkVars, producer, seqVars, spanVars, overflow,
                 consumer>>

LostAtCommit_Whole(advance) == advance

(* Of the bytes the producer lapped, the host has the accepted ones.         *)
LostAtCommit(advance) == advance - accepted

(* ring_buffer_commit_snapshot_consumed: what the host took stays taken even *)
(* if the producer lapped the span since; what lies between is lost.  A full *)
(* write may start over in the same pass.                                    *)
Commit ==
  /\ cpc = "commit"
  /\ consumer = reservedSeq /\ accepted <= reservedCount
  /\ LET advance == Minus(producer, reservedSeq) - Size
     IN  IF advance > accepted
         THEN /\ overflow' = SaturatingAdd(overflow, LostAtCommit(advance))
              /\ consumer' = Plus(reservedSeq, advance)
         ELSE /\ consumer' = Plus(reservedSeq, accepted)
              /\ UNCHANGED overflow
  /\ reservedCount' = 0 /\ accepted' = 0
  /\ \/ Done
     \/ /\ accepted = offered
        /\ cpc' = "recover" /\ Forget
  /\ UNCHANGED <<dmaVars, wrkVars, producer, seqVars, reservedSeq, host>>
-----------------------------------------------------------------------------
Worker == \/ PollBegin \/ PublishSample \/ PublishLast \/ PublishProduce
          \/ PollRearm \/ EndUpdate
          \/ ApplyStart \/ ApplyDefer \/ ApplyPause \/ ApplyUnsettled
          \/ ApplySettled \/ ApplyAbort \/ StartRxDmaMark \/ StartRxDmaArm
          \/ ApplyDead
Bridge == \/ Begin \/ RecoverOnly \/ Recover \/ Reserve \/ SampleSequence
          \/ CopyByte \/ CheckSpan \/ CheckProgress \/ CheckLast \/ CheckLive
          \/ CheckSequence \/ Reject \/ Write \/ Commit

Next == DmaWrite \/ RxDmaIrq \/ Worker \/ Bridge

Spec == Init /\ [][Next]_vars
-----------------------------------------------------------------------------
(* Properties.                                                               *)

(* Bytes handed over or given up; the host has its part of a span before the *)
(* cursor follows.                                                           *)
Position == Consumed + accepted

(* A copy the bridge is about to hand to USB holds the bytes of its span and *)
(* nothing newer, whatever the DMA overwrote while it was being copied: this *)
(* is what the three checks after the copy in uart_bridge_drain_rx are for.  *)
SnapshotIntact ==
  cpc = "write" => \A i \in 1..Len(snap) : snap[i] = Consumed + i

(* Every byte the host never got is in overflow_count, once (until the count *)
(* saturates), whichever of the four places retired it: the two recoveries,  *)
(* the one after a rejected copy, and the commit of a lapped copy.           *)
LossCounted == overflow = Least(Position - Len(host), Modulus - 1)

(* What the worker has yet to publish can be computed from the transfer      *)
(* count and its last sample, across every re-arm by interrupt or by poll,   *)
(* except between the two stores of a publish and in a format change between *)
(* abort and restart.                                                        *)
ProgressAccountsForBytes ==
  wpc \notin {"produce", "stopped", "configure"} /\ channel # "dead" =>
    Unpublished = BytesProduced(Progress, lastProgress)

(* The path as a lossy stream: in order, no duplicate, and no byte is given  *)
(* up that the ring still holds.                                             *)
Stream == INSTANCE LossyStream WITH sent <- received, pos <- Position

ImplementsStream == Stream!Spec
=============================================================================
