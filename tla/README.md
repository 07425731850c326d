# PicoUart: models, checks and proofs

PicoUart turns an RP2040/RP2350 board into six USB CDC serial ports (two PL011
UARTs, four PIO UARTs) plus a HID telemetry and configuration interface. Core 0
runs TinyUSB and the CDC/HID services, core 1 (the *worker*) owns the UART
backends. This directory holds TLA+ modules translated from `src/firmware/src`,
TLC configurations that check them on small instances, and TLAPS proofs.

## Inventory

| Component | State | Operations | Interaction |
|---|---|---|---|
| CDC service (`usb/usb_cdc.c`) | per port: DTR state, admission (start pending, starting, running), staged line coding with its window, flush mark | mount, umount, DTR callback, line-coding callback, poll | core 0; calls the driver entry points; TinyUSB callbacks run inside `tud_task` |
| Port driver (`uart/uart_driver.c`) | status flags, lifecycle flags, control generation, staged mirror, all under `status_lock` | request stop/start, quiesced, queue line coding, reset and report staged, telemetry getters, lifecycle service, `poll_io` | shared by both cores |
| Control plane (`uart/control/*`) | mailbox slot, worker request with boundary and deadline, published port info | take, match, defer, apply, time out, finish | core 1, mailbox and flags under `status_lock` |
| Ring buffer and bridge (`uart/ring_buffer`, `uart/bridge.c`) | free-running 32-bit cursors, reservations, overflow count | spans, commits, overrun recovery, snapshot drain, fill | lock-free SPSC between the cores and DMA |
| Hardware UART (`uart/hw/*`) | DMA channels, last published RX progress, TX in flight, format | poll, RX publish, RX re-arm (poll and ISR), TX launch and completion, format apply, restart, deinit | core 1 and its DMA interrupt |
| PIO UART (`uart/pio/*`) | the same plus TXSTALL wait and polled TX | the same plus baud change | core 1 and its DMA interrupt |
| DMA progress (`uart/dma/*`), claims (`hw/dma_claim.c`, `pio/resource_claim.c`) | countdown registers, claimed channels, SMs | progress math, settle, claim and roll back | worker |
| HID service (`usb/usb_hid.c`) | telemetry transfer, pending save, pending reboot | command, get report, poll | core 0 |
| Boot configuration (`platform/boot_config.c`) | one flash sector | load, save | core 0 with core 1 locked out |
| Worker loop, heartbeat, watchdog (`uart/worker.*`, `main.c`) | heartbeat counter and its last sample | step, fresh?, feed | both cores |
| Line coding, descriptors, tables, LED, clock, temperature, service load | none or static | pure functions, register access | |
| Python client (`host/python/.../client.py`) | per channel: last sequence and counters, gap and completeness marks | apply an Input report, report 20 transactions, close | threads of the host; the device by HID reports |
| .NET client, dashboards, tools | none beyond the above | render | outside the firmware |

What is hard: two cores that meet at a spin lock held only for a few
assignments, so every multi-step protocol is interleaved; ownership of a
line-coding request passes through three holders; TX bytes must not be sent in
the wrong format, and a PIO transmitter does not say when it is idle; closes race
starts; lock-free rings are written by DMA while they are read; DMA channels change
hands under a running interrupt handler; deadlines race late answers; callbacks
come in any order; Input reports get lost.

What makes each component correct:

* control plane: `CONTROL_PENDING` covers the owners and nothing else, the newest
  request wins, errors of newer requests are not hidden, no format change under
  unsent bytes, every request ends;
* lifecycle: a close wins, the rings are reset only when nobody copies, a stop
  and a start end, bytes of a closed session are discarded;
* rings and RX path: the host gets the received bytes in order, without a torn or
  repeated byte, and every lost byte is counted;
* TX path: every accepted byte goes out once, in order, in the format in force
  when it was accepted, and a format change cuts no byte in two;
* claims: nothing leaks or is shared whatever fails, no interrupt meets a foreign
  channel, what the boot has shown to fit goes on fitting;
* flash: an old or a new record after power loss, never a wrong one; watchdog: fed
  exactly while both cores run;
* telemetry: no torn sample, every byte in the totals once, and a host that gives
  a rate gives the right one.

## Plan

| Step | Modules | Abstract specification | Theorems | State |
|---|---|---|---|---|
| 1 | `UartPort`, `PortService`, `MCUartPort`, `UartPortProofs` | `PortService`: what the host observes of a port | types, `IInv` and its consequences, the refinement, the three liveness properties | done |
| 2 | `RxPath`, `LossyStream`, `RxPathProofs` | `LossyStream`: in-order delivery with counted loss | `RxInv`, the refinement | done |
| 3 | `BoardActions`, `BoardActionsProofs` | | `BootInv` and its consequences, the three liveness properties | done |
| 4 | `PortStats`, `PortStatsProofs` | the counters as each update left them | `StatsInv`, coherence of a sample | done |
| 5 | `HidChannels`, `HostInputs`, `HostInputsProofs` | the traffic itself, kept as history | totals, gaps, rates, sampling, turns | done |
| 6 | `Heartbeat`, `HeartbeatProofs` | | `HeartInv` and both properties | done |
| 7 | `TxPath`, `MCTxPath`, `TxStream`, `TxPathProofs` | `TxStream`: order, no loss, the right format | `TxInv`, the refinement, the two liveness properties | done |
| 8 | `ResourceClaim`, `MCResourceClaim`, `ResourceClaimProofs` | | `ClaimInv` and its consequences | done |

`HostInputs` composes the device's accounting (`HidChannels`, which it extends) with
a client. `UartPort` implements `PortService`, `TxPath` implements `TxStream`, `RxPath`
implements `LossyStream`. The
other modules meet at what one of them guarantees and the next assumes:

* `UartPort` treats a backend as something that restarts, dies or refuses; `RxPath`
  and `TxPath` show what it does to bytes, `ResourceClaim` what it does to channels;
* the bridge stays out of both rings while they are reset: `BridgeExclusion` of
  `UartPort`, which `TxPath` uses in `Restart`;
* a UART sample is coherent or fails (`PortStats`), which `HidChannels` uses in
  `Captured`.

## UartPort

One port; the other five share only the lock and the round-robin order, so their
steps are stuttering steps here. An action is one `status_lock` hold with the
core-private code around it, or one unlocked backend access; `usbPc` and `wrkPc`
say where each core stands in between. The correspondence:

| Model | Code |
|---|---|
| `usbPc`, `admission`, `req`, `rxFlushed`, `opened` | `usb_cdc_ports[itf]` and the position inside `usb_cdc_poll` or a callback |
| `flags`, `lifecycle`, `gen`, `soft`, `mbox`, `info` | `status_flags`, stop/quiesced/start flags, `control_generations`, `soft_pending_controls`, mailbox, `port->info` |
| `wrkPc`, `work`, `pend` | position inside `uart_worker_step`, local variables of `service`/`start_port`, `pending_controls` |
| `up`, `fmt`, `prod`, `cons`, `inflight`, `wire` | `initialized`, the applied format, TX ring cursors, `tx_dma_bytes_in_flight`, what has left the shifter |
| `out`, `outOld` | TinyUSB's CDC OUT FIFO; `outOld` marks the bytes that predate a DTR close |
| `rejected`, `want` | history variables: what the newest generation asked for |

Abstractions. A format is a model value; two requests whose baud rates reach the
same divider count as one format, as `line_coding_matches` compares them. A
deadline is nil, armed or expired, and an armed one may expire at any step. The
TX ring accepts any number of the offered bytes. An emptied mailbox or request is
written back to one empty value (the code leaves its old fields in place and does
not read them). `PollIo` launches a transfer of any length and may also not
launch, which covers the PL011 BUSY check and the PIO paths. The TX cursors are
unbounded (32-bit in the code, compared only for equality and difference of less
than the ring size). `control_generation` is 32-bit; a wrap needs 2^32 requests.

Left out of this module: the worker-side rejection of an unacceptable coding (core
0 applies the same static test to every request before it queues it), the
failure result of `request_channel_start` (it needs a missing lock or port), RX
data, `control_history`, service-load marks, telemetry.

### Runs

| Run | Constants | Shows |
|---|---|---|
| `port_safety` | 2 formats, 4 generations, 2 TX bytes, 1 OUT byte, 1 mount | four invariants, two action properties, `ImplementsService` |
| `port_liveness` | 3 generations, 1 TX byte | neither core blocks; stop, apply and open resolve |
| `port_reclose` | as safety, closes allowed while a stop is pending | violation: closed-session bytes are bridged later |

The type invariant is proved and therefore not run.

`ImplementsService`: a port is a `PortService`, which has no cores, mailbox,
generations or deadlines, only what the host can observe: open, ready, the two control
flags, the format, the bytes. Bytes are accepted only by a ready port that is not
busy; the format changes only under an empty line; a request ends by being in force or
by `failed`, which stays until the next request or close; a start that a close
overtook is never reported. `INIT_FAILED` is not part of it, and it does not say when
a step is taken: that is the subject of `port_liveness`.

Bounds. Four generations let a request be staged while an older one is in the
mailbox and a still older one is deferred, with a close or a reject in addition;
two formats distinguish the newest from an older one; two TX bytes separate
`prod`, `cons`, `inflight` and `wire`. The host stops when the generations are
used up (`MaxGen` guards the callbacks), the cores never do, so deadlock is
checked.

Fairness. Both cores run endless loops (`main`, `uart_worker_run`) and hold the
lock for a bounded time, hence `WF` on each core's steps; a deadline that is armed
passes (`WF` per deadline); `tud_cdc_n_write_clear` may refuse repeatedly but not
for ever (`SF` on `QuiesceClear`). No fairness is assumed of the host, of CTS or
of the wire: an apply that never finds the wire idle is ended by its deadline.

### Finding

`port_reclose`: a close that arrives while an earlier stop is still pending gets
`false` from `uart_driver_request_channel_stop`; `reset_rx_flushed` stays set,
`usb_cdc_poll` does not flush the OUT FIFO again, and what the host wrote between
the two closes is bridged after the next open. The design documents say that
queued bytes are discarded on every close. `port_safety` therefore checks
`ClosedBytesDiscarded` with `RecloseDuringStop = FALSE`, and `ClosedBytesFlushed`
proves it under that assumption.

Observed while modelling, not checked as a finding: a request that sits in the
mailbox has no deadline, so after a backend death or a failed start
`CONTROL_PENDING` stays until the host closes the port.

## RxPath

The receive stream of one port: DMA fills the ring behind the worker's back, the
worker publishes what the DMA count shows, and core 0 copies out of the ring
without a lock, then asks whether what it copied was overwritten meanwhile.

| Model | Code |
|---|---|
| `received`, `cell`, `writeAt` | bytes the DMA moved, the ring's storage, the DMA write address |
| `remaining`, `channel`, `irqPending`, `irqOn` | the DMA transfer count, its enable and busy state, its completion interrupt |
| `lastProgress`, `wprog`, `wprod` | `rx_dma_last_progress`, the locals of a publish |
| `producer`, `consumer`, `overflow` | the 32-bit cursors of `ring_buffer_t`, its `overflow_count` |
| `reservedSeq`, `reservedCount` | the reservation of `ring_buffer_read_span` |
| `wpc`, `site`, `updating` | position of core 1 in poll, publish, re-arm and apply; `stats_sequence` odd |
| `cpc`, `snap`, `moved`, `cprog`, `cprod` | position of core 0 in the drain, its copy, whether the sequence moved, locals of the checks |
| `host`, `accepted` | what the USB FIFO accepted, and how much of it the cursor does not count yet |

The grain is one shared read or write per step. `Modulus` stands for the
2^32 of the cursors, `Size` for the ring, `Countdown` for the transfer count a
channel is armed with. The DMA's byte write and count decrement are one step;
an aborted channel may read back its count or zero. `stats_sequence` is reduced
to "odd" and "moved since core 0 looked", which is exact as long as fewer than
2^32 polls fall inside one drain. Two environment bounds are guards of
`DmaWrite`: the line stays less than `Modulus - 1` bytes ahead of core 0, and less
than `Countdown - 1` ahead of the worker's last publish; at 1 Mbaud they are hours
and minutes. The settle loop of an apply has its two outcomes and no count.

Left out: the clear of the ring at a restart (`UartPort`'s `BridgeExclusion` is
what makes it safe), RTS, parity and framing errors, bytes the PL011 FIFO drops
before a re-arm.

### Properties and runs

`SnapshotIntact`: a copy that core 0 is about to hand to USB holds the bytes of its
span. `LossCounted`: `overflow_count` is exactly what was given up.
`ProgressAccountsForBytes`: what is received and not yet published can be
computed from the transfer count and the last mark, across every re-arm.
`ImplementsStream`: every step is a step of `LossyStream` or a stutter; a DMA that
writes where the cursor will not count the byte breaks it. The store
of the last mark and the advance of the producer are two stores, so the checks of
the bridge are right only because both the poll and a format change sit between
two increments of `stats_sequence`; dropping either bracket, or not refusing an
odd value, breaks `SnapshotIntact`.

| Run | Constants | Shows |
|---|---|---|
| `rx_receive` | ring 2, modulus 6, countdown 5, snapshot 2, both backends, 8 bytes, 1 apply attempt | all four, with a format change in the middle of reception and each of its outcomes |

Eight bytes pass the cursor wrap at 6, the ring's end four times and the re-arm
at 5. Deadlock is off because a failed apply drops the port and nothing more
happens to it.

### Proof

`RxPathProofs` proves `Spec => []RxInv` from `RxAssumption` alone, and from it the
type invariant, the three properties and `ImplementsStream`, for every ring, cursor
width, countdown and copy buffer. `HostSeesOrder` says what the stream means to a
terminal: bytes in increasing order, none twice.

None of the properties is inductive: the DMA says nowhere how far it is. The worker
infers it from a count that starts again and again, core 0 from the worker's mark and
a count it reads itself, both through cursors that wrap. `RxInv` says in positions of
the wire what each of them knows at which point:

* `CursorInv`: producer and consumer are two positions modulo the cursor width, in
  order, less than a turn behind the wire. The lemmas on `%` at the head of the module
  turn each difference of cursors in the code into a difference of positions;
* `RingInv`: the last `Size` bytes are in the cells of their positions and the write
  address is the cell of the next one, also where a format change re-arms the channel
  at the producer (`ModDivides`: the ring has to divide the cursor's turn);
* `ProgressInv`: what is not published yet, for each point between the read of the
  count and the store of the producer, and none from the settled publish of a format
  change to its restart (`WorkInv` has the channel stopped all that time);
* `SnapInv`: after each look what the copy is known to be. It is good if the DMA is
  still within a ring of the span when the count is read; an even, unmoved sequence
  makes the count, the mark and the producer belong together, so that producer, count
  and mark give the DMA's position at that read. This is the argument for the order of
  the reads in `uart_bridge_drain_rx`;
* `BridgeInv`, `LossInv`: a span lies within what was published, and cursor,
  overflow count and host add up.

The two bounds on speed in `DmaWrite` are what the proof uses of the timing. That every
byte is drained in the end is not claimed: polls may overlap every snapshot, and the
code then keeps retrying.

## BoardActions

What report 20 of the HID interface does to the board, and what a reset makes of
it. A step is one USB callback, one `usb_hid_poll`, or one operation on the flash.

| Model | Code |
|---|---|
| `command`, `profile` | `usb_hid_command`, `usb_hid_command_status`, `usb_hid_error_reason`, `usb_hid_requested_profile` |
| `reboot`, `delay` | `usb_hid_reboot_pending`, `usb_hid_reboot_deadline` in ticks |
| `sector` | the boot record: erased, garbage, or a profile |
| `mcu`, `core1` | where core 0 stands (off, in reset, in the loop, hung, inside a flash operation), whether the worker runs, hangs or is in its fault handler |
| `bitten`, `armedMark`, `faultMark` | the watchdog's reset reason and the marks in its scratch registers |
| `boot`, `cause` | `boot_config_get_status`, `system_reset_cause` |
| `SetupStage`, `DataStage`, `Abandon` | the control transfer of `__wrap_hidd_control_xfer_cb` |
| `Dtr`, `BusReset` | DTR of the CDC ports, loss of all sessions |

Abstractions. A record that was cut short is `garbage`: that its CRC-32 does not
fit is assumed. Two of the five boot profiles behave as `P250` does and are left
out. `boot_config_set` does not fail for a profile that was validated when the
request came in. A hang inside a flash operation is the watchdog cutting it short.

| Run | Constants | Shows |
|---|---|---|
| `board` | 2 ports, 3 profiles, delay 2, fairness | the safety properties, `NothingBlocks`, and `SaveResolves`, `RebootHappens`, `HangRecovers` |

`CompletedMeansStored`: a save is reported as completed only when the record is in
flash, and it stays there. `NoEraseUnderSession`: flash is not written while a
session is open. `SavedProfileBoots`, `StartAfterFailure` (`HangFallsBack` and `FaultReported`): the
intended reset, a hang and a fault, which go through the same watchdog block, are
told apart at the next start. A save gets its result (`SaveResolves`), an announced
reboot happens (`RebootHappens`), and a hung board starts again (`HangRecovers`).
`RebootHappens` is stated tick by tick, from each value of the countdown to a smaller
one or to the reset: the countdown is a natural number, so the reset comes. That no
request cancels or replaces it is proved as `RebootStands`.

Bounds: two ports, a reboot delay of two ticks; requests, resets and faults are
unbounded. Fairness: the main loop polls (and a poll ends the flash operation it
began), time passes, the watchdog runs out when it is not fed, and a board that
is powered starts. Nothing is assumed of the host or of the supply.

`NothingBlocks` says that what is due can be done: a save or a reset that is due
enables the poll, a countdown enables the clock, a board that hangs enables the
watchdog, a reset enables the start.

`BoardActionsProofs` proves the safety properties except `NothingBlocks` for every set of ports,
every set of capabilities and every delay. `BootInv` is needed because each relates
a result in RAM to a record in flash across a reset: it says what the marks, the
record and the command state imply about one another in every phase of a save and
of a reset. From the fairness and `NothingBlocks` it proves `SaveResolves`,
`HangRecovers` and `RebootHappens`. During a countdown either core may hang; then the
board cannot count on, and it is the watchdog that ends the wait (`HungBefore`).

## PortStats

The sequence lock around the counters of a port. Core 1 brackets each poll,
deinit, start and format change with two increments of `stats_sequence`;
`uart_driver_port_stats` copies the fields one by one between two reads of it and
tries three times. A step is one access to a shared variable. The value of a field
is the sequence at which it was written, so a mixture of two updates is visible.
Fields that core 0 itself changes (what the drain recovers) cannot move during its
own copy and need no lock.

`port_stats` checks three fields, three attempts and two updates within
`MaxSeq = 5`. `SampleCoherent`: a sample that is handed out is what one update left,
and that update is not older than the call. The 32-bit sequence does not wrap in the
model (`MaxSeq`); a false match needs 2^31 updates within one copy. The memory
barriers are taken to order the accesses as written. `PortStatsProofs` proves the
invariant for every set of fields and every bound. `StatsInv` adds to coherence
that the sequence is odd exactly during an update, and that what was copied so
far equals what the last update left as long as the sequence has not moved.

## HidChannels and HostInputs

What the HID service does with those counters on core 0, and what a client of the
Python package makes of the reports. `usb_hid_capture` adds the movement of wrapping
raw counters to totals; `usb_hid_poll` samples faults and publishes one channel at a
time; `_apply_input` derives from successive reports what moved in an interval and
notices when it cannot know.

| Model | Code |
|---|---|
| `channel` | `usb_hid_channels`: `previous`, `total`, `rx_previous`, `rx_count`, `sequence` |
| `age` | now minus `last_publication_ms` (64 bit), saturating at the interval |
| `clock`, `nextSample` | the low word of the time, `usb_hid_next_fault_sample_ms` |
| `ready`, `report` | `tud_hid_ready` and the Input report in the endpoint |
| `client` | `_channels`, `_last_counters`, `_input_seen`, `_ignored_gap` of `client.py` |
| `Receive`, `Lose`, `Open`, `BusReset` | `read_status` and `_apply_input`; a report nobody reads; `PicoUartHid.__init__`; `usb_hid_reset_host_state`, with the loss of the handle when `Reconnects` |
| `seen`, `published`, `report.moved`, `sampleAge`, `passed` | history of the device: what the last observation saw, the bytes at the start of an Input interval and what moved in it, turns of the others |
| `missed`, `breaks` | history of the client: publications since the last one applied, discontinuities of the stream |

Abstractions. Whether a UART sample succeeds is a choice at every capture; the CDC
counters and the control history cannot fail for a valid port, and neither can the
encoding of a report after the initialisation. UART and CDC each have one byte
counter instead of two, and overruns stand for both fault counters, which share the
code. When a fault sample and a publication fall into one poll their two captures of
the channel are one. `Interval` and its saturation are the choice `timed` of a
report. A client is stale after 3 s without an accepted report; `StaleAfter` is how
many missed publications surely take that long, and it may be stale earlier. The
receive thread, its queue and `read_status` are one step: reports come out in the
order in which they went in.

| Run | Constants | Shows |
|---|---|---|
| `hid_schedule` | three channels, clock modulo 9, polls at most 2 ms apart, intervals 1 and 2, traffic on channel 0 only (`Busy`) | `SampledInTime`, `TurnTaking` |
| `host_inputs` | one channel, raw counters modulo 3, 3 bytes, 1 overrun, saturation at 2, sequence modulo 4, stale after 3 | `TotalsExact`, `GapsAreLosses`, `RateExact` |
| `host_reset` | 4 bytes, `Reconnects = FALSE` | violation: a rate across a bus reset |

`Busy` is sound for the schedule: neither turns nor deadlines look at the traffic.
Three bytes take a counter modulo 3 once round, four publications a sequence, and a
client that counted `MaxGaps` breaks is not followed further; a second gap adds no
case, since the only state it leaves is the count itself.

`TotalsExact`: a byte or an overrun that some capture saw is in the totals exactly
once. `RateExact`: the bytes a client divides by the interval of a report are those
that moved in that interval, or it gives no rate. `GapsAreLosses`: every break of
the stream is counted once, and a client that shows a complete stream has missed
nothing. The guard of `Transfer` is the assumption the code's own comment makes: a
raw counter does not wrap twice between two observations. `TurnTaking` is the safety
form of starvation freedom: no channel gets a second turn while another that was
due all the time waits for its first. That a due channel is published in the end
is not claimed; the transport may refuse it for ever.

### Finding

`host_reset`: a bus reset restarts the sequence of every channel while totals go on
(`docs/design/usb/hid-report-reference.md:515`), and the same document says that a
sequence gap must discard the rate window (`:526-527`). A client decides by the
sequence alone. If its handle survives the reset, its last sequence was *n* and the
restarted reports 1 to *n* are lost, report *n + 1* is taken for the next one: bytes
from before the reset are divided by the interval of one report, and no gap is
counted. The run shows it with *n* = 1. On hosts that drop the handle at a reset it
cannot happen, which is what `Reconnects` stands for.

### Proof

`HostInputsProofs` proves the type invariant of `HidChannels`, which no run repeats, and
the three properties of the client for all constants. `DeviceInv` says
what a channel's baseline, its totals and the last observation have to do with one
another (`CaptureInv`), and what the report in the endpoint says about the interval
it was made in (`WireInv`). `HostInv` adds the client: where its sequence stands
relative to the device's, counting what was missed (`StreamInv`), how the breaks
are distributed between `gaps` and a break that is not counted yet (`LossInv`), and
what its last counters are the low bits of (`RateInv`). `TotalsAreExact` needs no
assumption; `GapsAreCounted` and `RatesAreExact` are proved from `Reconnects`, and
`host_reset` shows that without it the second is false.

The schedule is proved of the device alone. `SampleInv` ties the 32-bit deadline to
the age of the last sample, which stays below half of the clock's range, so the
signed comparison is right (`FaultsAreSampled`). `TurnInv` orders the channels by
their distance from `usb_hid_next_channel`: whoever had a turn while another channel
was due is further away than that channel, and `TurnIsNearest`, which needs the
well-foundedness of the naturals, says that the turn goes to the nearest one due
(`TurnsAreTaken`).

## Heartbeat

Who feeds the watchdog. Core 1 increments a count after each sweep; core 0 feeds
when the count moved, or moved less than 2 s ago. `watchdog_feed` uses a stale
window of 3, a timeout of 4, gaps of 2, a clock modulo 19 and a count modulo 3, so
that both wrap many times. `FedWhileBothRun`: while both cores keep their gaps
every pass of the main loop feeds, so no running board is reset. `HangEndsInTime`:
after a hang of either core, or of both in any order, the chip is reset within one
pass, the stale window and the timeout. The gap of the worker is assumed to be
shorter than the stale window, which is what the comment of
`UART_WORKER_HEARTBEAT_STALE_MS` says of the longest sweep, and fewer than 2^32
sweeps fit between two passes.

`HeartbeatProofs` proves both properties for all gaps, windows and moduli that
`HeartbeatAssumption` allows, the firmware's 32-bit ones included. Neither is
inductive. `HeartInv` measures everything in the age of the last change core 0
noticed: the age stays below half of the clock's range, so that the signed
comparison is right (`AgeInv`); it is no greater than the age of the last sweep
while core 1 runs, and the difference of the counts is the number of sweeps since
the last pass (`SweepInv`), so a running board feeds; and the hang of core 1 is no
older than that age and one pass (`HangInv`), so it ends.

## TxPath

The transmit stream of one port, from what core 0 copies into the ring to the stop
bit of the last byte, for both kinds of backend. A step is one access of a core to
state that another core, the DMA or the transmitter changes too.

| Model | Code |
|---|---|
| `cell`, `producer`, `consumer`, `base` | the ring and its cursors; what was accepted before they were last reset |
| `fpc`, `spanIn`, `copied` | position of core 0 in `uart_bridge_fill_tx`, the span it reserved, what it copied |
| `wpc` | position of core 1 in the control service, the format change and the poll |
| `active`, `inFlight`, `spanOut` | `tx_dma_active` or `tx_active`, `tx_dma_bytes_in_flight`, `consumer_reserved_count` |
| `chunk` | bytes the polled PIO path put into the FIFO and has not committed |
| `waiting`, `stalled` | `txstall_waiting`, FDEBUG.TXSTALL |
| `pending`, `wanted`, `boundary` | the deferred line-coding request and its TX boundary |
| `dmaAt`, `dmaLeft`, `fifo`, `shifter`, `started`, `format` | the DMA channel, the FIFO, the shift register and the format of the frame it is sending |
| `asked`, `line` | history: the format in force when each byte was accepted, what went out |

Abstractions. `Budget` is the number of bytes that go out in 25 ms in a format, at
least one, on a PIO port at most 256. Queueing a request and its acceptance by the
worker are one step, as are reading occupancy and span of a launch. `TXSTALL` is set
when the program's `pull` begins to wait. `Restart` is a deinit and a start: core 0
is out of the bridge then (`BridgeExclusion`). What a port does when neither format
can be set is in `UartPort`. The cursors do not wrap; `RxPath` has the wrap of the same ring.

| Run | Constants | Shows |
|---|---|---|
| `transmit` | two formats with budgets 1 and 2, both backends, ring 2, FIFO 2, DMA from a backlog of 2, 4 bytes, 1 change, 1 restart | `ProbeHonest`, `BacklogBounded`, `TxNeverBlocks`, `ImplementsTxStream`, `Drains`, `FormatSettles` |

`ProbeHonest`: TXSTALL seen again after it was cleared, with nothing launched in
between, proves an empty shift register: the only evidence the worker has that a format
change cuts no byte in two. `BacklogBounded`: no more than one launch's budget is
committed to the transmitter. `ImplementsTxStream`: order, no loss but in a restart,
and every byte in the format it was accepted under. `Drains`, `FormatSettles`: what
was accepted goes out and a change ends, although nothing new is launched that
belongs behind the change. Both are stated byte by byte: as long as an accepted byte
waits, the next one leaves; from any number of bytes gone, a change that is pending
ends or one more byte leaves. The bytes before a change are finite, so this is all of
it. `TxNeverBlocks` says which actions are ENABLED: the worker always, the DMA when it
has a byte and the FIFO room, the transmitter when it has something to do. A worker
that waits in place for a FIFO to empty (`LaunchBlocked_Spins`) violates it.

Bounds. Four bytes pass the ring's end twice and need both a DMA launch and a polled
one; the threshold of 2 makes both paths of a PIO port possible in the same queue; a
ring of 2 makes the fill wait.

Fairness. Core 0 finishes a copy it began, the worker sweeps, the DMA serves its
requests, a frame that began ends (`WF`). CTS is granted again and again, hence `SF`
on the start bit; the receiver is quiet from time to time, without which the settle
loop of `Apply` could find a moving count at every attempt (`SF`). In the code the
second failure is bounded by the deadline, which is the environment's `GiveUp` here.

`TxPathProofs` proves the safety properties for all constants, without bounds on
bytes, changes or restarts. `TxInv` is needed because what goes out next is decided
in four places at once, the cursors, the reservation, the channel and the FIFO, and
each relies on the others: it says that all of them count the same bytes
(`RingInv`, `FillInv`, `LaunchInv`, `WireInv`), that a request that is tried found
everything empty (`RequestInv`), and what the two looks at TXSTALL exclude
(`ProbeInv`). `LineIsInOrder` spells out what the refinement means for the line: its
bytes increase and each has the format it was accepted under. Of the
formats `TxAssumption` asks that none of them is `"none"`, the mark of a frame whose
start bit is not out yet.

`BytesGoOut` and `ChangesSettle` prove `Drains` and `FormatSettles` from `FairSpec` and
`TxNeverBlocks`, for all constants. The next byte to go is in one of a few places:
in the frame being sent, in the shift register, in the FIFO, with the DMA, or still
in the ring. Each place leads to an earlier one, the first four by the fairness of the
line and of the DMA (`WireMoves`, `WireProgress`), the last by the worker: within one
sweep it commits what is finished and launches again, and a pending change does not
stop it, because the boundary is not drained yet (`WorkerLaunches`, `SweepMoves`,
`ByteGoesOut`). Once all is out and a change is pending nothing can be launched any
more (`DrainedStays`); a hardware UART then tries to apply, and a PIO port first
clears TXSTALL in one sweep, which the idle program sets again, and finds it in a
later one (`WorkerTries`, `ProbeLooks`); the try succeeds in the end by the strong
fairness of `Apply` (`DrainedSettles`).

## ResourceClaim

Who holds which DMA channel and PIO state machine. The boot starts every port once
to see that they all fit, releases them and leaves the rest to the worker, where a
channel passes from port to port as they are closed and opened, while the DMA
interrupt handler of either backend runs between any two steps.

| Model | Code |
|---|---|
| `boot`, `todo`, `rejected` | position in `uart_driver_init` and its rollback, `init_ok` |
| `pc`, `port`, `then` | position in a backend's start, deinit or format change, with which port, and what follows a release |
| `up`, `rx`, `tx`, `machines` | `initialized`, `rx_dma_channel`, `tx_dma_channel`, `tx_sm_claimed` and `rx_sm_claimed` |
| `owner`, `installed` | `rx_irq_owners` of each backend, `rx_dma_irq_installed` |
| `claimed`, `claimedSm`, `foreign`, `foreignSm` | the SDK's claim bitmaps, and what code outside this firmware holds |
| `busy`, `raised`, `unmasked` | the channels' BUSY, INTR and INTE |

Abstractions. A coding that is refused and a full program memory are one failure of
a start. Foreign claims do not change after the boot began. Acknowledging an
interrupt and entering the table are one step, so are the abort, acknowledge and
unclaim of a channel whose interrupt is masked: nobody looks in between. That a
channel's count is zero is reduced to its not being busy. A format change of an
initialized port is pause, then resume or release.

| Run | Constants | Shows |
|---|---|---|
| `claims` | 2 hardware ports, 1 PIO port, 6 channels, 2 state machines, symmetric channels | `NoLeak`, `ChannelsOwned`, `CapacityProven` |

Three ports on six channels leave none to spare, as twelve channels do six ports on
an RP2040; two ports of one backend share its table. Foreign claims make every claim
of the boot fail in some behaviour. The channels are interchangeable in every action
and property (state machines are named by the board table and are not in the
symmetry); no liveness is checked under the symmetry.

`NoLeak`: what the SDK has claimed is what drivers and foreign code hold, each once,
and a port that neither runs nor is being started holds nothing.
`ChannelsOwned`: an interrupt that can reach a core is one of a port of that backend,
and the table names the port (`HandlerKnowsItsChannel`); what nobody holds moves no
data (`FreeChannelIsQuiet`). `CapacityProven`: after a good boot no claim of the worker fails.

`ResourceClaimProofs` proves the first two for every board table and every pool.
`ClaimInv` relates the four records of one fact: the driver's fields and the bitmaps
(`ClaimedBy`, `Exclusive`, `HoldInv`), the table (`OwnerInv`), the enable bits
(`MaskInv`) and the channel's activity (`BusyInv`), at each step of a start and a
release (`PlaceInv`). 
`BootProvesCapacity` adds a count for the third. `FitInv` says what a first pass without
a failure has shown: an injection of all slots, an RX and a TX channel per port, into
the channels that foreign code leaves, and disjoint state machines (`MachinesFit`). A
start that found the pool empty while its own TX slot is empty would map the others
onto all those channels: `FreeChannel` is the pigeonhole step. `PassInv` and `MachineInv`
say that each port whose turn is over is up with what it needs. `Ports` is taken to be
finite (`ClaimAssumption`).

## Proofs of UartPort

`UartPortProofs` proves `Spec => []TypeOK`, one lemma per group of variables, then
`Spec => []IInv`, and derives the properties of `port_safety` for every set of
formats and every value of the bounds, from `PortAssumption` only. `IInv` is needed
because none of the properties is inductive alone:

* `UsbCoreInv`, `WorkerInv`: what each program counter implies about the lifecycle
  flags and the backend (a bridging core 0 means no stop pending and no start
  under way) give `BridgeExclusion`, `CloseWins`, `ReadyMeansActive`;
* `PendingExact` with `BoundaryInv`: while a request is held ingress is
  blocked, so its boundary equals the producer; with `TxIdle` this is
  `FormatChangeAfterDrain`;
* `GenInv`, `OrderInv`, `HolderInv`, `LatestInv`: generations order the holders,
  and the newest request is staged, in the mailbox, with the worker, in force or
  reported as failed; they give `RejectStaysVisible` and `LatestRequestWins`, the
  two halves of an honest status;
* `FlushInv` gives `ClosedBytesDiscarded` when no close meets a pending stop.

`PortImplementsService` maps each step to one of `PortService` or to none, for every
set of formats and without bounds. It needs two facts more than `IInv` (`ServiceInv`):
whoever fails the newest request has given it up, so that no other owner's success
clears `CONTROL_ERROR` (`FailureInv`; `RejectStaysVisible` says this of rejected
requests only), and a backend cannot go away between the check of
`uart_driver_fill_tx` and its copy (`FillInv`). Half of the steps are about who holds
what, which the host does not see; the ends of requests meet in one abstract step,
`Answer`.

Inductive invariants are proved and not listed in the runs; TLC checked each of
them on the same constants before its proof was written. The theorems also cover
`ReadyMeansActive`, `SoftMirrorsRequest` and `ClosedRequestKeepsItsWindow`, which no
run repeats.

Liveness. `StopsComplete`, `AppliesResolve` and `OpensResolve` prove the three
properties of `port_liveness` from `FairSpec` and two hypotheses:

* `CoresNeverBlock`, a state invariant that says which actions are ENABLED: the
  worker always, the USB core unless it has nothing to do, the clearing of the IN
  FIFO and a timer when they are due. ENABLED is out of the prover's reach; the run
  checks it, and a loop that waits in place (`FillTx_WaitsForRoom`) violates it;
* `HostSettles`: from some point on the host makes no request, closes nothing and
  does not mount again. `MaxGen` and `MaxMounts` bound all three, so it is true in
  the model, but to derive it takes an induction over those counters. The code
  makes no stronger promise: the next close or bus reset takes core 0 to another
  place before it comes to what the last one asked for.

`LiveInv` adds to `IInv` what the waiting needs: core 0 works only on a
mounted port, and a session that ended left no stop unacknowledged (`MountInv`), a
deferred apply has its window, except while the worker decides (`DeadlineInv`), and an opened port without an outcome is asking
for its start, has it queued, or the worker is at it (`AdmissionInv`). Each proof
assumes that from some point on the awaited outcome does not come, with a quiet
host. `WorkerLoops` brings the worker back to the top of its sweep again and
again, `AcknowledgePath` and `OpenPath` say where core 0 may go meanwhile, and the
fairness of the two cores, of the clear (stop) or of the window (apply, open) leads
to the step that ends the wait. Without the strong fairness of `QuiesceClear`, or
without that of one window, the one step that rests on it fails.

## What is proved and what is only checked

All theorems are proved from the named assumptions on the constants
(`PortAssumption`, `RxAssumption`, `TxAssumption`, `ClaimAssumption`, `HidAssumption`,
`HostAssumption`, `HeartbeatAssumption` and so on); TLC evaluates each of them in a run. Two host
theorems assume `Reconnects` and one port theorem `~RecloseDuringStop`, each next to
a run that shows why.

Every property of a run is stated by a theorem, with three exceptions: ENABLED is out
of the prover's reach, so `CoresNeverBlock`, `NothingBlocks` and `TxNeverBlocks`, which
say that what a core, the DMA, the line or a timer has to do can be done, are
invariants that TLC checks. The liveness theorems take them as hypotheses, besides the
fairness of their specifications: `StopsComplete`, `AppliesResolve`, `OpensResolve`
(these also `HostSettles`), `SavesEnd`, `RebootsHappen`, `HangsRecover`, `BytesGoOut`
and `ChangesSettle`.

Nor can a temporal step make an induction over data. `RebootHappens`, `Drains` and
`FormatSettles` are therefore stated as one step of a countdown each, from every value
of the delay or of the bytes gone to the next; that a natural number does not decrease
for ever, nor stay below a bound while it grows, is left to the reader. `HostSettles`
would need such an induction over `gen` and `mounts` and stays a hypothesis.

## Not modelled

* The table of accepted line codings, the divider arithmetic and the progress
  arithmetic as pure functions: `UartPort` has an accepted and a rejected request,
  `RxPath` uses the progress arithmetic in place.
* RTS hysteresis, parity and framing errors, the PIO RX program bit by bit, the
  program loader.
* `control_history`, service-load marks, peaks, times of faults, the encoding of
  reports, static reports.
* The transactions of the Python client (report 20 with its timeouts), its close,
  readiness wait and monitor thread. Observed while reading, not checked: `close()`
  sets `_closed` before it takes `_transfer_state_lock`, so the transfer thread and
  `close()` may both close the device handle; a slow `_read_control` of the monitor
  may overwrite a newer result of a configuration save.
* The .NET client (the same protocol), dashboards and their gateway: presentation.
* USB descriptors and board tables: static data. Clock, LED, temperature: register
  access. Build, release and validation tools: offline scripts.
