----------------------------- MODULE HidChannels -----------------------------
(* Channel telemetry of the HID service: every capture adds what the raw     *)
(* counters moved to the totals since boot, and usb_hid_poll publishes one   *)
(* due channel at a time as an Input report, in turn.                        *)
(*                                                                           *)
(* All of it runs on core 0, so a poll, a control read and a bus reset are   *)
(* steps.  That a capture of the UART counters is coherent or fails is what  *)
(* PortStats shows; who reads the reports is HostInputs.                     *)
EXTENDS Integers, FiniteSets, FiniteSetsExt

CONSTANTS
  N,              \* UART_PORT_COUNT
  Counters,       \* byte counters of a channel: "uart", "cdc"
  Interval,       \* USB_HID_CHANNEL_INTERVAL_MS
  FaultInterval,  \* USB_HID_FAULT_SAMPLE_INTERVAL_MS
  RawModulus,     \* of the byte counters, 2^32
  SeqModulus,     \* of the Input sequence, 2^16
  ClockModulus,   \* of the deadline of the fault sample, 2^32 ms
  CounterMax,     \* where fault counters saturate, UINT32_MAX
  PollGap,        \* bound: core 0 polls at least every PollGap ms
  Busy,           \* bound: the channels that carry traffic
  MaxBytes, MaxOverruns   \* bounds on the traffic of a channel

Channels == 0..(N - 1)

ASSUME HidAssumption ==
  /\ Counters \subseteq {"uart", "cdc"} /\ Busy \subseteq Channels
  /\ N \in Nat \ {0} /\ Interval \in Nat \ {0} /\ FaultInterval \in Nat \ {0}
  /\ RawModulus \in Nat \ {0, 1} /\ SeqModulus \in Nat \ {0, 1}
  /\ CounterMax \in Nat \ {0}
  /\ ClockModulus \in Nat /\ 2 * (FaultInterval + PollGap) < ClockModulus
  /\ PollGap \in Nat \ {0} /\ MaxBytes \in Nat /\ MaxOverruns \in Nat

VARIABLES
  bytes,       \* what each counter would be if it never wrapped
  overruns,    \* and the RX overrun count, recovered and pending
  clock,       \* the low word of the milliseconds since boot
  ready,       \* tud_hid_ready: the IN endpoint is free
  report,      \* the Input report in the endpoint, if there is one
  nextSample,  \* usb_hid_next_fault_sample_ms
  nextChannel, \* usb_hid_next_channel
  channel,     \* usb_hid_channels
  age,         \* ms since the last publication; Interval stands for more
  (* history *)
  seen,        \* what the last accepted observation saw
  published,   \* what the counters were when the Input interval began
  sampleAge,   \* ms since all channels were captured, saturating
  pollAge,     \* ms since the last poll
  passed       \* turns of the others while this one was due, up to 2

traffic == <<bytes, overruns>>
time    == <<clock, age, sampleAge, pollAge>>
wire    == <<ready, report, published>>
turns   == <<nextChannel, passed>>
vars == <<traffic, wire, nextSample, turns, channel, seen, time>>

Channel == [previous : [Counters -> 0..(RawModulus - 1)],
            total : [Counters -> 0..MaxBytes],
            rxPrevious : 0..CounterMax, rxCount : 0..CounterMax,
            sequence : 0..(SeqModulus - 1)]

(* current: the UART sample of this report succeeded; timed: its interval is *)
(* not saturated; moved is history, what really moved in the interval.       *)
Reports == [channel : Channels, sequence : 0..(SeqModulus - 1),
            current : BOOLEAN, timed : BOOLEAN,
            total : [Counters -> 0..(RawModulus - 1)],
            moved : [Counters -> 0..MaxBytes]]

TypeOK ==
  /\ bytes \in [Channels -> [Counters -> 0..MaxBytes]]
  /\ overruns \in [Channels -> 0..MaxOverruns]
  /\ clock \in 0..(ClockModulus - 1) /\ nextSample \in 0..(ClockModulus - 1)
  /\ ready \in BOOLEAN /\ nextChannel \in Channels
  /\ report \subseteq Reports
  /\ published \in [Channels -> [Counters -> 0..MaxBytes]]
  /\ channel \in [Channels -> Channel]
  /\ age \in [Channels -> 0..Interval]
  /\ seen \in [Channels -> [bytes : [Counters -> 0..MaxBytes],
                            overruns : 0..MaxOverruns]]
  /\ sampleAge \in 0..(FaultInterval + PollGap) /\ pollAge \in 0..PollGap
  /\ passed \in [Channels -> [Channels -> 0..2]]

NoTurns == [d \in Channels |-> 0]

NoBytes == [k \in Counters |-> 0]

(* usb_hid_init, and the driver at its start.                                *)
Init ==
  /\ bytes = [c \in Channels |-> NoBytes]
  /\ overruns = [c \in Channels |-> 0]
  /\ clock = 0 /\ nextSample = 0 /\ nextChannel = 0
  /\ ready = FALSE /\ report = {}
  /\ published = [c \in Channels |-> NoBytes]
  /\ channel = [c \in Channels |->
                  [previous |-> NoBytes, total |-> NoBytes,
                   rxPrevious |-> 0, rxCount |-> 0, sequence |-> 0]]
  /\ age = [c \in Channels |-> 0]
  /\ seen = [c \in Channels |-> [bytes |-> NoBytes, overruns |-> 0]]
  /\ sampleAge = 0 /\ pollAge = 0
  /\ passed = [c \in Channels |-> NoTurns]
-----------------------------------------------------------------------------
(* The bridge and the worker.  The counters may not wrap twice unseen.       *)

Transfer(c, k) ==
  /\ c \in Busy /\ bytes[c][k] < MaxBytes
  /\ bytes[c][k] - seen[c].bytes[k] < RawModulus - 1
  /\ bytes' = [bytes EXCEPT ![c][k] = @ + 1]
  /\ UNCHANGED <<overruns, wire, nextSample, turns, channel, seen, time>>

Overrun(c) ==
  /\ c \in Busy /\ overruns[c] < MaxOverruns
  /\ overruns' = [overruns EXCEPT ![c] = @ + 1]
  /\ UNCHANGED <<bytes, wire, nextSample, turns, channel, seen, time>>

Older(a, limit) == IF a < limit THEN a + 1 ELSE limit

Tick ==
  /\ pollAge < PollGap
  /\ clock' = (clock + 1) % ClockModulus
  /\ age' = [c \in Channels |-> Older(age[c], Interval)]
  /\ sampleAge' = Older(sampleAge, FaultInterval + PollGap)
  /\ pollAge' = pollAge + 1
  /\ UNCHANGED <<traffic, wire, nextSample, turns, channel, seen>>

(* The host takes the report out of the endpoint, or configures the device.  *)
HostReads ==
  /\ ~ready
  /\ ready' = TRUE /\ report' = {}
  /\ UNCHANGED <<published, traffic, nextSample, turns, channel, seen, time>>
-----------------------------------------------------------------------------
(* usb_hid_capture.                                                          *)

Raw(c, k) == bytes[c][k] % RawModulus

Saturated(n) == IF n < CounterMax THEN n ELSE CounterMax

(* Which counters a capture accepts: the CDC ones always.                    *)
Accepted(coherent) == IF coherent THEN Counters ELSE Counters \ {"uart"}

NewTotal_Wraps(c, ch, k) == ch.total[k] - ch.previous[k] + Raw(c, k)

NewTotal(c, ch, k) ==
  ch.total[k] + ((Raw(c, k) - ch.previous[k]) % RawModulus)

(* A count that goes down would count from zero; a restart keeps the counts. *)
Delta(now, before) == IF now >= before THEN now - before ELSE now

RxCount(c, ch) ==
  Saturated(ch.rxCount + Delta(Saturated(overruns[c]), ch.rxPrevious))

Captured(c, ch, coherent) ==
  [previous |-> [k \in Counters |-> IF k \in Accepted(coherent)
                                    THEN Raw(c, k) ELSE ch.previous[k]],
   total |-> [k \in Counters |-> IF k \in Accepted(coherent)
                                 THEN NewTotal(c, ch, k) ELSE ch.total[k]],
   rxPrevious |-> IF coherent THEN Saturated(overruns[c]) ELSE ch.rxPrevious,
   rxCount |-> IF coherent THEN RxCount(c, ch) ELSE ch.rxCount,
   sequence |-> ch.sequence]

Observed(c, s, coherent) ==
  [bytes |-> [k \in Counters |-> IF k \in Accepted(coherent)
                                 THEN bytes[c][k] ELSE s.bytes[k]],
   overruns |-> IF coherent THEN overruns[c] ELSE s.overruns]
-----------------------------------------------------------------------------
(* usb_hid_poll.                                                             *)

SampleDue_Unsigned == clock >= nextSample

(* (int32_t)(now - next) >= 0                                                *)
SampleDue == (clock - nextSample) % ClockModulus < ClockModulus \div 2

NextSequence(n) == (n + 1) % SeqModulus

(* All channels are captured when the sample is due, and the channel that    *)
(* has its turn.                                                             *)
Captures(attempted) == IF SampleDue THEN Channels ELSE attempted

(* coherent is the set of UART samples that succeed, accepted the channel    *)
(* whose report the transport takes.                                         *)
Capture(coherent, attempted, accepted) ==
  LET captured == Captures(attempted)
  IN  /\ channel' = [c \in Channels |->
            LET new == IF c \in captured
                       THEN Captured(c, channel[c], c \in coherent)
                       ELSE channel[c]
            IN  IF c \in accepted
                THEN [new EXCEPT !.sequence = NextSequence(@)] ELSE new]
      /\ seen' = [c \in Channels |-> IF c \in captured
                                     THEN Observed(c, seen[c], c \in coherent)
                                     ELSE seen[c]]
      /\ IF SampleDue
         THEN /\ nextSample' = (clock + FaultInterval) % ClockModulus
              /\ sampleAge' = 0
         ELSE UNCHANGED <<nextSample, sampleAge>>

Due(c) == age[c] = Interval

(* The first due channel from nextChannel on.                                *)
Turn == LET offset == Min({i \in 0..(N - 1) : Due((nextChannel + i) % N)})
        IN  (nextChannel + offset) % N

PollOnly ==
  /\ ~ready \/ \A c \in Channels : ~Due(c)
  /\ \E coherent \in SUBSET Captures({}) : Capture(coherent, {}, {})
  /\ pollAge' = 0
  /\ UNCHANGED <<traffic, clock, age, wire, turns>>

MoveOn_Stays(c) == nextChannel' = c

MoveOn(c) == nextChannel' = (c + 1) % N

(* The turn of a channel, which is over whether tud_hid_report accepts or    *)
(* not.                                                                      *)
Attempt(c, coherent, accepted) ==
  /\ ready /\ (\E d \in Channels : Due(d)) /\ Turn = c
  /\ Capture(coherent, {c}, accepted)
  /\ MoveOn(c)
  /\ pollAge' = 0
  /\ passed' = [d \in Channels |->
                  IF Due(d) /\ d # c
                  THEN [passed[d] EXCEPT ![c] = Older(@, 2)] ELSE NoTurns]
  /\ UNCHANGED <<traffic, clock>>

Moved(c) == [k \in Counters |-> bytes[c][k] - published[c][k]]

LowBits(total) == [k \in Counters |-> total[k] % RawModulus]

(* An interval is saturated when it is longer than 65 s; in less the counters *)
(* cannot go all the way round.                                              *)
Publish(c, coherent, timed) ==
  /\ timed => \A k \in Counters : Moved(c)[k] < RawModulus
  /\ Attempt(c, coherent, {c})
  /\ age' = [age EXCEPT ![c] = 0]
  /\ published' = [published EXCEPT ![c] = bytes[c]]
  /\ ready' = FALSE
  /\ report' = {[channel |-> c, sequence |-> channel'[c].sequence,
                 current |-> c \in coherent, timed |-> timed,
                 total |-> LowBits(channel'[c].total), moved |-> Moved(c)]}

Reject_Commits(c, coherent) ==
  Attempt(c, coherent, {c}) /\ UNCHANGED <<age, wire>>

Reject(c, coherent) == Attempt(c, coherent, {}) /\ UNCHANGED <<age, wire>>

Poll ==
  \/ PollOnly
  \/ \E c \in Channels : \E coherent \in SUBSET Captures({c}) :
       \/ Reject(c, coherent)
       \/ \E timed \in BOOLEAN : Publish(c, coherent, timed)
-----------------------------------------------------------------------------
(* tud_hid_get_report_cb for a channel: its Input, Feature or diagnostics.   *)
GetReport(c) ==
  /\ \E coherent \in BOOLEAN :
       /\ channel' = [channel EXCEPT ![c] = Captured(c, @, coherent)]
       /\ seen' = [seen EXCEPT ![c] = Observed(c, @, coherent)]
  /\ UNCHANGED <<traffic, wire, nextSample, turns, time>>

(* usb_hid_reset_host_state: the totals go on, the sequences start again.    *)
ResetChannel(ch) == [ch EXCEPT !.sequence = 0]

ResetHost ==
  /\ channel' = [c \in Channels |-> ResetChannel(channel[c])]
  /\ age' = [c \in Channels |-> 0]
  /\ nextChannel' = 0 /\ passed' = [c \in Channels |-> NoTurns]
  /\ ready' = FALSE /\ report' = {} /\ published' = bytes
  /\ UNCHANGED <<traffic, clock, sampleAge, pollAge, nextSample, seen>>

Device == \/ \E c \in Channels : \/ \E k \in Counters : Transfer(c, k)
                                 \/ Overrun(c) \/ GetReport(c)
          \/ Tick \/ Poll

Next == Device \/ HostReads \/ ResetHost

Spec == Init /\ [][Next]_vars
-----------------------------------------------------------------------------
(* Properties.                                                               *)

(* Whatever reads, rejected reports, resets and failed samples come in       *)
(* between, a byte is counted once and no wrap of a raw counter is missed;   *)
(* an overrun is counted once, up to where the counters saturate.            *)
TotalsExact ==
  \A c \in Channels :
    /\ channel[c].total = seen[c].bytes
    /\ channel[c].rxCount = Saturated(seen[c].overruns)

(* When a poll ends the faults are known as of less than the sample interval *)
(* ago, also when the millisecond counter wraps.                             *)
SampledInTime == sampleAge - pollAge < FaultInterval

(* No channel gets a second turn while another one that was due all the time *)
(* waits for its first, whether reports are accepted or rejected.            *)
TurnTaking == \A c, d \in Channels : passed[c][d] < 2
=============================================================================
