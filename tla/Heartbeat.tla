------------------------------ MODULE Heartbeat ------------------------------
(* Who feeds the watchdog: core 1 counts its sweeps, core 0 feeds only while *)
(* that count moves.  A step is one sweep, one pass of the main loop or one  *)
(* millisecond.                                                              *)
EXTENDS Integers

CONSTANTS
  Stale,         \* UART_WORKER_HEARTBEAT_STALE_MS
  Timeout,       \* PICO_UART_WATCHDOG_TIMEOUT_MS
  WorkerGap,     \* bound: a sweep of core 1 that runs ends within this time
  PollGap,       \* bound: core 0 that runs passes its loop within this time
  ClockModulus,  \* of to_ms_since_boot, 2^32
  BeatModulus    \* of the count, 2^32

(* The longest time for which a hang can go on.                              *)
Limit == PollGap + Stale + Timeout

ASSUME HeartbeatAssumption ==
  /\ WorkerGap \in Nat /\ WorkerGap < Stale
  /\ PollGap \in Nat /\ PollGap < Timeout
  /\ Stale \in Nat \ {0} /\ Timeout \in Nat \ {0}
  /\ ClockModulus \in Nat /\ 2 * Limit < ClockModulus
  /\ BeatModulus \in Nat \ {0, 1}

Cores == {"core 0", "core 1"}

VARIABLES
  clock,          \* to_ms_since_boot
  heartbeat,      \* worker_heartbeat
  lastHeartbeat,  \* of uart_driver_worker_heartbeat_is_fresh
  lastChange,     \* last_change_ms
  dog,            \* ms since the watchdog was fed
  hung,           \* the cores that hang
  (* history *)
  hungFor,        \* ms since the first of them does, saturating
  sweepAge,       \* ms since the last sweep, saturating
  pollAge,        \* ms since the last pass of the main loop, saturating
  unseen          \* sweeps since that pass, fewer than the count can hold
                  \* while core 0 runs

vars == <<clock, heartbeat, lastHeartbeat, lastChange, dog, hung, hungFor,
          sweepAge, pollAge, unseen>>

TypeOK ==
  /\ clock \in 0..(ClockModulus - 1) /\ lastChange \in 0..(ClockModulus - 1)
  /\ heartbeat \in 0..(BeatModulus - 1)
  /\ lastHeartbeat \in 0..(BeatModulus - 1)
  /\ dog \in 0..Timeout /\ hung \subseteq Cores
  /\ hungFor \in 0..(Limit + 1)
  /\ sweepAge \in 0..WorkerGap /\ pollAge \in 0..PollGap
  /\ unseen \in 0..(BeatModulus - 1)

(* The clock has run since the chip came out of reset, and nothing has fed.  *)
Boot(now) ==
  /\ clock' = now /\ dog' = now /\ sweepAge' = now /\ pollAge' = now
  /\ heartbeat' = 0 /\ lastHeartbeat' = 0 /\ lastChange' = 0
  /\ hung' = {} /\ hungFor' = 0 /\ unseen' = 0

Init ==
  /\ clock = 0 /\ dog = 0 /\ sweepAge = 0 /\ pollAge = 0
  /\ heartbeat = 0 /\ lastHeartbeat = 0 /\ lastChange = 0
  /\ hung = {} /\ hungFor = 0 /\ unseen = 0
-----------------------------------------------------------------------------
Older(age, limit) == IF age < limit THEN age + 1 ELSE limit

(* uart_worker_step.                                                         *)
Sweep ==
  /\ "core 1" \notin hung
  /\ "core 0" \in hung \/ unseen + 1 < BeatModulus
  /\ heartbeat' = (heartbeat + 1) % BeatModulus
  /\ sweepAge' = 0 /\ unseen' = Older(unseen, BeatModulus - 1)
  /\ UNCHANGED <<clock, lastHeartbeat, lastChange, dog, hung, hungFor,
                 pollAge>>

Signed(n) == IF 2 * n < ClockModulus THEN n ELSE n - ClockModulus

Recent_Absolute == clock < lastChange + Stale

(* (int32_t)(now_ms - *last_change_ms) < (int32_t)stale_ms                   *)
Recent == Signed((clock - lastChange) % ClockModulus) < Stale

Moved_Later == heartbeat > lastHeartbeat

Moved == heartbeat # lastHeartbeat

(* The end of a pass of the main loop.                                       *)
Poll ==
  /\ "core 0" \notin hung
  /\ lastHeartbeat' = IF Moved THEN heartbeat ELSE lastHeartbeat
  /\ lastChange' = IF Moved THEN clock ELSE lastChange
  /\ dog' = IF Moved \/ Recent THEN 0 ELSE dog
  /\ pollAge' = 0 /\ unseen' = 0
  /\ UNCHANGED <<clock, heartbeat, hung, hungFor, sweepAge>>

Hang(core) ==
  /\ hung' = hung \cup {core}
  /\ UNCHANGED <<clock, heartbeat, lastHeartbeat, lastChange, dog, hungFor,
                 sweepAge, pollAge, unseen>>

Tick ==
  /\ dog < Timeout
  /\ "core 1" \in hung \/ sweepAge < WorkerGap
  /\ "core 0" \in hung \/ pollAge < PollGap
  /\ clock' = (clock + 1) % ClockModulus
  /\ dog' = dog + 1
  /\ hungFor' = IF hung = {} THEN 0 ELSE Older(hungFor, Limit + 1)
  /\ sweepAge' = Older(sweepAge, WorkerGap)
  /\ pollAge' = Older(pollAge, PollGap)
  /\ UNCHANGED <<heartbeat, lastHeartbeat, lastChange, hung, unseen>>

(* The watchdog resets the chip, which starts again within the gaps.         *)
Expire ==
  /\ dog = Timeout
  /\ \E now \in 0..PollGap : now <= WorkerGap /\ Boot(now)

Next == Sweep \/ Poll \/ Tick \/ Expire \/ \E core \in Cores : Hang(core)

Spec == Init /\ [][Next]_vars
-----------------------------------------------------------------------------
(* Properties.                                                               *)

(* While both cores run, every pass of the main loop feeds the watchdog:     *)
(* however the count and the clock wrap, no running board is reset.          *)
FedWhileBothRun == hung = {} => dog <= PollGap

(* A hang of either core, in any order, ends in a reset within the stale     *)
(* window, the watchdog's timeout and one pass of the main loop.             *)
HangEndsInTime == hungFor <= Limit
=============================================================================
