---------------------------- MODULE BoardActions ----------------------------
(* Board actions over HID report 20: LED, reboot, save-and-reboot; the flash *)
(* sector that holds the boot profile; and the reset that a save, a hang, a  *)
(* fault or a lost supply ends in.                                           *)
(*                                                                           *)
(* Core 0 is sequential: a step is one TinyUSB callback (inside              *)
(* usb_cdc_poll), one usb_hid_poll, the start-up of main, or, because the    *)
(* supply may fail in between, one of the two flash operations of a save.    *)
EXTENDS Naturals

CONSTANTS
  Default, P250, P280, \* boot profiles; the other two behave like P250
  OnRP2350,            \* the chip: an RP2040 runs P280 as P250
  HasLed, AllowReset,  \* capability bits 0 and 1; bit 2 (save) is always set
  Ports,               \* CDC interfaces
  RebootDelay          \* clock ticks between Completed and the reset

Profiles == {Default, P250, P280}

ASSUME BoardAssumption ==
  /\ OnRP2350 \in BOOLEAN /\ HasLed \in BOOLEAN /\ AllowReset \in BOOLEAN
  /\ Default # P250 /\ Default # P280 /\ P250 # P280
  /\ Profiles \cap {"erased", "garbage", "none", "unknown"} = {}
  /\ RebootDelay \in Nat \ {0}

VARIABLES
  sector,     \* the flash sector: a valid record of a profile, or neither
  mcu,        \* core 0: "off", "reset", "run", "hung", "erase", "program"
  core1,      \* the worker: "run", "hung" (still interruptible), "fault"
  (* survive a reset by the watchdog *)
  bitten,     \* the last reset came from the watchdog block
  armedMark,  \* scratch[4]: the mark watchdog_enable leaves
  faultMark,  \* scratch[0]: the mark isr_hardfault leaves
  (* captured at start-up *)
  boot, cause,
  (* usb_hid.c *)
  command,    \* action, status and error of report 20
  profile,    \* usb_hid_requested_profile
  reboot, delay,
  ep0,        \* a SET_REPORT waits for its data stage
  led, opened,
  (* history *)
  promise,    \* profile of the last save reported Completed, "none" if stale
  expired,    \* the last reset was not asked for: the watchdog ran out
  faulted     \* a core faulted since the last start-up

scratch  == <<bitten, armedMark, faultMark>>
hid      == <<command, profile, reboot, delay, ep0, led>>
history  == <<promise, expired, faulted>>
vars == <<sector, mcu, core1, scratch, boot, cause, hid, opened, history>>

Actions  == {"none", "led_off", "led_on", "reboot", "save"}
Statuses == {"idle", "pending", "completed", "invalid", "unsupported",
             "busy", "failed"}
Errors   == {"none", "malformed", "profile", "acknowledgement",
             "authorization", "unsupported", "cdc_open", "flash", "verify"}
Commands == [action : Actions, status : Statuses, error : Errors]
Result(a, s, e) == [action |-> a, status |-> s, error |-> e]

(* A request as it arrives: right length and version, bits 2-7 of its flags, *)
(* its action ("none": not 1-4), bits 0 and 1 of its flags, its argument.    *)
(* A packet shorter than announced reads as reserved bits: the buffer is     *)
(* filled with ones first.                                                   *)
Requests == [framed : BOOLEAN, reserved : BOOLEAN, action : Actions,
             confirm : BOOLEAN, ack : BOOLEAN,
             profile : Profiles \cup {"unknown"}]

Boots == [stored : Profiles \cup {"none"}, active : Profiles,
          source : {"defaults", "stored", "recovery"}]

Delays == 0..RebootDelay

TypeOK ==
  /\ sector \in Profiles \cup {"erased", "garbage"}
  /\ mcu \in {"off", "reset", "run", "hung", "erase", "program"}
  /\ core1 \in {"run", "hung", "fault"}
  /\ bitten \in BOOLEAN /\ armedMark \in BOOLEAN /\ faultMark \in BOOLEAN
  /\ boot \in Boots /\ cause \in {"unknown", "watchdog", "hardfault"}
  /\ command \in Commands /\ profile \in Profiles
  /\ reboot \in BOOLEAN /\ delay \in Delays
  /\ ep0 \in BOOLEAN /\ led \in BOOLEAN /\ opened \subseteq Ports
  /\ promise \in Profiles \cup {"none"}
  /\ expired \in BOOLEAN /\ faulted \in BOOLEAN
-----------------------------------------------------------------------------
(* Start-up.                                                                 *)

(* boot_config_decode: what the chip runs for a stored profile.              *)
Selected(p) == IF p = P280 /\ ~OnRP2350 THEN P250 ELSE p

Decode(content, recovery) ==
  IF content \notin Profiles
  THEN [stored |-> "none", active |-> Default, source |-> "defaults"]
  ELSE IF recovery /\ content # Default
  THEN [stored |-> content, active |-> Default, source |-> "recovery"]
  ELSE [stored |-> content, active |-> Selected(content), source |-> "stored"]

(* boot_config_clock_unavailable *)
ClockUnavailable(b) == [b EXCEPT !.active = Default, !.source = "defaults"]

WatchdogRecovery_AnyWatchdog == bitten

(* watchdog_enable_caused_reboot, sampled before the watchdog is enabled:    *)
(* watchdog_reboot clears the mark, a watchdog that ran out leaves it.       *)
WatchdogRecovery == bitten /\ armedMark

ResetCause == IF bitten /\ faultMark THEN "hardfault"
              ELSE IF bitten THEN "watchdog" ELSE "unknown"

Marks_NotArmed == faultMark' = FALSE /\ UNCHANGED armedMark

(* system_watchdog_enable forgets the fault it has just reported.            *)
Marks == armedMark' = TRUE /\ faultMark' = FALSE

(* main, up to its loop.  Setting a clock other than the default may fail.   *)
Boot ==
  /\ mcu = "reset"
  /\ mcu' = "run" /\ core1' = "run"
  /\ cause' = ResetCause /\ Marks
  /\ LET decoded == Decode(sector, WatchdogRecovery)
     IN  \/ boot' = decoded
         \/ decoded.active # Default /\ boot' = ClockUnavailable(decoded)
  /\ command' = Result("none", "idle", "none") /\ profile' = Default
  /\ reboot' = FALSE /\ delay' = 0 /\ ep0' = FALSE /\ led' = FALSE
  /\ opened' = {}
  /\ promise' = "none" /\ expired' = FALSE /\ faulted' = FALSE
  /\ UNCHANGED <<sector, bitten>>

Init ==
  /\ sector \in Profiles \cup {"erased", "garbage"}
  /\ mcu = "reset" /\ core1 = "run"
  /\ bitten = FALSE /\ armedMark = FALSE /\ faultMark = FALSE
  /\ boot = Decode("erased", FALSE) /\ cause = "unknown"
  /\ command = Result("none", "idle", "none") /\ profile = Default
  /\ reboot = FALSE /\ delay = 0 /\ ep0 = FALSE /\ led = FALSE
  /\ opened = {}
  /\ promise = "none" /\ expired = FALSE /\ faulted = FALSE
-----------------------------------------------------------------------------
(* TinyUSB callbacks.                                                        *)

Protected_OnlyPending == command.status = "pending"

(* A save that waits, or a reboot that is scheduled, is not disturbed.       *)
Protected == command.status = "pending" \/ reboot

(* tud_cdc_line_state_cb, mount and umount, as far as they matter here.      *)
Dtr(port) ==
  /\ mcu = "run"
  /\ \/ port \notin opened /\ opened' = opened \cup {port}
     \/ port \in opened /\ opened' = opened \ {port}
  /\ UNCHANGED <<sector, mcu, core1, scratch, boot, cause, hid, history>>

BusReset ==
  /\ mcu = "run"
  /\ opened' = {} /\ ep0' = FALSE
  /\ UNCHANGED <<sector, mcu, core1, scratch, boot, cause, command, profile,
                 reboot, delay, led, history>>

(* SET_REPORT, setup stage: a length that cannot be right is a result, too.  *)
SetupStage ==
  /\ mcu = "run" /\ ~Protected
  /\ \/ ep0' = TRUE /\ UNCHANGED command
     \/ ep0' = FALSE /\ command' = Result("none", "invalid", "malformed")
  /\ UNCHANGED <<sector, mcu, core1, scratch, boot, cause, profile, reboot,
                 delay, led, opened, history>>

(* A new setup packet ends a transfer that still waits for its data.         *)
Abandon ==
  /\ mcu = "run" /\ ep0
  /\ ep0' = FALSE
  /\ UNCHANGED <<sector, mcu, core1, scratch, boot, cause, command, profile,
                 reboot, delay, led, opened, history>>

Capable(action) == CASE action \in {"led_off", "led_on"} -> HasLed
                     [] action = "reboot"                -> AllowReset
                     [] OTHER                            -> action = "save"

(* Fields that the action does not use must be zero.                         *)
Spurious(r) ==
  \/ /\ r.action \in {"led_off", "led_on"}
     /\ r.confirm \/ r.ack \/ r.profile # Default
  \/ r.action = "reboot" /\ (r.ack \/ r.profile # Default)
  \/ r.action = "save" /\ r.profile = Default /\ r.ack

(* usb_hid_handle_command: its checks, in their order, with the result that  *)
(* each of them publishes.                                                   *)
Verdict(r) ==
  LET action == IF r.framed THEN r.action ELSE "none"
      save   == action = "save"
  IN  IF ~r.framed \/ r.reserved
      THEN Result(action, "invalid", "malformed")
      ELSE IF ~Capable(action)
      THEN Result(action, "unsupported", "unsupported")
      ELSE IF Spurious(r)
      THEN Result(action, "invalid", "malformed")
      ELSE IF save /\ r.profile \notin Profiles
      THEN Result(action, "invalid", "profile")
      ELSE IF action \in {"reboot", "save"} /\ ~r.confirm
      THEN Result(action, "invalid", "authorization")
      ELSE IF save /\ r.profile # Default /\ ~r.ack
      THEN Result(action, "invalid", "acknowledgement")
      ELSE IF save /\ opened # {}
      THEN Result(action, "busy", "cdc_open")
      ELSE Result(action, IF save THEN "pending" ELSE "completed", "none")

(* SET_REPORT, data stage.                                                   *)
DataStage ==
  /\ mcu = "run" /\ ep0 /\ ~Protected
  /\ ep0' = FALSE
  /\ \E r \in Requests :
       LET v    == Verdict(r)
           took == v.status \in {"pending", "completed"}
       IN  /\ command' = v
           /\ led' = IF took /\ v.action = "led_on" THEN TRUE
                     ELSE IF took /\ v.action = "led_off" THEN FALSE ELSE led
           /\ IF took /\ v.action = "reboot"
              THEN reboot' = TRUE /\ delay' = RebootDelay
              ELSE UNCHANGED <<reboot, delay>>
           /\ profile' = IF v.status = "pending" THEN r.profile ELSE profile
  /\ UNCHANGED <<sector, mcu, core1, scratch, boot, cause, opened, history>>
-----------------------------------------------------------------------------
(* usb_hid_poll.                                                             *)

SaveResult(s, e) == command' = Result("save", s, e)

SaveCompletes ==
  /\ SaveResult("completed", "none")
  /\ reboot' = TRUE /\ delay' = RebootDelay
  /\ promise' = profile

SaveBusy_Never == FALSE

(* The sessions are looked at again: the request may be a while old.         *)
SaveBusy == opened # {}

SaveBusyResult_Waits == UNCHANGED command

SaveBusyResult == SaveResult("busy", "cdc_open")

(* usb_hid_execute_pending_save up to the flash: boot_config_set accepts any *)
(* known profile, a sector that holds it already is left alone, and the SDK  *)
(* call fails if core 1 does not stop within a second, which a core in its   *)
(* fault handler never does.                                                 *)
ExecuteSave ==
  /\ mcu = "run" /\ command.status = "pending"
  /\ \/ /\ SaveBusy
        /\ SaveBusyResult
        /\ UNCHANGED <<mcu, reboot, delay, promise>>
     \/ /\ ~SaveBusy /\ sector = profile
        /\ SaveCompletes
        /\ UNCHANGED mcu
     \/ /\ ~SaveBusy /\ sector # profile
        /\ SaveResult("failed", "flash")
        /\ UNCHANGED <<mcu, reboot, delay, promise>>
     \/ /\ ~SaveBusy /\ sector # profile /\ core1 # "fault"
        /\ mcu' = "erase"
        /\ UNCHANGED <<command, reboot, delay, promise>>
  /\ UNCHANGED <<sector, core1, scratch, boot, cause, profile, ep0, led,
                 opened, expired, faulted>>

(* boot_config_program: erase, then program the first page ...               *)
Erase ==
  /\ mcu = "erase"
  /\ mcu' = "program"
  /\ sector' = "erased"
  /\ UNCHANGED <<core1, scratch, boot, cause, hid, opened, history>>

ProgramAndVerify_NoVerify ==
  /\ mcu = "program"
  /\ mcu' = "run"
  /\ sector' \in {profile, "garbage"}
  /\ SaveCompletes
  /\ UNCHANGED <<core1, scratch, boot, cause, profile, ep0, led, opened,
                 expired, faulted>>

(* ... and what the sector reads back as decides the result.                 *)
ProgramAndVerify ==
  /\ mcu = "program"
  /\ mcu' = "run"
  /\ \/ sector' = profile /\ SaveCompletes
     \/ /\ sector' = "garbage"
        /\ SaveResult("failed", "verify")
        /\ UNCHANGED <<reboot, delay, promise>>
  /\ UNCHANGED <<core1, scratch, boot, cause, profile, ep0, led, opened,
                 expired, faulted>>

(* system_reset, which is watchdog_reboot(0, 0, 0).                          *)
Reset ==
  /\ mcu = "run" /\ reboot /\ delay = 0
  /\ mcu' = "reset"
  /\ bitten' = TRUE /\ armedMark' = FALSE
  /\ UNCHANGED <<sector, core1, faultMark, boot, cause, hid, opened, history>>

Tick ==
  /\ mcu = "run" /\ delay > 0
  /\ delay' = delay - 1
  /\ UNCHANGED <<sector, mcu, core1, scratch, boot, cause, command, profile,
                 reboot, ep0, led, opened, history>>
-----------------------------------------------------------------------------
(* What goes wrong.                                                          *)

(* A core stops making progress, in an endless loop or in isr_hardfault.     *)
HangCore0 ==
  /\ mcu = "run"
  /\ mcu' = "hung"
  /\ \/ UNCHANGED <<faultMark, faulted>>
     \/ faultMark' = TRUE /\ faulted' = TRUE
  /\ UNCHANGED <<sector, core1, bitten, armedMark, boot, cause, hid, opened,
                 promise, expired>>

HangCore1 ==
  /\ mcu = "run" /\ core1 = "run"
  /\ \/ core1' = "hung" /\ UNCHANGED <<faultMark, faulted>>
     \/ core1' = "fault" /\ faultMark' = TRUE /\ faulted' = TRUE
  /\ UNCHANGED <<sector, mcu, bitten, armedMark, boot, cause, hid, opened,
                 promise, expired>>

(* What a flash operation leaves that is cut short.                          *)
CutShort ==
  CASE mcu = "erase"   -> {sector, "garbage", "erased"}
    [] mcu = "program" -> {profile, "garbage", "erased"}
    [] OTHER           -> {sector}

Unfed_IgnoresWorker == mcu = "hung"

(* Core 0 feeds the watchdog only while it loops and the worker's heartbeat  *)
(* moves; the watchdog may run out in the middle of a save.                  *)
Unfed == mcu = "hung" \/ (mcu \in {"run", "erase", "program"} /\ core1 # "run")

WatchdogExpires ==
  /\ Unfed
  /\ mcu' = "reset"
  /\ sector' \in CutShort
  /\ bitten' = TRUE /\ expired' = TRUE
  /\ UNCHANGED <<core1, armedMark, faultMark, boot, cause, hid, opened,
                 promise, faulted>>

PowerLoss ==
  /\ mcu # "off"
  /\ mcu' = "off"
  /\ sector' \in CutShort
  /\ UNCHANGED <<core1, scratch, boot, cause, hid, opened, history>>

PowerOn ==
  /\ mcu = "off"
  /\ mcu' = "reset"
  /\ bitten' = FALSE /\ armedMark' = FALSE /\ faultMark' = FALSE
  /\ expired' = FALSE /\ faulted' = FALSE
  /\ UNCHANGED <<sector, core1, boot, cause, hid, opened, promise>>
-----------------------------------------------------------------------------
Callback == \/ \E port \in Ports : Dtr(port)
            \/ BusReset \/ SetupStage \/ Abandon \/ DataStage
HidPoll  == ExecuteSave \/ Erase \/ ProgramAndVerify \/ Reset
Failure  == HangCore0 \/ HangCore1 \/ PowerLoss

Next == Callback \/ HidPoll \/ Tick \/ Failure
        \/ WatchdogExpires \/ PowerOn \/ Boot

Spec == Init /\ [][Next]_vars

(* main loops without end and reaches usb_hid_poll in every turn, time       *)
(* passes, a watchdog that is not fed runs out, and the chip starts after a  *)
(* reset.  Whether the host asks for anything, a core hangs or the supply    *)
(* comes back is left open.                                                  *)
FairSpec == /\ Spec
            /\ WF_vars(HidPoll) /\ WF_vars(Tick)
            /\ WF_vars(WatchdogExpires) /\ WF_vars(Boot)
-----------------------------------------------------------------------------
(* Properties.                                                               *)

Started == mcu = "reset" /\ mcu' = "run"

(* A save reported as Completed is in flash, and stays there until the next  *)
(* start whatever happens before it: further requests, hangs, a lost supply. *)
CompletedMeansStored == promise # "none" => sector = promise

(* The flash is not erased under an open CDC session, although sessions may  *)
(* open after the request was accepted.                                      *)
NoEraseUnderSession == mcu \in {"erase", "program"} => opened = {}

(* What the two above and the action properties below rest on.               *)

(* The session check still holds when the flash operations run, and nothing  *)
(* new is accepted while they do.                                            *)
SavingInv == mcu \in {"erase", "program"} =>
               command.status = "pending" /\ opened = {}

(* A scheduled reboot has no save waiting behind it.                         *)
RebootInv == reboot => command.status # "pending"

PromiseInv == promise # "none" => reboot /\ sector = promise

(* The marks tell a watchdog that ran out from a reset that was asked for,   *)
(* and a fault from a hang.                                                  *)
MarksInv ==
  /\ faultMark = faulted
  /\ mcu \notin {"off", "reset"} => armedMark /\ ~expired
  /\ mcu = "reset" => (expired <=> bitten /\ armedMark)

(* The inductive invariant: a save, a scheduled reboot and the reset marks   *)
(* exclude each other as the code means them to.                             *)
BootInv == TypeOK /\ SavingInv /\ RebootInv /\ PromiseInv /\ MarksInv

(* The start after a completed save reads the saved profile back, and runs   *)
(* it unless the watchdog had to step in or the clock cannot be set: the     *)
(* intended reset goes through the watchdog, too, and is not mistaken for a  *)
(* hang.                                                                     *)
SavedProfileBoots ==
  [][Started /\ promise # "none" =>
       /\ boot'.stored = promise
       /\ ~expired => boot'.source # "recovery"
       /\ boot'.source = "stored" => boot'.active = Selected(promise)]_vars

(* After a hang the board starts on the default clock, so a profile that     *)
(* hangs it does not do so again and again.                                  *)
HangFallsBack == [][Started /\ expired => boot'.active = Default]_vars

(* The reset cause says HardFault exactly when a core faulted since the last *)
(* start and the watchdog block did the reset.                               *)
FaultReported ==
  [][Started => (cause' = "hardfault" <=> faulted /\ bitten)]_vars

(* Once a reboot is scheduled no request replaces the result, cancels the    *)
(* reboot or puts it off.                                                    *)
ScheduledRebootStands ==
  [][reboot /\ mcu = "run" /\ mcu' = "run" =>
       command' = command /\ reboot' /\ delay' <= delay]_vars

(* A start after a failure: it falls back after a hang and reports a fault.  *)
StartAfterFailure == HangFallsBack /\ FaultReported

(* No core and no timer waits for another: a poll of the main loop that has  *)
(* a save or a reset to do can do it, the countdown to a reset can go on, a  *)
(* watchdog that is not fed can run out, and a reset ends in a start.        *)
HidPollDue ==
  \/ mcu = "run" /\ (command.status = "pending" \/ (reboot /\ delay = 0))
  \/ mcu \in {"erase", "program"}

NothingBlocks ==
  /\ HidPollDue => ENABLED <<HidPoll>>_vars
  /\ mcu = "run" /\ delay > 0 => ENABLED <<Tick>>_vars
  /\ Unfed => ENABLED <<WatchdogExpires>>_vars
  /\ mcu = "reset" => ENABLED <<Boot>>_vars

(* A save that was accepted gets its result, or the power fails.             *)
SaveResolves ==
  command.status = "pending" ~> command.status # "pending" \/ mcu = "off"

(* A scheduled reboot happens: as long as it has not, the countdown goes on, *)
(* and at its end the board resets.                                          *)
RebootHappens ==
  \A n \in Delays :
    reboot /\ delay = n ~> mcu \in {"reset", "off"} \/ (reboot /\ delay < n)

(* A board with a core that hangs starts again.                              *)
HangRecovers == mcu = "hung" \/ core1 # "run" ~>
                  (mcu = "run" /\ core1 = "run") \/ mcu = "off"
=============================================================================
