------------------------- MODULE BoardActionsProofs -------------------------
(* BootInv is inductive, for every set of CDC interfaces, chip, set of       *)
(* capabilities and reboot delay, and the safety and action properties of    *)
(* BoardActions follow from it.                                              *)
EXTENDS BoardActions, TLAPS

(* The profiles are told apart, and are none of the other words.             *)
LEMMA Distinct ==
  /\ Default # P250 /\ Default # P280 /\ P250 # P280
  /\ "none" \notin Profiles /\ "erased" \notin Profiles
  /\ "garbage" \notin Profiles
  /\ RebootDelay \in Nat \ {0}
BY BoardAssumption

(* The countdown starts at RebootDelay and stays in its range.               *)
LEMMA DelayRange ==
  /\ 0 \in Delays /\ RebootDelay \in Delays
  /\ \A d \in Delays : d \in Nat /\ (d > 0 => d - 1 \in Delays)
BY Distinct DEF Delays

(* Every result that report 20 can show is well typed.                       *)
LEMMA ResultTyped ==
  ASSUME NEW a \in Actions, NEW s \in Statuses, NEW e \in Errors
  PROVE  /\ Result(a, s, e) \in Commands
         /\ Result(a, s, e).action = a /\ Result(a, s, e).status = s
BY DEF Result, Commands

(* A verdict is a well-formed result, and only a save waits.                 *)
LEMMA VerdictTyped ==
  ASSUME NEW r \in Requests
  PROVE  /\ Verdict(r) \in Commands
         /\ Verdict(r).status = "pending" => r.profile \in Profiles
BY SMTT(60) DEF Requests, Verdict, Result, Commands, Actions, Statuses, Errors

(* Start-up runs a profile of the chip; after a hang it is the default one.  *)
LEMMA DecodeTyped ==
  ASSUME NEW content \in Profiles \cup {"erased", "garbage"},
         NEW recovery \in BOOLEAN
  PROVE  /\ Decode(content, recovery) \in Boots
         /\ ClockUnavailable(Decode(content, recovery)) \in Boots
         /\ recovery => Decode(content, recovery).active = Default
         /\ ClockUnavailable(Decode(content, recovery)).active = Default
<1>1. Default \in Profiles /\ P250 \in Profiles /\ Selected(Default) = Default
  BY Distinct DEF Profiles, Selected
<1>2. content \in Profiles => Selected(content) \in Profiles
  BY <1>1 DEF Selected
<1>3. Decode(content, recovery) \in Boots
  BY <1>1, <1>2 DEF Decode, Boots
<1>4. ClockUnavailable(Decode(content, recovery)) \in Boots
  BY <1>1, <1>3 DEF ClockUnavailable, Boots
<1>5. recovery => Decode(content, recovery).active = Default
  BY <1>1 DEF Decode
<1>6. ClockUnavailable(Decode(content, recovery)).active = Default
  BY <1>3 DEF ClockUnavailable, Boots
<1>7. QED
  BY <1>3, <1>4, <1>5, <1>6

(* What start-up reports of a record that decodes.                           *)
LEMMA DecodeStored ==
  ASSUME NEW content \in Profiles, NEW recovery \in BOOLEAN
  PROVE  /\ Decode(content, recovery).stored = content
         /\ ClockUnavailable(Decode(content, recovery)).stored = content
         /\ ClockUnavailable(Decode(content, recovery)).source = "defaults"
         /\ ~recovery => Decode(content, recovery).source = "stored"
         /\ Decode(content, recovery).source = "stored" =>
              Decode(content, recovery).active = Selected(content)
BY SMTT(60) DEF Decode, ClockUnavailable, Selected

(* Before the first start-up nothing is promised and no mark is set.         *)
LEMMA BootInit == Init => BootInv
<1> SUFFICES ASSUME Init PROVE BootInv
  OBVIOUS
<1>1. boot \in Boots
  BY DecodeTyped DEF Init
<1>2. command \in Commands /\ command.status = "idle"
  BY ResultTyped DEF Init, Actions, Statuses, Errors
<1>3. profile \in Profiles /\ delay \in Delays
  BY DelayRange DEF Init, Profiles
<1>4. QED
  BY <1>1, <1>2, <1>3 DEF Init, BootInv, TypeOK, SavingInv, RebootInv,
     PromiseInv, MarksInv
-----------------------------------------------------------------------------
(* One lemma per group of steps, one step per action, and under it one per   *)
(* conjunct.  The session callbacks and an abandoned transfer touch neither  *)
(* the result nor the reset.                                                 *)
LEMMA SessionStep ==
  BootInv /\ ((\E port \in Ports : Dtr(port)) \/ BusReset \/ Abandon) => BootInv'
<1> SUFFICES ASSUME BootInv, (\E port \in Ports : Dtr(port)) \/ BusReset \/ Abandon
             PROVE  BootInv'
  OBVIOUS
<1>1. mcu = "run" /\ mcu' = mcu
  BY DEF Dtr, BusReset, Abandon
<1>2. UNCHANGED <<sector, core1, scratch, boot, cause>>
  BY DEF Dtr, BusReset, Abandon
<1>3. UNCHANGED <<command, profile, reboot, delay, led, history>>
  BY DEF Dtr, BusReset, Abandon, hid
<1>4. ep0' \in BOOLEAN /\ opened' \subseteq Ports
  BY DEF Dtr, BusReset, Abandon, hid, BootInv, TypeOK
<1>5. TypeOK'
  BY <1>1, <1>2, <1>3, <1>4 DEF BootInv, TypeOK, scratch, history
<1>6. SavingInv' /\ RebootInv' /\ PromiseInv'
  BY <1>1, <1>2, <1>3
     DEF BootInv, SavingInv, RebootInv, PromiseInv, history
<1>7. MarksInv'
  BY <1>1, <1>2, <1>3 DEF BootInv, MarksInv, scratch, history
<1>8. QED
  BY <1>5, <1>6, <1>7 DEF BootInv

(* A malformed length is a result, never of a pending save.                  *)
LEMMA SetupStep == BootInv /\ SetupStage => BootInv'
<1> SUFFICES ASSUME BootInv, SetupStage PROVE BootInv'
  OBVIOUS
<1>1. /\ mcu = "run" /\ mcu' = mcu /\ reboot = FALSE /\ ep0' \in BOOLEAN
      /\ UNCHANGED <<sector, core1, scratch, boot, cause, profile, reboot,
                     delay, led, opened, history>>
  BY DEF SetupStage, Protected, BootInv, TypeOK
<1>2. command' \in Commands
  <2>1. Result("none", "invalid", "malformed") \in Commands
    BY ResultTyped DEF Actions, Statuses, Errors
  <2>2. command' = command \/ command' = Result("none", "invalid", "malformed")
    BY DEF SetupStage
  <2>3. command \in Commands
    BY DEF BootInv, TypeOK
  <2>4. QED
    BY <2>1, <2>2, <2>3
<1>3. TypeOK'
  BY <1>1, <1>2 DEF BootInv, TypeOK, scratch, history
<1>4. SavingInv' /\ RebootInv' /\ PromiseInv'
  BY <1>1 DEF BootInv, SavingInv, RebootInv, PromiseInv, history
<1>5. MarksInv'
  BY <1>1 DEF BootInv, MarksInv, scratch, history
<1>6. QED
  BY <1>3, <1>4, <1>5 DEF BootInv

(* A request never gets past a pending save or a scheduled reboot.           *)
LEMMA DataStep == BootInv /\ DataStage => BootInv'
<1> SUFFICES ASSUME BootInv, DataStage PROVE BootInv'
  OBVIOUS
<1>1. PICK r \in Requests :
        LET v    == Verdict(r)
            took == v.status \in {"pending", "completed"}
        IN  /\ command' = v
            /\ led' = IF took /\ v.action = "led_on" THEN TRUE
                      ELSE IF took /\ v.action = "led_off" THEN FALSE
                      ELSE led
            /\ IF took /\ v.action = "reboot"
               THEN reboot' = TRUE /\ delay' = RebootDelay
               ELSE UNCHANGED <<reboot, delay>>
            /\ profile' = IF v.status = "pending" THEN r.profile
                          ELSE profile
  BY DEF DataStage
<1>2. /\ mcu = "run" /\ mcu' = mcu /\ reboot = FALSE /\ ep0' = FALSE
      /\ UNCHANGED <<sector, core1, scratch, boot, cause, opened, history>>
  BY DEF DataStage, Protected, BootInv, TypeOK
<1>3. /\ profile \in Profiles /\ led \in BOOLEAN /\ delay \in Delays
      /\ reboot \in BOOLEAN
  BY DEF BootInv, TypeOK
<1>4. command' \in Commands /\ profile' \in Profiles
  BY <1>1, <1>3, VerdictTyped
<1>5. led' \in BOOLEAN
  BY <1>1, <1>3
<1>6. reboot' \in BOOLEAN /\ delay' \in Delays
  BY <1>1, <1>3, DelayRange
<1>7. Verdict(r).status = "pending" => Verdict(r).action # "reboot"
  BY SMTT(60) DEF Verdict, Result, Requests, Actions
<1>8. RebootInv'
  <2>1. command' = Verdict(r)
    BY <1>1
  <2>2. Verdict(r).status = "pending" => reboot' = reboot
    BY <1>1, <1>7
  <2>3. QED
    BY <1>2, <2>1, <2>2 DEF RebootInv
<1>9. TypeOK'
  <2>1. UNCHANGED <<sector, mcu, core1, bitten, armedMark, faultMark, boot,
                    cause, opened, promise, expired, faulted>>
    BY <1>2 DEF scratch, history
  <2>2. TypeOK /\ ep0' \in BOOLEAN
    BY <1>2 DEF BootInv
  <2>3. QED
    BY <1>4, <1>5, <1>6, <2>1, <2>2 DEF TypeOK
<1>10. SavingInv' /\ PromiseInv'
  BY <1>2 DEF BootInv, SavingInv, PromiseInv, history
<1>11. MarksInv'
  BY <1>2 DEF BootInv, MarksInv, scratch, history
<1>12. QED
  BY <1>8, <1>9, <1>10, <1>11 DEF BootInv

LEMMA CallbackStep == BootInv /\ Callback => BootInv'
BY SessionStep, SetupStep, DataStep DEF Callback

(* The poll looks at the sessions again before it touches the flash, and     *)
(* promises a profile that the sector holds already.                         *)
LEMMA ExecuteSaveStep == BootInv /\ ExecuteSave => BootInv'
<1> SUFFICES ASSUME BootInv, ExecuteSave PROVE BootInv'
  OBVIOUS
<1>1. /\ mcu = "run" /\ command.status = "pending"
      /\ UNCHANGED <<sector, core1, scratch, boot, cause, profile, ep0, led,
                     opened, expired, faulted>>
  BY DEF ExecuteSave
<1>2. reboot = FALSE /\ promise = "none"
  BY <1>1 DEF BootInv, RebootInv, PromiseInv, TypeOK
<1>3. /\ delay \in Delays /\ profile \in Profiles /\ command \in Commands
  BY DEF BootInv, TypeOK
<1>4. \A s \in Statuses, e \in Errors :
        /\ Result("save", s, e) \in Commands
        /\ Result("save", s, e).status = s
  BY ResultTyped DEF Actions
<1>5. /\ \A s \in {"busy", "failed", "completed"} : s \in Statuses
      /\ \A e \in {"cdc_open", "flash", "none"} : e \in Errors
  BY DEF Statuses, Errors
<1>6. \/ /\ mcu' = "run" /\ command' \in Commands
         /\ UNCHANGED <<reboot, delay, promise>>
      \/ /\ mcu' = "run" /\ sector = profile /\ command' \in Commands
         /\ command'.status = "completed"
         /\ reboot' = TRUE /\ delay' = RebootDelay /\ promise' = profile
      \/ /\ mcu' = "erase" /\ opened = {}
         /\ UNCHANGED <<command, reboot, delay, promise>>
  <2>1. CASE SaveBusy /\ SaveBusyResult /\ UNCHANGED <<mcu, reboot, delay, promise>>
    BY <1>1, <1>4, <1>5, <2>1 DEF SaveBusyResult, SaveResult
  <2>2. CASE ~SaveBusy /\ sector = profile /\ SaveCompletes /\ UNCHANGED mcu
    BY <1>1, <1>4, <1>5, <2>2 DEF SaveCompletes, SaveResult
  <2>3. CASE SaveResult("failed", "flash") /\ UNCHANGED <<mcu, reboot, delay, promise>>
    BY <1>1, <1>4, <1>5, <2>3 DEF SaveResult
  <2>4. CASE /\ ~SaveBusy /\ mcu' = "erase"
             /\ UNCHANGED <<command, reboot, delay, promise>>
    BY <2>4 DEF SaveBusy
  <2>5. QED
    BY <2>1, <2>2, <2>3, <2>4 DEF ExecuteSave
<1>7. /\ mcu' \in {"run", "erase"} /\ command' \in Commands
      /\ reboot' \in BOOLEAN /\ delay' \in Delays
      /\ promise' \in Profiles \cup {"none"}
  BY <1>2, <1>3, <1>6, DelayRange
<1>8. TypeOK'
  BY <1>1, <1>7 DEF BootInv, TypeOK, scratch
<1>9. SavingInv'
  BY <1>1, <1>6 DEF SavingInv
<1>10. RebootInv'
  BY <1>1, <1>2, <1>6 DEF RebootInv
<1>11. PromiseInv'
  BY <1>1, <1>2, <1>6 DEF PromiseInv
<1>12. MarksInv'
  BY <1>1, <1>7 DEF BootInv, MarksInv, scratch
<1>13. QED
  BY <1>8, <1>9, <1>10, <1>11, <1>12 DEF BootInv

(* A save ends in a promise only with the sector as it must be.              *)
LEMMA ProgramStep == BootInv /\ ProgramAndVerify => BootInv'
<1> SUFFICES ASSUME BootInv, ProgramAndVerify PROVE BootInv'
  OBVIOUS
<1>1. /\ mcu = "program" /\ mcu' = "run"
      /\ UNCHANGED <<core1, scratch, boot, cause, profile, ep0, led, opened,
                     expired, faulted>>
  BY DEF ProgramAndVerify
<1>2. command.status = "pending" /\ reboot = FALSE /\ promise = "none"
  BY <1>1 DEF BootInv, SavingInv, RebootInv, PromiseInv, TypeOK
<1>3. delay \in Delays /\ profile \in Profiles
  BY DEF BootInv, TypeOK
<1>4. /\ Result("save", "completed", "none") \in Commands
      /\ Result("save", "completed", "none").status = "completed"
      /\ Result("save", "failed", "verify") \in Commands
      /\ Result("save", "failed", "verify").status = "failed"
  BY ResultTyped DEF Actions, Statuses, Errors
<1>5. \/ /\ sector' = profile /\ reboot' = TRUE /\ delay' = RebootDelay
         /\ promise' = profile
         /\ command' \in Commands /\ command'.status = "completed"
      \/ /\ sector' = "garbage"
         /\ command' \in Commands /\ command'.status = "failed"
         /\ UNCHANGED <<reboot, delay, promise>>
  BY <1>4 DEF ProgramAndVerify, SaveCompletes, SaveResult
<1>6. /\ sector' \in Profiles \cup {"erased", "garbage"}
      /\ command' \in Commands /\ reboot' \in BOOLEAN /\ delay' \in Delays
      /\ promise' \in Profiles \cup {"none"}
  BY <1>2, <1>3, <1>5, DelayRange
<1>7. TypeOK'
  BY <1>1, <1>6 DEF BootInv, TypeOK, scratch
<1>8. SavingInv' /\ RebootInv'
  BY <1>1, <1>2, <1>5 DEF SavingInv, RebootInv
<1>9. PromiseInv'
  BY <1>1, <1>2, <1>5 DEF PromiseInv
<1>10. MarksInv'
  BY <1>1 DEF BootInv, MarksInv, scratch
<1>11. QED
  BY <1>7, <1>8, <1>9, <1>10 DEF BootInv

(* An erase has promised nothing yet, and the reset keeps the promise.       *)
LEMMA EraseResetStep == BootInv /\ (Erase \/ Reset) => BootInv'
<1> SUFFICES ASSUME BootInv, Erase \/ Reset PROVE BootInv'
  OBVIOUS
<1>1. CASE Erase
  <2>1. /\ mcu = "erase" /\ mcu' = "program" /\ sector' = "erased"
        /\ UNCHANGED <<core1, scratch, boot, cause, hid, opened, history>>
    BY <1>1 DEF Erase
  <2>2. promise = "none"
    BY <2>1 DEF BootInv, SavingInv, RebootInv, PromiseInv
  <2>3. TypeOK'
    BY <2>1 DEF BootInv, TypeOK, scratch, hid, history
  <2>4. SavingInv' /\ RebootInv' /\ PromiseInv'
    BY <2>1, <2>2 DEF BootInv, SavingInv, RebootInv, PromiseInv, hid, history
  <2>5. MarksInv'
    BY <2>1 DEF BootInv, MarksInv, scratch, history
  <2>6. QED
    BY <2>3, <2>4, <2>5 DEF BootInv
<1>2. CASE Reset
  <2>1. /\ mcu = "run" /\ mcu' = "reset" /\ bitten' = TRUE /\ armedMark' = FALSE
        /\ UNCHANGED <<sector, core1, faultMark, boot, cause, hid, opened,
                       history>>
    BY <1>2 DEF Reset
  <2>2. TypeOK'
    <3>1. UNCHANGED <<sector, core1, faultMark, boot, cause, command, profile,
                      reboot, delay, ep0, led, opened, promise, expired,
                      faulted>>
      BY <2>1 DEF hid, history
    <3>2. TypeOK
      BY DEF BootInv
    <3>3. mcu' = "reset" /\ bitten' \in BOOLEAN /\ armedMark' \in BOOLEAN
      BY <2>1
    <3>4. QED
      BY <3>1, <3>2, <3>3 DEF TypeOK
  <2>3. /\ UNCHANGED <<sector, command, reboot, opened, promise>>
        /\ mcu' \notin {"erase", "program"}
    BY <2>1 DEF hid, history
  <2>4. SavingInv'
    BY <2>3 DEF SavingInv
  <2>5. RebootInv' /\ PromiseInv'
    BY <2>3 DEF BootInv, RebootInv, PromiseInv
  <2>6. MarksInv'
    BY <2>1 DEF BootInv, MarksInv, history
  <2>7. QED
    BY <2>2, <2>4, <2>5, <2>6 DEF BootInv
<1>3. QED
  BY <1>1, <1>2

LEMMA HidPollStep == BootInv /\ HidPoll => BootInv'
BY ExecuteSaveStep, ProgramStep, EraseResetStep DEF HidPoll

(* A flash operation that is cut short has promised nothing yet.             *)
LEMMA CutShortTyped ==
  ASSUME BootInv
  PROVE  /\ CutShort \subseteq Profiles \cup {"erased", "garbage"}
         /\ promise # "none" => CutShort = {sector}
<1>1. sector \in Profiles \cup {"erased", "garbage"} /\ profile \in Profiles
  BY DEF BootInv, TypeOK
<1>2. mcu \in {"erase", "program"} => promise = "none"
  BY DEF BootInv, SavingInv, RebootInv, PromiseInv
<1>3. CASE mcu = "erase"
  BY <1>1, <1>2, <1>3 DEF CutShort
<1>4. CASE mcu = "program"
  BY <1>1, <1>2, <1>4 DEF CutShort
<1>5. CASE mcu \notin {"erase", "program"}
  BY <1>1, <1>5 DEF CutShort
<1>6. QED
  BY <1>3, <1>4, <1>5

(* A core that hangs changes at most the fault mark, with its history.       *)
LEMMA HangStep == BootInv /\ (HangCore0 \/ HangCore1) => BootInv'
<1> SUFFICES ASSUME BootInv, HangCore0 \/ HangCore1 PROVE BootInv'
  OBVIOUS
<1>1. /\ mcu = "run" /\ mcu' \in {"run", "hung"}
      /\ UNCHANGED <<sector, bitten, armedMark, boot, cause, hid, opened,
                     promise, expired>>
  BY DEF HangCore0, HangCore1
<1>2. core1 \in {"run", "hung", "fault"} /\ core1' \in {"run", "hung", "fault"}
  BY DEF HangCore0, HangCore1, BootInv, TypeOK
<1>3. \/ UNCHANGED <<faultMark, faulted>>
      \/ faultMark' = TRUE /\ faulted' = TRUE
  BY DEF HangCore0, HangCore1
<1>4. TypeOK'
  <2>1. faultMark' \in BOOLEAN /\ faulted' \in BOOLEAN
    BY <1>3 DEF BootInv, TypeOK
  <2>2. QED
    BY <1>1, <1>2, <2>1 DEF BootInv, TypeOK, hid
<1>5. SavingInv' /\ RebootInv' /\ PromiseInv'
  BY <1>1 DEF BootInv, SavingInv, RebootInv, PromiseInv, hid
<1>6. MarksInv'
  BY <1>1, <1>3 DEF BootInv, MarksInv
<1>7. QED
  BY <1>4, <1>5, <1>6 DEF BootInv

(* The supply fails, or the watchdog runs out.                               *)
LEMMA StopStep == BootInv /\ (PowerLoss \/ WatchdogExpires) => BootInv'
<1> SUFFICES ASSUME BootInv, PowerLoss \/ WatchdogExpires PROVE BootInv'
  OBVIOUS
<1>1. /\ mcu' \in {"off", "reset"} /\ sector' \in CutShort
      /\ UNCHANGED <<core1, armedMark, faultMark, boot, cause, hid, opened,
                     promise, faulted>>
  BY DEF PowerLoss, WatchdogExpires, scratch, history
<1>2. /\ sector' \in Profiles \cup {"erased", "garbage"}
      /\ promise # "none" => sector' = sector
  BY <1>1, CutShortTyped
<1>3. bitten' \in BOOLEAN /\ expired' \in BOOLEAN
  BY DEF PowerLoss, WatchdogExpires, scratch, history, BootInv, TypeOK
<1>4. TypeOK'
  BY <1>1, <1>2, <1>3 DEF BootInv, TypeOK, hid
<1>5. SavingInv' /\ RebootInv' /\ PromiseInv'
  BY <1>1, <1>2 DEF BootInv, SavingInv, RebootInv, PromiseInv, hid
<1>6. MarksInv'
  <2>1. CASE PowerLoss
    BY <1>1, <2>1 DEF PowerLoss, BootInv, MarksInv
  <2>2. CASE WatchdogExpires
    <3>1. armedMark = TRUE
      BY <2>2 DEF WatchdogExpires, Unfed, BootInv, MarksInv, TypeOK
    <3>2. bitten' = TRUE /\ expired' = TRUE /\ mcu' = "reset"
      BY <2>2 DEF WatchdogExpires
    <3>3. QED
      BY <1>1, <3>1, <3>2 DEF BootInv, MarksInv
  <2>3. QED
    BY <2>1, <2>2
<1>7. QED
  BY <1>4, <1>5, <1>6 DEF BootInv

LEMMA FailureStep == BootInv /\ (Failure \/ WatchdogExpires) => BootInv'
BY HangStep, StopStep DEF Failure

(* Start-up, power and time.                                                 *)
LEMMA BootStep == BootInv /\ (Boot \/ PowerOn \/ Tick) => BootInv'
<1> SUFFICES ASSUME BootInv, Boot \/ PowerOn \/ Tick PROVE BootInv'
  OBVIOUS
<1>1. CASE Boot
  <2>1. boot' \in Boots
    <3>1. sector \in Profiles \cup {"erased", "garbage"} /\ WatchdogRecovery \in BOOLEAN
      BY DEF BootInv, TypeOK, WatchdogRecovery
    <3>2. QED
      BY <1>1, <3>1, DecodeTyped DEF Boot
  <2>2. /\ command' \in Commands /\ command'.status = "idle"
        /\ profile' \in Profiles
    BY <1>1, ResultTyped DEF Boot, Actions, Statuses, Errors, Profiles
  <2>3. cause' \in {"unknown", "watchdog", "hardfault"}
    BY <1>1 DEF Boot, ResetCause
  <2>4. /\ mcu' = "run" /\ core1' = "run" /\ armedMark' = TRUE
        /\ faultMark' = FALSE /\ reboot' = FALSE /\ delay' = 0
        /\ ep0' = FALSE /\ led' = FALSE /\ opened' = {} /\ promise' = "none"
        /\ expired' = FALSE /\ faulted' = FALSE
        /\ UNCHANGED <<sector, bitten>>
    BY <1>1 DEF Boot, Marks
  <2>5. TypeOK'
    BY <2>1, <2>2, <2>3, <2>4, DelayRange DEF BootInv, TypeOK
  <2>6. SavingInv' /\ RebootInv' /\ PromiseInv'
    BY <2>4 DEF SavingInv, RebootInv, PromiseInv
  <2>7. MarksInv'
    BY <2>4 DEF MarksInv
  <2>8. QED
    BY <2>5, <2>6, <2>7 DEF BootInv
<1>2. CASE PowerOn
  <2>1. /\ mcu' = "reset" /\ bitten' = FALSE /\ armedMark' = FALSE
        /\ faultMark' = FALSE /\ expired' = FALSE /\ faulted' = FALSE
        /\ UNCHANGED <<sector, core1, boot, cause, hid, opened, promise>>
    BY <1>2 DEF PowerOn
  <2>2. TypeOK'
    BY <2>1 DEF BootInv, TypeOK, hid
  <2>3. SavingInv' /\ RebootInv' /\ PromiseInv'
    BY <2>1 DEF BootInv, SavingInv, RebootInv, PromiseInv, hid
  <2>4. MarksInv'
    BY <2>1 DEF MarksInv
  <2>5. QED
    BY <2>2, <2>3, <2>4 DEF BootInv
<1>3. CASE Tick
  <2>1. /\ mcu = "run" /\ delay > 0 /\ delay' = delay - 1
        /\ UNCHANGED <<sector, mcu, core1, scratch, boot, cause, command,
                       profile, reboot, ep0, led, opened, history>>
    BY <1>3 DEF Tick
  <2>2. delay' \in Delays
    BY <2>1, DelayRange DEF BootInv, TypeOK
  <2>3. TypeOK'
    BY <2>1, <2>2 DEF BootInv, TypeOK, scratch, history
  <2>4. SavingInv' /\ RebootInv' /\ PromiseInv'
    BY <2>1 DEF BootInv, SavingInv, RebootInv, PromiseInv, history
  <2>5. MarksInv'
    BY <2>1 DEF BootInv, MarksInv, scratch, history
  <2>6. QED
    BY <2>3, <2>4, <2>5 DEF BootInv
<1>4. QED
  BY <1>1, <1>2, <1>3

(* The four groups are all of Next.                                          *)
LEMMA BootNext == BootInv /\ [Next]_vars => BootInv'
<1> SUFFICES ASSUME BootInv, [Next]_vars PROVE BootInv'
  OBVIOUS
<1>1. CASE UNCHANGED vars
  BY <1>1 DEF vars, scratch, hid, history, BootInv, TypeOK, SavingInv,
     RebootInv, PromiseInv, MarksInv
<1>2. QED
  BY <1>1, CallbackStep, HidPollStep, FailureStep, BootStep DEF Next

(* The inductive invariant of the module: every state the firmware reaches,  *)
(* through any sequence of requests, resets and power failures, has it.      *)
THEOREM BoardInductive == Spec => []BootInv
BY BootInit, BootNext, PTL DEF Spec
-----------------------------------------------------------------------------
(* A save reported as Completed is in flash until the next start.            *)
THEOREM CompletedStored == Spec => []CompletedMeansStored
<1>1. BootInv => CompletedMeansStored
  BY DEF BootInv, PromiseInv, CompletedMeansStored
<1>2. QED
  BY <1>1, BoardInductive, PTL

(* No flash operation runs while a CDC session is open.                      *)
THEOREM ErasedWithoutSessions == Spec => []NoEraseUnderSession
<1>1. BootInv => NoEraseUnderSession
  BY DEF BootInv, SavingInv, NoEraseUnderSession
<1>2. QED
  BY <1>1, BoardInductive, PTL

(* A step that starts the firmware is the start-up of main, and nothing else *)
(* is.                                                                       *)
LEMMA StartedIsBoot == BootInv /\ [Next]_vars /\ Started => Boot
<1> SUFFICES ASSUME BootInv, [Next]_vars, Started PROVE Boot
  OBVIOUS
<1>1. ~Callback
  BY DEF Started, Callback, Dtr, BusReset, SetupStage, Abandon, DataStage
<1>2. ~HidPoll
  BY DEF Started, HidPoll, ExecuteSave, Erase, ProgramAndVerify, Reset
<1>3. ~Failure /\ ~Tick
  BY DEF Started, Failure, HangCore0, HangCore1, PowerLoss, Tick
<1>4. ~WatchdogExpires /\ ~PowerOn
  BY DEF Started, WatchdogExpires, Unfed, PowerOn
<1>5. QED
  BY <1>1, <1>2, <1>3, <1>4 DEF Next, vars, Started

(* The start after a completed save reads the saved profile and does not     *)
(* mistake the intended reset for a hang.                                    *)
THEOREM SavedBoots == Spec => SavedProfileBoots
<1>1. ASSUME BootInv, [Next]_vars, Started, promise # "none"
      PROVE  /\ boot'.stored = promise
             /\ ~expired => boot'.source # "recovery"
             /\ boot'.source = "stored" => boot'.active = Selected(promise)
  <2>1. Boot
    BY <1>1, StartedIsBoot
  <2>2. sector = promise /\ sector \in Profiles
    BY <1>1 DEF BootInv, PromiseInv, TypeOK
  <2>3. WatchdogRecovery \in BOOLEAN /\ (~expired => ~WatchdogRecovery)
    BY <1>1, <2>1 DEF BootInv, MarksInv, TypeOK, WatchdogRecovery, Boot
  <2>4. \/ boot' = Decode(sector, WatchdogRecovery)
        \/ boot' = ClockUnavailable(Decode(sector, WatchdogRecovery))
    BY <2>1 DEF Boot
  <2>5. QED
    BY <2>2, <2>3, <2>4, DecodeStored
<1>2. QED
  BY <1>1, BoardInductive, PTL DEF Spec, SavedProfileBoots

(* A board whose watchdog ran out starts on the default clock.               *)
THEOREM HangRecoversOnDefault == Spec => HangFallsBack
<1>1. ASSUME BootInv, [Next]_vars, Started, expired
      PROVE  boot'.active = Default
  <2>1. Boot
    BY <1>1, StartedIsBoot
  <2>2. /\ sector \in Profiles \cup {"erased", "garbage"}
        /\ WatchdogRecovery = TRUE
    BY <1>1, <2>1 DEF BootInv, MarksInv, TypeOK, WatchdogRecovery, Boot
  <2>3. \/ boot' = Decode(sector, WatchdogRecovery)
        \/ boot' = ClockUnavailable(Decode(sector, WatchdogRecovery))
    BY <2>1 DEF Boot
  <2>4. QED
    BY <2>2, <2>3, DecodeTyped
<1>2. QED
  BY <1>1, BoardInductive, PTL DEF Spec, HangFallsBack

(* The reported reset cause is HardFault exactly after a fault that the      *)
(* watchdog block ended.                                                     *)
THEOREM FaultIsReported == Spec => FaultReported
<1>1. ASSUME BootInv, [Next]_vars, Started
      PROVE  cause' = "hardfault" <=> faulted /\ bitten
  <2>1. Boot
    BY <1>1, StartedIsBoot
  <2>2. QED
    BY <1>1, <2>1 DEF Boot, ResetCause, BootInv, MarksInv, TypeOK
<1>2. QED
  BY <1>1, BoardInductive, PTL DEF Spec, FaultReported

(* A scheduled reboot is neither cancelled nor put off by a request.         *)
THEOREM RebootStands == Spec => ScheduledRebootStands
<1>1. ASSUME BootInv, [Next]_vars, reboot, mcu = "run", mcu' = "run"
      PROVE  command' = command /\ reboot' /\ delay' <= delay
  <2> USE <1>1
  <2>1. delay \in Nat /\ command.status # "pending"
    BY DelayRange DEF BootInv, TypeOK, RebootInv
  <2>2. CASE Callback
    <3>1. ~SetupStage /\ ~DataStage
      BY DEF SetupStage, DataStage, Protected
    <3>2. command' = command /\ reboot' = reboot /\ delay' = delay
      BY <2>2, <3>1 DEF Callback, Dtr, BusReset, Abandon, hid
    <3>3. QED
      BY <2>1, <3>2
  <2>3. CASE HidPoll
    BY <2>1, <2>3 DEF HidPoll, ExecuteSave, Erase, ProgramAndVerify, Reset
  <2>4. CASE Tick
    BY <2>1, <2>4 DEF Tick
  <2>5. CASE Failure
    BY <2>1, <2>5 DEF Failure, HangCore0, HangCore1, PowerLoss, hid
  <2>6. CASE WatchdogExpires \/ PowerOn \/ Boot
    BY <2>6 DEF WatchdogExpires, PowerOn, Boot
  <2>7. CASE UNCHANGED vars
    BY <2>1, <2>7 DEF vars, hid
  <2>8. QED
    BY <2>2, <2>3, <2>4, <2>5, <2>6, <2>7 DEF Next
<1>2. QED
  BY <1>1, BoardInductive, PTL DEF Spec, ScheduledRebootStands
-----------------------------------------------------------------------------
(* Progress.  What no prover can show is that a step is possible; given that *)
(* (NothingBlocks), the fairness of FairSpec ends every save and every hang. *)

(* How the stages of a save follow each other.                               *)
Pending == command.status = "pending"

SaveAt(where) == mcu = where /\ Pending

Resolved == ~Pending \/ mcu = "off"

LEMMA SaveMoves ==
  ASSUME BootInv, [Next]_vars
  PROVE  /\ SaveAt("run") => SaveAt("run")' \/ SaveAt("erase")'
                              \/ SaveAt("hung")' \/ SaveAt("reset")' \/ Resolved'
         /\ SaveAt("erase") => SaveAt("erase")' \/ SaveAt("program")'
                                \/ SaveAt("reset")' \/ Resolved'
         /\ SaveAt("program") => SaveAt("program")' \/ SaveAt("reset")'
                                  \/ Resolved'
         /\ SaveAt("hung") => SaveAt("hung")' \/ SaveAt("reset")' \/ Resolved'
         /\ SaveAt("reset") => SaveAt("reset")' \/ Resolved'
<1> USE DEF SaveAt, Resolved, Pending
<1>1. CASE Callback
  BY <1>1 DEF Callback, Dtr, BusReset, SetupStage, Abandon, DataStage
<1>2. CASE HidPoll
  BY <1>2 DEF HidPoll, ExecuteSave, Erase, ProgramAndVerify, Reset, hid,
     SaveResult, SaveCompletes, Result
<1>3. CASE Tick \/ Failure
  BY <1>3 DEF Tick, Failure, HangCore0, HangCore1, PowerLoss, hid
<1>4. CASE WatchdogExpires \/ PowerOn \/ Boot
  BY <1>4 DEF WatchdogExpires, Unfed, PowerOn, Boot, Result
<1>5. CASE UNCHANGED vars
  BY <1>5 DEF vars, hid
<1> QED
  BY <1>1, <1>2, <1>3, <1>4, <1>5 DEF Next

LEMMA SaveProgress ==
  ASSUME BootInv
  PROVE  /\ SaveAt("run") /\ HidPoll => SaveAt("erase")' \/ Resolved'
         /\ SaveAt("erase") /\ HidPoll => SaveAt("program")'
         /\ SaveAt("program") /\ HidPoll => Resolved'
         /\ SaveAt("hung") /\ WatchdogExpires => SaveAt("reset")'
         /\ SaveAt("reset") /\ Boot => Resolved'
<1> USE DEF SaveAt, Resolved, Pending
<1>1. SaveAt("run") /\ HidPoll => SaveAt("erase")' \/ Resolved'
  BY DEF HidPoll, ExecuteSave, Erase, ProgramAndVerify, Reset, SaveResult,
     SaveBusyResult, SaveCompletes, Result, BootInv, RebootInv
<1>2. SaveAt("erase") /\ HidPoll => SaveAt("program")'
  BY DEF HidPoll, ExecuteSave, Erase, ProgramAndVerify, Reset, hid
<1>3. SaveAt("program") /\ HidPoll => Resolved'
  BY DEF HidPoll, ExecuteSave, Erase, ProgramAndVerify, Reset, SaveResult,
     SaveCompletes, Result
<1>4. SaveAt("hung") /\ WatchdogExpires => SaveAt("reset")'
  BY DEF WatchdogExpires, hid
<1>5. SaveAt("reset") /\ Boot => Resolved'
  BY DEF Boot, Result
<1> QED
  BY <1>1, <1>2, <1>3, <1>4, <1>5

(* A save that was accepted gets its result, or the power fails, at whatever *)
(* point a core hangs or the watchdog steps in.                              *)
THEOREM SavesEnd == FairSpec /\ []NothingBlocks => SaveResolves
<1> DEFINE Run == SaveAt("run")
           Erasing == SaveAt("erase")
           Programming == SaveAt("program")
           Hung == SaveAt("hung")
           Restarting == SaveAt("reset")
<1>1. BootInv /\ [Next]_vars /\ Run =>
        Run' \/ Erasing' \/ Hung' \/ Restarting' \/ Resolved'
  BY SaveMoves
<1>2. BootInv /\ [Next]_vars /\ Erasing =>
        Erasing' \/ Programming' \/ Restarting' \/ Resolved'
  BY SaveMoves
<1>3. BootInv /\ [Next]_vars /\ Programming =>
        Programming' \/ Restarting' \/ Resolved'
  BY SaveMoves
<1>4. BootInv /\ [Next]_vars /\ Hung => Hung' \/ Restarting' \/ Resolved'
  BY SaveMoves
<1>5. BootInv /\ [Next]_vars /\ Restarting => Restarting' \/ Resolved'
  BY SaveMoves
<1>6. BootInv /\ Run /\ <<HidPoll>>_vars => Erasing' \/ Resolved'
  BY SaveProgress
<1>7. BootInv /\ Erasing /\ <<HidPoll>>_vars => Programming'
  BY SaveProgress
<1>8. BootInv /\ Programming /\ <<HidPoll>>_vars => Resolved'
  BY SaveProgress
<1>9. BootInv /\ Hung /\ <<WatchdogExpires>>_vars => Restarting'
  BY SaveProgress
<1>10. BootInv /\ Restarting /\ <<Boot>>_vars => Resolved'
  BY SaveProgress
<1>11. NothingBlocks =>
         /\ Run \/ Erasing \/ Programming => ENABLED <<HidPoll>>_vars
         /\ Hung => ENABLED <<WatchdogExpires>>_vars
         /\ Restarting => ENABLED <<Boot>>_vars
  BY DEF NothingBlocks, HidPollDue, SaveAt, Pending, Unfed
<1>12. BootInv /\ Pending =>
         Run \/ Erasing \/ Programming \/ Hung \/ Restarting \/ Resolved
  BY DEF BootInv, TypeOK, SaveAt, Resolved
<1> HIDE DEF Run, Erasing, Programming, Hung, Restarting
<1>13. Pending <=> command.status = "pending"
  BY DEF Pending
<1>14. Resolved <=> command.status # "pending" \/ mcu = "off"
  BY DEF Resolved, Pending
<1>15. Spec => []BootInv
  BY BoardInductive
<1> QED
  BY <1>1, <1>2, <1>3, <1>4, <1>5, <1>6, <1>7, <1>8, <1>9, <1>10, <1>11,
     <1>12, <1>13, <1>14, <1>15, PTL DEF FairSpec, Spec, SaveResolves

(* How a board with a core that hangs starts again.                          *)
Starting == mcu = "reset"

Recovered == (mcu = "run" /\ core1 = "run") \/ mcu = "off"

LEMMA HangMoves ==
  ASSUME [Next]_vars
  PROVE  /\ Unfed => Unfed' \/ Starting' \/ Recovered'
         /\ Starting => Starting' \/ Recovered'
<1> USE DEF Unfed, Starting, Recovered
<1>1. CASE Callback
  BY <1>1 DEF Callback, Dtr, BusReset, SetupStage, Abandon, DataStage
<1>2. CASE HidPoll
  BY <1>2 DEF HidPoll, ExecuteSave, Erase, ProgramAndVerify, Reset
<1>3. CASE Tick \/ Failure
  BY <1>3 DEF Tick, Failure, HangCore0, HangCore1, PowerLoss
<1>4. CASE WatchdogExpires \/ PowerOn \/ Boot
  BY <1>4 DEF WatchdogExpires, PowerOn, Boot
<1>5. CASE UNCHANGED vars
  BY <1>5 DEF vars
<1> QED
  BY <1>1, <1>2, <1>3, <1>4, <1>5 DEF Next

(* Whichever core hangs, and whatever the other one is doing, the board runs *)
(* again or is switched off.                                                 *)
THEOREM HangsRecover == FairSpec /\ []NothingBlocks => HangRecovers
<1>1. [Next]_vars /\ Unfed => Unfed' \/ Starting' \/ Recovered'
  BY HangMoves
<1>2. [Next]_vars /\ Starting => Starting' \/ Recovered'
  BY HangMoves
<1>3. Unfed /\ <<WatchdogExpires>>_vars => Starting'
  BY DEF WatchdogExpires, Starting
<1>4. Starting /\ <<Boot>>_vars => Recovered'
  BY DEF Boot, Recovered
<1>5. NothingBlocks => /\ Unfed => ENABLED <<WatchdogExpires>>_vars
                       /\ Starting => ENABLED <<Boot>>_vars
  BY DEF NothingBlocks, Starting
<1>6. BootInv /\ (mcu = "hung" \/ core1 # "run") =>
        Unfed \/ Starting \/ Recovered
  BY DEF BootInv, TypeOK, Unfed, Starting, Recovered
<1>7. Recovered <=> (mcu = "run" /\ core1 = "run") \/ mcu = "off"
  BY DEF Recovered
<1>8. Spec => []BootInv
  BY BoardInductive
<1> QED
  BY <1>1, <1>2, <1>3, <1>4, <1>5, <1>6, <1>7, <1>8, PTL
     DEF FairSpec, Spec, HangRecovers

(* How a scheduled reboot comes closer, with n the time that is left.        *)
CountsFrom(n) == mcu = "run" /\ reboot /\ delay = n

Ends == mcu \in {"reset", "off"}

Nearer(n) == Ends \/ (reboot /\ delay < n)

HungBefore(n) == mcu = "hung" /\ reboot /\ delay = n

LEMMA CountMoves ==
  ASSUME NEW n \in Delays, BootInv, [Next]_vars
  PROVE  /\ CountsFrom(n) => CountsFrom(n)' \/ HungBefore(n)' \/ Nearer(n)'
         /\ HungBefore(n) => HungBefore(n)' \/ Ends'
<1> USE DEF CountsFrom, HungBefore, Nearer, Ends
<1>1. n \in Nat /\ (reboot => command.status # "pending")
  BY DelayRange DEF BootInv, RebootInv
<1>2. CASE Callback
  <2>1. reboot => ~SetupStage /\ ~DataStage
    BY DEF SetupStage, DataStage, Protected
  <2> QED
    BY <1>2, <2>1 DEF Callback, Dtr, BusReset, Abandon, hid
<1>3. CASE HidPoll
  BY <1>1, <1>3 DEF HidPoll, ExecuteSave, Erase, ProgramAndVerify, Reset, hid
<1>4. CASE Tick
  BY <1>1, <1>4 DEF Tick
<1>5. CASE Failure
  BY <1>5 DEF Failure, HangCore0, HangCore1, PowerLoss, hid
<1>6. CASE WatchdogExpires \/ PowerOn \/ Boot
  BY <1>6 DEF WatchdogExpires, PowerOn, Boot, hid
<1>7. CASE UNCHANGED vars
  BY <1>7 DEF vars, hid
<1> QED
  BY <1>2, <1>3, <1>4, <1>5, <1>6, <1>7 DEF Next

LEMMA CountProgress ==
  ASSUME NEW n \in Delays, BootInv
  PROVE  /\ CountsFrom(n) /\ n > 0 /\ Tick => Nearer(n)'
         /\ CountsFrom(n) /\ n = 0 /\ HidPoll => Ends'
         /\ HungBefore(n) /\ WatchdogExpires => Ends'
         /\ reboot /\ delay = n => CountsFrom(n) \/ HungBefore(n) \/ Ends
<1> USE DEF CountsFrom, HungBefore, Nearer, Ends
<1>1. n \in Nat /\ (reboot => command.status # "pending")
  BY DelayRange DEF BootInv, RebootInv
<1>2. CountsFrom(n) /\ n > 0 /\ Tick => Nearer(n)'
  BY <1>1 DEF Tick
<1>3. CountsFrom(n) /\ n = 0 /\ HidPoll => Ends'
  BY <1>1 DEF HidPoll, ExecuteSave, Erase, ProgramAndVerify, Reset
<1>4. HungBefore(n) /\ WatchdogExpires => Ends'
  BY DEF WatchdogExpires
<1>5. reboot /\ delay = n => CountsFrom(n) \/ HungBefore(n) \/ Ends
  BY <1>1 DEF BootInv, TypeOK, SavingInv
<1> QED
  BY <1>2, <1>3, <1>4, <1>5

(* A scheduled reboot happens, although a core may hang before it: the       *)
(* countdown goes on and at its end usb_hid_poll resets the board, or the    *)
(* watchdog does it earlier.                                                 *)
THEOREM RebootsHappen == FairSpec /\ []NothingBlocks => RebootHappens
<1> SUFFICES ASSUME NEW n \in Delays
             PROVE  FairSpec /\ []NothingBlocks =>
                      (reboot /\ delay = n ~>
                         mcu \in {"reset", "off"} \/ (reboot /\ delay < n))
  BY DEF RebootHappens
<1> DEFINE Counts == CountsFrom(n)
           Hung   == HungBefore(n)
           Near   == Nearer(n)
           Left   == n > 0
<1>1. BootInv /\ [Next]_vars /\ Counts => Counts' \/ Hung' \/ Near'
  BY CountMoves
<1>2. BootInv /\ [Next]_vars /\ Hung => Hung' \/ Near'
  BY CountMoves DEF Nearer
<1>3. BootInv /\ Counts /\ Left /\ <<Tick>>_vars => Near'
  BY CountProgress
<1>4. BootInv /\ Counts /\ ~Left /\ <<HidPoll>>_vars => Near'
  <2>1. ~Left => n = 0
    BY DelayRange
  <2> QED
    BY <2>1, CountProgress DEF Nearer
<1>5. BootInv /\ Hung /\ <<WatchdogExpires>>_vars => Near'
  BY CountProgress DEF Nearer
<1>6. NothingBlocks /\ Counts /\ Left => ENABLED <<Tick>>_vars
  BY DEF NothingBlocks, CountsFrom
<1>7. NothingBlocks /\ Counts /\ ~Left => ENABLED <<HidPoll>>_vars
  <2>1. ~Left => n = 0
    BY DelayRange
  <2> QED
    BY <2>1 DEF NothingBlocks, HidPollDue, CountsFrom
<1>8. NothingBlocks /\ Hung => ENABLED <<WatchdogExpires>>_vars
  BY DEF NothingBlocks, Unfed, HungBefore
<1>9. BootInv /\ reboot /\ delay = n => Counts \/ Hung \/ Near
  BY CountProgress DEF Nearer
<1>10. Near <=> mcu \in {"reset", "off"} \/ (reboot /\ delay < n)
  BY DEF Nearer, Ends
<1>11. Left => Left'
  OBVIOUS
<1>12. ~Left => ~Left'
  OBVIOUS
<1>13. Spec => []BootInv
  BY BoardInductive
<1> HIDE DEF Counts, Hung, Near, Left
<1> QED
  BY <1>1, <1>2, <1>3, <1>4, <1>5, <1>6, <1>7, <1>8, <1>9, <1>10, <1>11,
     <1>12, <1>13, PTL DEF FairSpec, Spec

(* The start after a hang or a fault falls back and tells the cause.         *)
THEOREM FailureIsHandled == Spec => StartAfterFailure
  BY HangRecoversOnDefault, FaultIsReported DEF StartAfterFailure
=============================================================================
