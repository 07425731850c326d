------------------------- MODULE ResourceClaimProofs -------------------------
(* Proofs about ResourceClaim: for every board table and every number of     *)
(* channels no claim leaks or is shared, and the DMA handlers only ever see  *)
(* channels of their own ports.                                              *)
EXTENDS ResourceClaim, FiniteSetTheorems, TLAPS

ClaimedBy ==
  /\ \A c \in Channels :
       c \in claimed <=> c \in foreign \/ \E p \in Ports : c \in Held(p)
  /\ \A s \in Machines :
       s \in claimedSm <=> s \in foreignSm \/ \E p \in Ports : s \in machines[p]

Exclusive ==
  \A p \in Ports :
    /\ rx[p] \notin foreign /\ tx[p] \notin foreign
    /\ machines[p] \cap foreignSm = {}
    /\ rx[p] = tx[p] => rx[p] = None
    /\ \A q \in Ports \ {p} :
         /\ rx[p] = rx[q] => rx[p] = None
         /\ tx[p] = tx[q] => tx[p] = None
         /\ rx[p] = tx[q] => rx[p] = None
         /\ machines[p] \cap machines[q] = {}

Nothing(p) == rx[p] = None /\ tx[p] = None /\ machines[p] = {}

Equipped(p) == rx[p] # None /\ tx[p] # None

PlaceInv ==
  /\ pc # "idle" => port \in Ports
  /\ pc = "idle" => port = None
  /\ boot = "init" => todo \cap up = {}
  /\ pc \in {"start", "machines", "rx", "tx", "setup"} => port \notin up
  /\ pc = "reconfigure" => port \in up
  /\ boot = "failed" => pc = "idle"

HoldInv ==
  /\ \A p \in Ports : p \notin up /\ p # port => Nothing(p)
  /\ \A p \in up : Equipped(p)
  /\ pc \in {"start", "machines"} => Nothing(port)
  /\ pc = "rx" => rx[port] = None /\ tx[port] = None
  /\ pc = "tx" => rx[port] # None /\ tx[port] = None
  /\ pc \in {"setup", "arm", "own", "unmask", "mask", "disown", "stop",
             "reconfigure"} => Equipped(port)

OwnerInv ==
  /\ \A i \in Irqs : \A c \in Channels :
       owner[i][c] # None =>
         /\ owner[i][c] \in Ports /\ Irq(owner[i][c]) = i
         /\ rx[owner[i][c]] = c
  /\ \A p \in up : (p = port /\ pc = "stop") \/ owner[Irq(p)][rx[p]] = p
  /\ pc \in {"tx", "stop"} => \A i \in Irqs : owner[i][rx[port]] = None
  /\ pc = "unmask" => owner[Irq(port)][rx[port]] = port

MaskInv ==
  /\ \A i \in Irqs : \A c \in unmasked[i] : owner[i][c] # None
  /\ pc = "disown" => \A i \in Irqs : rx[port] \notin unmasked[i]

BusyInv ==
  /\ \A c \in busy : \E p \in Ports : c = rx[p] \/ c = tx[p]
  /\ pc = "tx" => rx[port] \notin busy

ClaimInv == /\ TypeOK /\ ClaimedBy /\ Exclusive /\ PlaceInv /\ HoldInv
            /\ OwnerInv /\ MaskInv /\ BusyInv
-----------------------------------------------------------------------------
LEMMA InitClaim == Init => ClaimInv
  <1> SUFFICES ASSUME Init PROVE ClaimInv
    OBVIOUS
  <1> USE ClaimAssumption
  <1>1. TypeOK
    BY DEF Init, TypeOK, Irqs
  <1>2. ClaimedBy /\ Exclusive
    <2>1. \A p \in Ports : rx[p] = None /\ tx[p] = None /\ machines[p] = {}
      BY DEF Init
    <2>2. claimed = foreign /\ claimedSm = foreignSm /\ None \notin foreign
      BY DEF Init
    <2> QED
      BY <2>1, <2>2 DEF ClaimedBy, Exclusive, Held
  <1>3. PlaceInv /\ HoldInv
    BY DEF Init, PlaceInv, HoldInv, Nothing, Equipped
  <1>4. OwnerInv /\ MaskInv /\ BusyInv
    BY DEF Init, OwnerInv, MaskInv, BusyInv, Irqs
  <1> QED
    BY <1>1, <1>2, <1>3, <1>4 DEF ClaimInv

(* An action of Next, by name.                                               *)
LEMMA Steps ==
  ASSUME Next
  PROVE  \/ StartReset \/ StartRefused \/ ClaimMachines \/ MachineTaken
         \/ NoRxChannel \/ NoTxChannel \/ Setup \/ Arm \/ Own \/ Unmask
         \/ (\E c \in Channels : ClaimRx(c)) \/ (\E c \in Channels : ClaimTx(c))
         \/ MaskRx \/ DisownRx \/ StopChannels
         \/ (\E p \in Ports : BootStart(p)) \/ (\E p \in Ports : BootDeinit(p))
         \/ BootVerdict \/ BootFailed \/ Launch \/ Reset
         \/ (\E p \in Ports : Pause(p)) \/ Resume \/ Reconfigured
         \/ ReconfigureFailed
         \/ (\E p \in Ports : Open(p)) \/ (\E p \in Ports : Close(p))
         \/ (\E p \in Ports : LaunchTx(p)) \/ (\E p \in Ports : PollRearm(p))
         \/ (\E c \in Channels : Complete(c))
         \/ (\E i \in Irqs, c \in Channels : Handler(i, c))
  BY Zenon DEF Next, Start, Claim, Release, Boot, Run, Apply, Dma

LEMMA TypeStep == ClaimInv /\ [Next]_vars => TypeOK'
  <1> SUFFICES ASSUME ClaimInv, [Next]_vars PROVE TypeOK'
    OBVIOUS
  <1>0. TypeOK /\ PlaceInv /\ HoldInv /\ OwnerInv
    BY DEF ClaimInv
  <1> USE ClaimAssumption, <1>0 DEF TypeOK
  <1>1. CASE UNCHANGED vars
    BY <1>1 DEF vars, bootVars, coreVars, claimVars, irqVars, dmaVars, static
  <1> USE DEF bootVars, coreVars, claimVars, irqVars, dmaVars, static, End,
          Begin
  <1>2. CASE StartReset
    BY <1>2 DEF StartReset
  <1>3. CASE StartRefused \/ MachineTaken \/ NoRxChannel \/ NoTxChannel
    BY <1>3 DEF StartRefused, MachineTaken, NoRxChannel, NoTxChannel,
       UnclaimMachines
  <1>4. CASE ClaimMachines
    BY <1>4 DEF ClaimMachines, Needs, Ports
  <1>5. CASE \E c \in Channels : ClaimRx(c) \/ ClaimTx(c)
    BY <1>5 DEF ClaimRx, ClaimTx
  <1>6. CASE Setup
    BY <1>6 DEF Setup
  <1>7. CASE Arm
    BY <1>7 DEF Arm, PlaceInv, HoldInv, Equipped
  <1>8. CASE Own
    BY <1>8 DEF Own, PlaceInv, HoldInv, Equipped, Irqs, Irq
  <1>9. CASE Unmask
    BY <1>9 DEF Unmask, PlaceInv, HoldInv, Equipped, Irqs, Irq
  <1>10. CASE MaskRx
    BY <1>10 DEF MaskRx, Irqs, Irq
  <1>11. CASE DisownRx
    BY <1>11 DEF DisownRx, Irqs, Irq
  <1>12. CASE StopChannels
    BY <1>12 DEF StopChannels, PlaceInv, HoldInv, Equipped, Abort,
       Held, UnclaimMachines
  <1>13. CASE \E p \in Ports : BootStart(p) \/ BootDeinit(p)
    BY <1>13 DEF BootStart, BootDeinit
  <1>14. CASE BootVerdict \/ BootFailed \/ Launch
    <2>1. CASE BootVerdict \/ BootFailed
      BY <2>1 DEF BootVerdict, BootFailed
    <2>2. CASE Launch
      BY <2>2 DEF Launch, Irqs
    <2> QED
      BY <1>14, <2>1, <2>2
  <1>15. CASE Reset
    BY <1>15 DEF Reset, Irqs
  <1>16. CASE \E p \in Ports : Pause(p) \/ Open(p) \/ Close(p)
    BY <1>16 DEF Pause, Open, Close, Irqs, Irq
  <1>17. CASE Resume \/ Reconfigured \/ ReconfigureFailed
    BY <1>17 DEF Resume, Reconfigured, ReconfigureFailed, PlaceInv, HoldInv,
       Equipped, Irqs, Irq, Held
  <1>18. CASE \E p \in Ports : LaunchTx(p) \/ PollRearm(p)
    BY <1>18 DEF LaunchTx, PollRearm, HoldInv, Equipped
  <1>19. CASE \E c \in Channels : Complete(c)
    BY <1>19 DEF Complete
  <1>20. CASE \E i \in Irqs, c \in Channels : Handler(i, c)
    BY <1>20 DEF Handler, OwnerInv, Irqs
  <1> QED
    BY <1>1, <1>2, <1>3, <1>4, <1>5, <1>6, <1>7, <1>8, <1>9, <1>10, <1>11,
       <1>12, <1>13, <1>14, <1>15, <1>16, <1>17, <1>18, <1>19, <1>20, Steps,
       Zenon

(* What most actions leave alone.                                            *)
LEMMA ClaimFrame ==
  ASSUME [Next]_vars
  PROVE  \/ UNCHANGED <<claimVars, static>>
         \/ StartReset \/ ClaimMachines \/ NoRxChannel \/ NoTxChannel
         \/ (\E c \in Channels : ClaimRx(c)) \/ (\E c \in Channels : ClaimTx(c))
         \/ StopChannels \/ Reset
  <1> DEFINE Same == UNCHANGED <<claimVars, static>>
  <1> USE DEF claimVars, static
  <1>1. CASE UNCHANGED vars
    BY <1>1 DEF vars
  <1>2. CASE StartRefused \/ MachineTaken \/ Setup \/ Arm \/ Own \/ Unmask
    BY <1>2 DEF StartRefused, MachineTaken, Setup, Arm, Own, Unmask
  <1>3. CASE MaskRx \/ DisownRx \/ BootVerdict \/ BootFailed \/ Launch
    BY <1>3 DEF MaskRx, DisownRx, BootVerdict, BootFailed, Launch
  <1>4. CASE Resume \/ Reconfigured \/ ReconfigureFailed
    BY <1>4 DEF Resume, Reconfigured, ReconfigureFailed
  <1>5. ASSUME NEW p \in Ports, BootStart(p) \/ BootDeinit(p) \/ Pause(p)
        PROVE  Same
    BY <1>5 DEF BootStart, BootDeinit, Pause
  <1>6. ASSUME NEW p \in Ports,
               Open(p) \/ Close(p) \/ LaunchTx(p) \/ PollRearm(p)
        PROVE  Same
    BY <1>6 DEF Open, Close, LaunchTx, PollRearm
  <1>7. ASSUME NEW c \in Channels, Complete(c) \/ \E i \in Irqs : Handler(i, c)
        PROVE  Same
    BY <1>7 DEF Complete, Handler
  <1> QED
    BY <1>1, <1>2, <1>3, <1>4, <1>5, <1>6, <1>7, Steps, Zenon

LEMMA BookStep == ClaimInv /\ [Next]_vars => ClaimedBy' /\ Exclusive'
  <1> SUFFICES ASSUME ClaimInv, [Next]_vars PROVE ClaimedBy' /\ Exclusive'
    OBVIOUS
  <1>0. TypeOK /\ PlaceInv /\ HoldInv /\ ClaimedBy /\ Exclusive
    BY DEF ClaimInv
  <1> USE ClaimAssumption, <1>0
  <1> DEFINE Books == ClaimedBy /\ Exclusive
  <1> SUFFICES Books'
    OBVIOUS
  <1>1. CASE UNCHANGED <<claimVars, static>>
    BY <1>1 DEF claimVars, static, ClaimedBy, Exclusive, Held
  <1> USE DEF TypeOK, PlaceInv, ClaimedBy, Exclusive, Held, static
  <1>2. CASE StartReset
    BY <1>2 DEF StartReset, HoldInv, Nothing
  <1>3. CASE ClaimMachines
    BY <1>3 DEF ClaimMachines, HoldInv, Nothing, Needs
  <1>4. CASE NoRxChannel
    BY <1>4 DEF NoRxChannel, UnclaimMachines
  <1>5. CASE NoTxChannel
    BY <1>5 DEF NoTxChannel, UnclaimMachines, HoldInv
  <1>6. CASE \E c \in Channels : ClaimRx(c)
    BY <1>6 DEF ClaimRx, HoldInv
  <1>7. CASE \E c \in Channels : ClaimTx(c)
    BY <1>7 DEF ClaimTx, HoldInv
  <1>8. CASE StopChannels
    BY <1>8 DEF StopChannels, UnclaimMachines, HoldInv, Equipped
  <1>9. CASE Reset
    BY <1>9 DEF Reset
  <1> QED
    BY <1>1, <1>2, <1>3, <1>4, <1>5, <1>6, <1>7, <1>8, <1>9, ClaimFrame

LEMMA PlaceStep == ClaimInv /\ [Next]_vars => PlaceInv'
  <1> SUFFICES ASSUME ClaimInv, [Next]_vars PROVE PlaceInv'
    OBVIOUS
  <1>0. PlaceInv
    BY DEF ClaimInv
  <1> USE ClaimAssumption, <1>0
      DEF PlaceInv, End, Begin, bootVars, coreVars, claimVars
  <1>1. CASE UNCHANGED vars
    BY <1>1 DEF vars
  <1>2. CASE StartReset
    BY <1>2 DEF StartReset
  <1>3. CASE StartRefused \/ MachineTaken \/ Setup
    BY <1>3 DEF StartRefused, MachineTaken, Setup
  <1>4. CASE ClaimMachines
    BY <1>4 DEF ClaimMachines
  <1>5. CASE NoRxChannel \/ NoTxChannel
    BY <1>5 DEF NoRxChannel, NoTxChannel
  <1>6. CASE \E c \in Channels : ClaimRx(c) \/ ClaimTx(c)
    BY <1>6 DEF ClaimRx, ClaimTx
  <1>7. CASE Arm \/ Own \/ Unmask
    BY <1>7 DEF Arm, Own, Unmask
  <1>8. CASE MaskRx \/ DisownRx \/ StopChannels
    BY <1>8 DEF MaskRx, DisownRx, StopChannels
  <1>9. CASE \E p \in Ports : BootStart(p) \/ BootDeinit(p)
    BY <1>9 DEF BootStart, BootDeinit
  <1>10. CASE BootVerdict \/ BootFailed \/ Launch \/ Reset
    BY <1>10 DEF BootVerdict, BootFailed, Launch, Reset
  <1>11. CASE Resume \/ Reconfigured \/ ReconfigureFailed
    BY <1>11 DEF Resume, Reconfigured, ReconfigureFailed
  <1>12. CASE \E p \in Ports : Pause(p) \/ Open(p) \/ Close(p)
    BY <1>12 DEF Pause, Open, Close,
       Worker
  <1>13. CASE \E p \in Ports : LaunchTx(p) \/ PollRearm(p)
    BY <1>13 DEF LaunchTx, PollRearm
  <1>14. CASE \E c \in Channels : Complete(c) \/ \E i \in Irqs : Handler(i, c)
    BY <1>14 DEF Complete, Handler
  <1> QED
    BY <1>1, <1>2, <1>3, <1>4, <1>5, <1>6, <1>7, <1>8, <1>9, <1>10, <1>11, <1>12, <1>13, <1>14, Steps, Zenon

LEMMA HoldStep == ClaimInv /\ [Next]_vars => HoldInv'
  <1> SUFFICES ASSUME ClaimInv, [Next]_vars PROVE HoldInv'
    OBVIOUS
  <1>0. PlaceInv /\ HoldInv
    BY DEF ClaimInv
  <1>t. /\ rx \in [Ports -> Channels \cup {None}]
        /\ tx \in [Ports -> Channels \cup {None}]
        /\ machines \in [Ports -> SUBSET Machines]
        /\ port \in Ports \cup {None} /\ up \subseteq Ports
    BY DEF ClaimInv, TypeOK
  <1> USE ClaimAssumption, <1>0
      DEF HoldInv, Nothing, Equipped, PlaceInv, End, Begin, bootVars, coreVars,
          claimVars
  <1>1. CASE UNCHANGED vars
    BY <1>1 DEF vars
  <1>2. CASE StartReset
    BY <1>t, <1>2 DEF StartReset
  <1>3. CASE StartRefused \/ MachineTaken
    BY <1>3 DEF StartRefused, MachineTaken
  <1>4. CASE ClaimMachines
    BY <1>t, <1>4 DEF ClaimMachines
  <1>5. CASE NoRxChannel \/ NoTxChannel
    BY <1>t, <1>5 DEF NoRxChannel, NoTxChannel, UnclaimMachines
  <1>6. CASE \E c \in Channels : ClaimRx(c)
    BY <1>t, <1>6 DEF ClaimRx
  <1>7. CASE \E c \in Channels : ClaimTx(c)
    BY <1>t, <1>7 DEF ClaimTx
  <1>8. CASE Setup \/ Arm \/ Own \/ Unmask
    BY <1>8 DEF Setup, Arm, Own, Unmask
  <1>9. CASE MaskRx \/ DisownRx
    BY <1>9 DEF MaskRx, DisownRx
  <1>10. CASE StopChannels
    BY <1>t, <1>10 DEF StopChannels, UnclaimMachines
  <1>11. CASE \E p \in Ports : BootStart(p) \/ BootDeinit(p)
    BY <1>11 DEF BootStart, BootDeinit
  <1>12. CASE BootVerdict \/ BootFailed \/ Launch
    BY <1>12 DEF BootVerdict, BootFailed, Launch
  <1>13. CASE Reset
    BY <1>13 DEF Reset
  <1>14. CASE \E p \in Ports : Pause(p)
    BY <1>14 DEF Pause, Worker
  <1>15. CASE Resume \/ Reconfigured \/ ReconfigureFailed
    BY <1>15 DEF Resume, Reconfigured, ReconfigureFailed
  <1>16. CASE \E p \in Ports : Open(p) \/ Close(p)
    BY <1>16 DEF Open, Close, Worker
  <1>17. CASE \E p \in Ports : LaunchTx(p) \/ PollRearm(p)
    BY <1>17 DEF LaunchTx, PollRearm
  <1>18. CASE \E c \in Channels : Complete(c) \/ \E i \in Irqs : Handler(i, c)
    BY <1>18 DEF Complete, Handler
  <1> QED
    BY <1>1, <1>2, <1>3, <1>4, <1>5, <1>6, <1>7, <1>8, <1>9, <1>10, <1>11,
       <1>12, <1>13, <1>14, <1>15, <1>16, <1>17, <1>18, Steps, Zenon

LEMMA OwnerStep == ClaimInv /\ [Next]_vars => OwnerInv'
  <1> SUFFICES ASSUME ClaimInv, [Next]_vars PROVE OwnerInv'
    OBVIOUS
  <1>0. PlaceInv /\ HoldInv /\ OwnerInv
    BY DEF ClaimInv
  <1>t. /\ rx \in [Ports -> Channels \cup {None}]
        /\ owner \in [Irqs -> [Channels -> Ports \cup {None}]]
        /\ port \in Ports \cup {None} /\ up \subseteq Ports
    BY DEF ClaimInv, TypeOK
  (* A channel that the port in hand holds is in no table under another name. *)
  <1>x. \A p, q \in Ports : rx[p] = rx[q] => p = q \/ rx[p] = None
    BY DEF ClaimInv, Exclusive
  <1>f. \A c \in Channels \ claimed, p \in Ports : rx[p] # c /\ tx[p] # c
    BY ClaimAssumption DEF ClaimInv, ClaimedBy, Held
  <1>i. \A p \in Ports : Irq(p) \in Irqs
    BY DEF Irq, Irqs
  <1> USE ClaimAssumption, <1>0
      DEF OwnerInv, HoldInv, Nothing, Equipped, PlaceInv, End, Begin, bootVars,
          coreVars, claimVars, irqVars
  <1>1. CASE UNCHANGED vars
    BY <1>1 DEF vars
  <1>2. CASE StartReset
    BY <1>t, <1>2 DEF StartReset
  <1>3. CASE StartRefused \/ MachineTaken \/ ClaimMachines
    BY <1>3 DEF StartRefused, MachineTaken, ClaimMachines
  <1>4. CASE NoRxChannel
    BY <1>4 DEF NoRxChannel
  <1>5. CASE NoTxChannel
    BY <1>t, <1>5 DEF NoTxChannel
  <1>6. CASE \E c \in Channels : ClaimRx(c)
    BY <1>t, <1>f, <1>6 DEF ClaimRx
  <1>7. CASE \E c \in Channels : ClaimTx(c)
    BY <1>7 DEF ClaimTx
  <1>8. CASE Setup \/ Arm \/ Unmask
    BY <1>8 DEF Setup, Arm, Unmask
  <1>19. CASE Own
    BY <1>t, <1>x, <1>i, <1>19 DEF Own
  <1>9. CASE MaskRx
    BY <1>9 DEF MaskRx
  <1>20. CASE DisownRx
    BY <1>t, <1>x, <1>i, <1>20 DEF DisownRx
  <1>10. CASE StopChannels
    BY <1>t, <1>x, <1>10 DEF StopChannels
  <1>11. CASE \E p \in Ports : BootStart(p) \/ BootDeinit(p)
    BY <1>11 DEF BootStart, BootDeinit
  <1>12. CASE BootVerdict \/ BootFailed \/ Launch
    BY <1>12 DEF BootVerdict, BootFailed, Launch
  <1>13. CASE Reset
    BY <1>13 DEF Reset
  <1>14. CASE \E p \in Ports : Pause(p)
    BY <1>14 DEF Pause, Worker
  <1>15. CASE Resume \/ Reconfigured \/ ReconfigureFailed
    BY <1>15 DEF Resume, Reconfigured, ReconfigureFailed
  <1>16. CASE \E p \in Ports : Open(p) \/ Close(p)
    BY <1>16 DEF Open, Close, Worker
  <1>17. CASE \E p \in Ports : LaunchTx(p) \/ PollRearm(p)
    BY <1>17 DEF LaunchTx, PollRearm
  <1>18. CASE \E c \in Channels : Complete(c) \/ \E i \in Irqs : Handler(i, c)
    BY <1>18 DEF Complete, Handler
  <1> QED
    BY <1>1, <1>2, <1>3, <1>4, <1>5, <1>6, <1>7, <1>8, <1>9, <1>10, <1>11,
       <1>12, <1>13, <1>14, <1>15, <1>16, <1>17, <1>18, <1>19, <1>20, Steps,
       Zenon

LEMMA MaskStep == ClaimInv /\ [Next]_vars => MaskInv'
  <1> SUFFICES ASSUME ClaimInv, [Next]_vars PROVE MaskInv'
    OBVIOUS
  <1>0. PlaceInv /\ HoldInv /\ OwnerInv /\ MaskInv
    BY DEF ClaimInv
  <1>t. /\ owner \in [Irqs -> [Channels -> Ports \cup {None}]]
        /\ unmasked \in [Irqs -> SUBSET Channels]
    BY DEF ClaimInv, TypeOK
  <1>x. \A p, q \in Ports : rx[p] = rx[q] => p = q \/ rx[p] = None
    BY DEF ClaimInv, Exclusive
  <1>i. \A p \in Ports : Irq(p) \in Irqs
    BY DEF Irq, Irqs
  <1> USE ClaimAssumption, <1>0
      DEF MaskInv, OwnerInv, HoldInv, Equipped, PlaceInv, End, Begin, bootVars,
          coreVars, claimVars, irqVars
  <1>1. CASE UNCHANGED vars
    BY <1>1 DEF vars
  <1>2. CASE StartReset \/ StartRefused \/ MachineTaken \/ ClaimMachines
    BY <1>2 DEF StartReset, StartRefused, MachineTaken, ClaimMachines
  <1>3. CASE NoRxChannel \/ NoTxChannel
    BY <1>3 DEF NoRxChannel, NoTxChannel
  <1>4. CASE \E c \in Channels : ClaimRx(c) \/ ClaimTx(c)
    BY <1>4 DEF ClaimRx, ClaimTx
  <1>5. CASE Setup \/ Arm
    BY <1>5 DEF Setup, Arm
  <1>6. CASE Own
    BY <1>t, <1>i, <1>6 DEF Own
  <1>7. CASE Unmask
    BY <1>t, <1>i, <1>7 DEF Unmask
  <1>8. CASE MaskRx
    <2>1. /\ pc = "mask" /\ pc' = "disown" /\ UNCHANGED <<owner, rx, port>>
          /\ unmasked' = [unmasked EXCEPT ![Irq(port)] = @ \ {rx[port]}]
      BY <1>8 DEF MaskRx
    <2>2. rx[port] # None /\ port \in Ports
      BY <2>1
    <2>3. \A i \in Irqs : unmasked'[i] \subseteq unmasked[i]
      BY <2>1, <1>t
    <2>4. rx[port] \notin unmasked'[Irq(port)]
      BY <2>1, <2>2, <1>t, <1>i
    <2>5. ASSUME NEW i \in Irqs, rx[port] \in unmasked[i] PROVE i = Irq(port)
      <3>1. rx[port] \in Channels /\ owner[i][rx[port]] # None
        BY <2>5, <1>t
      <3>2. PICK q \in Ports : q = owner[i][rx[port]]
        BY <3>1
      <3>3. Irq(q) = i /\ rx[q] = rx[port]
        BY <3>1, <3>2
      <3> QED
        BY <2>2, <3>3, <1>x
    <2> QED
      BY <2>1, <2>3, <2>4, <2>5
  <1>9. CASE DisownRx
    <2>1. /\ pc = "disown" /\ pc' = "stop" /\ UNCHANGED <<unmasked, rx, port>>
          /\ owner' = [owner EXCEPT ![Irq(port)][rx[port]] = None]
      BY <1>9 DEF DisownRx
    <2>2. \A i \in Irqs : rx[port] \notin unmasked[i]
      BY <2>1
    <2>3. ASSUME NEW i \in Irqs, NEW c \in unmasked[i]
          PROVE  owner'[i][c] # None
      <3>1. c # rx[port] /\ c \in Channels
        BY <2>2, <2>3, <1>t
      <3>2. owner'[i][c] = owner[i][c]
        BY <2>1, <3>1, <1>t
      <3> QED
        BY <3>2, <2>3
    <2> QED
      BY <2>1, <2>3
  <1>10. CASE StopChannels
    BY <1>10 DEF StopChannels
  <1>11. CASE \E p \in Ports : BootStart(p) \/ BootDeinit(p)
    BY <1>11 DEF BootStart, BootDeinit
  <1>12. CASE BootVerdict \/ BootFailed
    BY <1>12 DEF BootVerdict, BootFailed
  <1>13. CASE Launch
    BY <1>13 DEF Launch
  <1>14. CASE Reset
    BY <1>14 DEF Reset
  <1>15. CASE \E p \in Ports : Pause(p)
    BY <1>t, <1>i, <1>15 DEF Pause
  <1>16. CASE Resume
    BY <1>t, <1>i, <1>16 DEF Resume
  <1>17. CASE Reconfigured \/ ReconfigureFailed
    BY <1>17 DEF Reconfigured, ReconfigureFailed
  <1>18. CASE \E p \in Ports : Open(p) \/ Close(p)
    BY <1>18 DEF Open, Close
  <1>19. CASE \E p \in Ports : LaunchTx(p) \/ PollRearm(p)
    BY <1>19 DEF LaunchTx, PollRearm
  <1>20. CASE \E c \in Channels : Complete(c) \/ \E i \in Irqs : Handler(i, c)
    BY <1>20 DEF Complete, Handler
  <1> QED
    BY <1>1, <1>2, <1>3, <1>4, <1>5, <1>6, <1>7, <1>8, <1>9, <1>10, <1>11,
       <1>12, <1>13, <1>14, <1>15, <1>16, <1>17, <1>18, <1>19, <1>20, Steps,
       Zenon

LEMMA BusyStep == ClaimInv /\ [Next]_vars => BusyInv'
  <1> SUFFICES ASSUME ClaimInv, [Next]_vars PROVE BusyInv'
    OBVIOUS
  <1>0. PlaceInv /\ HoldInv /\ OwnerInv /\ BusyInv
    BY DEF ClaimInv
  <1>t. /\ rx \in [Ports -> Channels \cup {None}]
        /\ tx \in [Ports -> Channels \cup {None}]
        /\ up \subseteq Ports /\ busy \subseteq Channels
    BY DEF ClaimInv, TypeOK
  <1>f. \A c \in Channels \ claimed, p \in Ports : rx[p] # c /\ tx[p] # c
    BY ClaimAssumption DEF ClaimInv, ClaimedBy, Held
  <1> USE ClaimAssumption, <1>0
      DEF BusyInv, HoldInv, Nothing, Equipped, PlaceInv, End, Begin, bootVars,
          coreVars, claimVars, dmaVars
  <1>1. CASE UNCHANGED vars
    BY <1>1 DEF vars
  <1>2. CASE StartReset
    BY <1>t, <1>2 DEF StartReset
  <1>3. CASE StartRefused \/ MachineTaken \/ ClaimMachines \/ NoRxChannel
    BY <1>3 DEF StartRefused, MachineTaken, ClaimMachines, NoRxChannel
  <1>4. CASE NoTxChannel
    BY <1>t, <1>4 DEF NoTxChannel
  <1>5. CASE \E c \in Channels : ClaimRx(c)
    BY <1>t, <1>f, <1>5 DEF ClaimRx
  <1>6. CASE \E c \in Channels : ClaimTx(c)
    BY <1>t, <1>6 DEF ClaimTx
  <1>7. CASE Setup \/ Arm \/ Own \/ Unmask
    BY <1>7 DEF Setup, Arm, Own, Unmask
  <1>8. CASE MaskRx \/ DisownRx
    BY <1>8 DEF MaskRx, DisownRx
  <1>9. CASE StopChannels
    BY <1>t, <1>9 DEF StopChannels, Abort, Held
  <1>10. CASE \E p \in Ports : BootStart(p) \/ BootDeinit(p)
    BY <1>10 DEF BootStart, BootDeinit
  <1>11. CASE BootVerdict \/ BootFailed \/ Launch
    BY <1>11 DEF BootVerdict, BootFailed, Launch
  <1>12. CASE Reset
    BY <1>12 DEF Reset
  <1>13. CASE \E p \in Ports : Pause(p) \/ Open(p) \/ Close(p)
    BY <1>13 DEF Pause, Open, Close
  <1>14. CASE Resume \/ Reconfigured \/ ReconfigureFailed
    BY <1>14 DEF Resume, Reconfigured, ReconfigureFailed
  <1>15. CASE \E p \in Ports : LaunchTx(p) \/ PollRearm(p)
    BY <1>t, <1>15 DEF LaunchTx, PollRearm, Worker
  <1>16. CASE \E c \in Channels : Complete(c)
    BY <1>16 DEF Complete
  <1>17. CASE \E i \in Irqs, c \in Channels : Handler(i, c)
    BY <1>17 DEF Handler, OwnerInv
  <1> QED
    BY <1>1, <1>2, <1>3, <1>4, <1>5, <1>6, <1>7, <1>8, <1>9, <1>10, <1>11,
       <1>12, <1>13, <1>14, <1>15, <1>16, <1>17, Steps, Zenon

-----------------------------------------------------------------------------
LEMMA ClaimInvStep == ClaimInv /\ [Next]_vars => ClaimInv'
  BY TypeStep, BookStep, PlaceStep, HoldStep, OwnerStep, MaskStep, BusyStep
     DEF ClaimInv

LEMMA Inductive == Spec => []ClaimInv
  BY InitClaim, ClaimInvStep, PTL DEF Spec

(* For every board table and every pool, whatever fails at whatever point,   *)
(* the claims of the SDK are exactly what the drivers hold.                  *)
THEOREM NothingLeaks == Spec => []NoLeak
  <1>1. ClaimInv => NoLeak
    <2> SUFFICES ASSUME ClaimInv PROVE NoLeak
      OBVIOUS
    <2>1. TypeOK /\ ClaimedBy /\ Exclusive /\ HoldInv
      BY DEF ClaimInv
    <2>2. claimed = foreign \cup UNION {Held(p) : p \in Ports}
      BY <2>1, ClaimAssumption DEF TypeOK, ClaimedBy, Held
    <2>3. claimedSm = foreignSm \cup UNION {machines[p] : p \in Ports}
      BY <2>1 DEF TypeOK, ClaimedBy
    <2>4. ASSUME NEW p \in Ports
          PROVE  /\ Held(p) \cap foreign = {} /\ machines[p] \cap foreignSm = {}
                 /\ rx[p] = tx[p] => rx[p] = None
                 /\ \A q \in Ports \ {p} : /\ Held(p) \cap Held(q) = {}
                                           /\ machines[p] \cap machines[q] = {}
      BY <2>1, <2>4 DEF Exclusive, Held
    <2>5. \A p \in Ports :
            p \notin up /\ p # port => Held(p) = {} /\ machines[p] = {}
      BY <2>1 DEF HoldInv, Nothing, Held
    <2> QED
      BY <2>2, <2>3, <2>4, <2>5 DEF NoLeak
  <1> QED
    BY <1>1, Inductive, PTL

(* No handler ever re-arms a channel of somebody else or finds an interrupt  *)
(* it would not acknowledge.                                                 *)
THEOREM HandlersAgree == Spec => []HandlerKnowsItsChannel
  <1>1. ClaimInv => HandlerKnowsItsChannel
    BY DEF ClaimInv, TypeOK, OwnerInv, MaskInv, HandlerKnowsItsChannel
  <1> QED
    BY <1>1, Inductive, PTL

(* What is given back to the pool is stopped and in no table.                *)
THEOREM FreeIsQuiet == Spec => []FreeChannelIsQuiet
  <1>1. ClaimInv => FreeChannelIsQuiet
    BY ClaimAssumption DEF ClaimInv, ClaimedBy, Held, OwnerInv, BusyInv,
       FreeChannelIsQuiet
  <1> QED
    BY <1>1, Inductive, PTL

(* At every moment the tables, the masks and the DMA agree on whose channel  *)
(* each one is.                                                              *)
THEOREM ChannelsAreOwned == Spec => []ChannelsOwned
  BY HandlersAgree, FreeIsQuiet, PTL DEF ChannelsOwned
-----------------------------------------------------------------------------
(* What the first pass of the boot has shown, once it is over: there is a    *)
(* channel for every slot of every port, and no two PIO ports want the same  *)
(* machine.                                                                  *)
Slots == Ports \X {"rx", "tx"}

ChannelOf(s) == IF s[2] = "rx" THEN rx[s[1]] ELSE tx[s[1]]

ChannelsFit ==
  \E g \in [Slots -> Channels \ foreign] :
    \A s, t \in Slots : g[s] = g[t] => s = t

MachinesFit ==
  \A p \in Ports : /\ Needs(p) \cap foreignSm = {}
                   /\ \A q \in Ports \ {p} : Needs(p) \cap Needs(q) = {}

FitInv == boot \in {"release", "run"} => ChannelsFit /\ MachinesFit

(* A port whose turn in the first pass is over is up, or the boot knows.     *)
PassInv ==
  /\ pc = "reconfigure" => boot = "run"
  /\ boot = "init" =>
       /\ rejected \/ Ports \ todo \subseteq up
       /\ pc \in {"mask", "disown", "stop"} => then = "failed"

(* A port that got past the claim of its machines has them all.              *)
MachineInv ==
  /\ \A p \in up : machines[p] = Needs(p)
  /\ pc \in {"rx", "tx", "setup", "arm", "own", "unmask", "mask", "disown",
             "stop", "reconfigure"} => machines[port] = Needs(port)

CapacityInv == ClaimInv /\ PassInv /\ MachineInv /\ FitInv

LEMMA InitCapacity == Init => CapacityInv
  <1>1. Init => PassInv /\ MachineInv /\ FitInv
    BY DEF Init, PassInv, MachineInv, FitInv
  <1> QED
    BY <1>1, InitClaim DEF CapacityInv

LEMMA PassStep == CapacityInv /\ [Next]_vars => PassInv'
  <1> SUFFICES ASSUME CapacityInv, [Next]_vars PROVE PassInv'
    OBVIOUS
  <1>0. PassInv /\ PlaceInv
    BY DEF CapacityInv, ClaimInv
  <1> USE <1>0
      DEF PassInv, PlaceInv, End, Begin, bootVars, coreVars
  <1>1. CASE UNCHANGED vars
    BY <1>1 DEF vars
  <1>2. CASE StartReset
    BY <1>2 DEF StartReset
  <1>3. CASE StartRefused \/ MachineTaken \/ Setup
    BY <1>3 DEF StartRefused, MachineTaken, Setup
  <1>4. CASE ClaimMachines
    BY <1>4 DEF ClaimMachines
  <1>5. CASE NoRxChannel \/ NoTxChannel
    BY <1>5 DEF NoRxChannel, NoTxChannel
  <1>6. CASE \E c \in Channels : ClaimRx(c) \/ ClaimTx(c)
    BY <1>6 DEF ClaimRx, ClaimTx
  <1>7. CASE Arm \/ Own
    BY <1>7 DEF Arm, Own
  <1>8. CASE Unmask
    BY <1>8 DEF Unmask
  <1>9. CASE MaskRx \/ DisownRx
    BY <1>9 DEF MaskRx, DisownRx
  <1>10. CASE StopChannels
    BY <1>10 DEF StopChannels
  <1>11. CASE \E p \in Ports : BootStart(p) \/ BootDeinit(p)
    BY <1>11 DEF BootStart, BootDeinit
  <1>12. CASE BootVerdict \/ BootFailed \/ Launch \/ Reset
    BY <1>12 DEF BootVerdict, BootFailed, Launch, Reset
  <1>13. CASE Resume \/ Reconfigured \/ ReconfigureFailed
    BY <1>13 DEF Resume, Reconfigured, ReconfigureFailed
  <1>14. CASE \E p \in Ports : Pause(p) \/ Open(p) \/ Close(p)
    BY <1>14 DEF Pause, Open, Close, Worker
  <1>15. CASE \E p \in Ports : LaunchTx(p) \/ PollRearm(p)
    BY <1>15 DEF LaunchTx, PollRearm
  <1>16. CASE \E c \in Channels : Complete(c) \/ \E i \in Irqs : Handler(i, c)
    BY <1>16 DEF Complete, Handler
  <1> QED
    BY <1>1, <1>2, <1>3, <1>4, <1>5, <1>6, <1>7, <1>8, <1>9, <1>10, <1>11,
       <1>12, <1>13, <1>14, <1>15, <1>16, Steps, Zenon

LEMMA MachineStep == CapacityInv /\ [Next]_vars => MachineInv'
  <1> SUFFICES ASSUME CapacityInv, [Next]_vars PROVE MachineInv'
    OBVIOUS
  <1>0. MachineInv /\ PlaceInv
    BY DEF CapacityInv, ClaimInv
  <1>t. machines \in [Ports -> SUBSET Machines] /\ up \subseteq Ports
    BY DEF CapacityInv, ClaimInv, TypeOK
  <1>n. \A p \in Ports : p \notin PioPorts => Needs(p) = {}
    BY DEF Needs
  <1> USE <1>0, <1>t
      DEF MachineInv, PlaceInv, End, Begin, bootVars, coreVars, claimVars
  <1>k. Needs(port)' = Needs(port') /\ \A p \in Ports : Needs(p)' = Needs(p)
    BY DEF Needs
  <1>1. CASE UNCHANGED vars
    BY <1>1 DEF vars
  <1>2. CASE StartReset
    BY <1>2, <1>n DEF StartReset
  <1>3. CASE StartRefused \/ MachineTaken \/ Setup
    BY <1>3 DEF StartRefused, MachineTaken, Setup
  <1>4. CASE ClaimMachines
    BY <1>4 DEF ClaimMachines
  <1>5. CASE NoRxChannel \/ NoTxChannel
    BY <1>5 DEF NoRxChannel, NoTxChannel, UnclaimMachines
  <1>6. CASE \E c \in Channels : ClaimRx(c) \/ ClaimTx(c)
    BY <1>6 DEF ClaimRx, ClaimTx
  <1>7. CASE Arm \/ Own \/ Unmask
    BY <1>7 DEF Arm, Own, Unmask
  <1>8. CASE MaskRx \/ DisownRx
    BY <1>8 DEF MaskRx, DisownRx
  <1>9. CASE StopChannels
    BY <1>9 DEF StopChannels, UnclaimMachines
  <1>10. CASE \E p \in Ports : BootStart(p) \/ BootDeinit(p)
    BY <1>10 DEF BootStart, BootDeinit
  <1>11. CASE BootVerdict \/ BootFailed \/ Launch \/ Reset
    BY <1>11 DEF BootVerdict, BootFailed, Launch, Reset
  <1>12. CASE Resume \/ Reconfigured \/ ReconfigureFailed
    BY <1>12 DEF Resume, Reconfigured, ReconfigureFailed
  <1>13. CASE \E p \in Ports : Pause(p) \/ Open(p) \/ Close(p)
    BY <1>13 DEF Pause, Open, Close, Worker
  <1>14. CASE \E p \in Ports : LaunchTx(p) \/ PollRearm(p)
    BY <1>14 DEF LaunchTx, PollRearm
  <1>15. CASE \E c \in Channels : Complete(c) \/ \E i \in Irqs : Handler(i, c)
    BY <1>15 DEF Complete, Handler
  <1> QED
    BY <1>1, <1>2, <1>3, <1>4, <1>5, <1>6, <1>7, <1>8, <1>9, <1>10, <1>11,
       <1>12, <1>13, <1>14, <1>15, Steps, Zenon

(* Only four steps of the boot change its phase.                             *)
LEMMA BootFrame ==
  ASSUME [Next]_vars
  PROVE  UNCHANGED boot \/ BootVerdict \/ BootFailed \/ Launch \/ Reset
  <1> USE DEF bootVars
  <1>1. CASE UNCHANGED vars
    BY <1>1 DEF vars
  <1>2. CASE StartReset \/ StartRefused \/ ClaimMachines \/ MachineTaken
             \/ NoRxChannel \/ NoTxChannel
    BY <1>2 DEF StartReset, StartRefused, ClaimMachines, MachineTaken,
       NoRxChannel, NoTxChannel
  <1>3. CASE Setup \/ Arm \/ Own \/ Unmask \/ MaskRx \/ DisownRx \/ StopChannels
    BY <1>3 DEF Setup, Arm, Own, Unmask, MaskRx, DisownRx, StopChannels
  <1>4. CASE Resume \/ Reconfigured \/ ReconfigureFailed
    BY <1>4 DEF Resume, Reconfigured, ReconfigureFailed
  <1>5. ASSUME NEW p \in Ports, BootStart(p) \/ BootDeinit(p) \/ Pause(p)
        PROVE  UNCHANGED boot
    BY <1>5 DEF BootStart, BootDeinit, Pause
  <1>6. ASSUME NEW p \in Ports,
               Open(p) \/ Close(p) \/ LaunchTx(p) \/ PollRearm(p)
        PROVE  UNCHANGED boot
    BY <1>6 DEF Open, Close, LaunchTx, PollRearm
  <1>7. ASSUME NEW c \in Channels,
               \/ ClaimRx(c) \/ ClaimTx(c) \/ Complete(c)
               \/ \E i \in Irqs : Handler(i, c)
        PROVE  UNCHANGED boot
    BY <1>7 DEF ClaimRx, ClaimTx, Complete, Handler
  <1> QED
    BY <1>1, <1>2, <1>3, <1>4, <1>5, <1>6, <1>7, Steps, Zenon

(* A boot that rejected no port has every port running at once.              *)
LEMMA VerdictFits ==
  ASSUME CapacityInv, boot = "init", pc = "idle", todo = {}, ~rejected
  PROVE  ChannelsFit /\ MachinesFit
  <1>1. /\ rx \in [Ports -> Channels \cup {None}]
        /\ tx \in [Ports -> Channels \cup {None}]
        /\ HoldInv /\ Exclusive /\ MachineInv
    BY DEF CapacityInv, ClaimInv, TypeOK
  <1>2. \A p \in Ports : p \in up
    BY DEF CapacityInv, PassInv
  <1>3. \A p \in Ports : rx[p] # None /\ tx[p] # None
    BY <1>1, <1>2 DEF HoldInv, Equipped
  <1>4. ChannelsFit
    <2> DEFINE g == [s \in Slots |-> ChannelOf(s)]
    <2>1. ASSUME NEW s \in Slots PROVE ChannelOf(s) \in Channels \ foreign
      BY <1>1, <1>3 DEF Slots, ChannelOf, Exclusive
    <2>2. ASSUME NEW s \in Slots, NEW t \in Slots, ChannelOf(s) = ChannelOf(t)
          PROVE  s = t
      <3>1. s[1] = t[1] /\ s[2] = t[2]
        BY <1>1, <1>3, <2>2 DEF Slots, ChannelOf, Exclusive
      <3> QED
        BY <3>1 DEF Slots
    <2>3. g \in [Slots -> Channels \ foreign]
      BY <2>1
    <2>4. \A s, t \in Slots : g[s] = g[t] => s = t
      BY <2>2
    <2> QED
      BY <2>3, <2>4 DEF ChannelsFit
  <1>5. MachinesFit
    BY <1>1, <1>2 DEF MachineInv, Exclusive, MachinesFit
  <1> QED
    BY <1>4, <1>5

LEMMA FitStep == CapacityInv /\ [Next]_vars => FitInv'
  <1> SUFFICES ASSUME CapacityInv, [Next]_vars, boot' \in {"release", "run"}
               PROVE  (ChannelsFit /\ MachinesFit)'
    BY DEF FitInv
  <1>1. UNCHANGED <<foreign, foreignSm>>
    <2>1. CASE StartReset \/ ClaimMachines \/ NoRxChannel \/ NoTxChannel
      BY <2>1 DEF StartReset, ClaimMachines, NoRxChannel, NoTxChannel, static
    <2>2. CASE \E c \in Channels : ClaimRx(c) \/ ClaimTx(c)
      BY <2>2 DEF ClaimRx, ClaimTx, static
    <2>3. CASE StopChannels \/ Reset
      BY <2>3 DEF StopChannels, Reset, static
    <2> QED
      BY <2>1, <2>2, <2>3, ClaimFrame DEF static
  <1>2. ChannelsFit /\ MachinesFit => (ChannelsFit /\ MachinesFit)'
    BY <1>1 DEF ChannelsFit, MachinesFit, Slots, Needs
  <1>3. boot \in {"release", "run"} \/ BootVerdict
    <2> USE DEF bootVars
    <2>1. CASE UNCHANGED boot
      BY <2>1
    <2>2. CASE BootFailed \/ Launch \/ Reset
      BY <2>2 DEF BootFailed, Launch, Reset
    <2>3. CASE BootVerdict
      BY <2>3
    <2> QED
      BY <2>1, <2>2, <2>3, BootFrame
  <1>4. CASE boot \in {"release", "run"}
    BY <1>2, <1>4 DEF CapacityInv, FitInv
  <1>5. CASE BootVerdict
    BY <1>2, <1>5, VerdictFits DEF BootVerdict
  <1> QED
    BY <1>3, <1>4, <1>5

(* No more slots than channels: while the slot of the TX channel of a port is *)
(* empty, the others cannot hold them all.                                   *)
LEMMA FreeChannel ==
  ASSUME ClaimInv, ChannelsFit, NEW p \in Ports, tx[p] = None
  PROVE  Channels # claimed
  <1> SUFFICES ASSUME Channels = claimed PROVE FALSE
    OBVIOUS
  <1> DEFINE empty == <<p, "tx">>
             Others == Slots \ {empty}
  <1>1. PICK g \in [Slots -> Channels \ foreign] :
               \A s, t \in Slots : g[s] = g[t] => s = t
    BY DEF ChannelsFit
  <1>2. \A c \in Channels \ foreign : \E s \in Others : ChannelOf(s) = c
    <2> SUFFICES ASSUME NEW c \in Channels \ foreign
                 PROVE  \E s \in Others : ChannelOf(s) = c
      OBVIOUS
    <2>1. PICK q \in Ports : c = rx[q] \/ c = tx[q]
      BY DEF ClaimInv, ClaimedBy, Held
    <2>2. c # None
      BY ClaimAssumption
    <2>3. CASE c = rx[q]
      <3>1. <<q, "rx">> \in Others /\ ChannelOf(<<q, "rx">>) = c
        BY <2>3 DEF Slots, ChannelOf
      <3> QED
        BY <3>1
    <2>4. CASE c = tx[q]
      <3>1. <<q, "tx">> \in Others /\ ChannelOf(<<q, "tx">>) = c
        BY <2>2, <2>4 DEF Slots, ChannelOf
      <3> QED
        BY <3>1
    <2> QED
      BY <2>1, <2>3, <2>4
  <1>3. PICK h \in [Slots -> Others] : \A s \in Slots : ChannelOf(h[s]) = g[s]
    <2> DEFINE h == [s \in Slots |-> CHOOSE t \in Others : ChannelOf(t) = g[s]]
    <2>1. ASSUME NEW s \in Slots
          PROVE  h[s] \in Others /\ ChannelOf(h[s]) = g[s]
      <3>1. \E t \in Others : ChannelOf(t) = g[s]
        BY <1>1, <1>2
      <3> QED
        BY <3>1
    <2>2. h \in [Slots -> Others]
      BY <2>1
    <2> QED
      BY <2>1, <2>2
  <1>4. IsFiniteSet(Slots)
    <2>1. IsFiniteSet({"rx"} \cup {"tx"})
      BY FS_Singleton, FS_AddElement
    <2>2. {"rx"} \cup {"tx"} = {"rx", "tx"}
      OBVIOUS
    <2>3. IsFiniteSet({"rx", "tx"})
      BY <2>1, <2>2
    <2> QED
      BY <2>3, ClaimAssumption, FS_Product DEF Slots
  <1>5. IsFiniteSet(Others) /\ Cardinality(Others) < Cardinality(Slots)
    <2>1. empty \in Slots
      BY DEF Slots
    <2>2. IsFiniteSet(Others) /\ Cardinality(Others) = Cardinality(Slots) - 1
      BY <1>4, <2>1, FS_RemoveElement
    <2>3. Cardinality(Slots) \in Nat
      BY <1>4, FS_CardinalityType
    <2> HIDE DEF Others
    <2> QED
      BY <2>2, <2>3
  <1>6. PICK s \in Slots, t \in Slots : s # t /\ h[s] = h[t]
    <2> HIDE DEF Others
    <2> QED
      BY <1>3, <1>4, <1>5, FS_PigeonHole
  <1> QED
    BY <1>1, <1>3, <1>6

LEMMA CapacityStep == CapacityInv /\ [Next]_vars => CapacityInv'
  <1>1. CapacityInv /\ [Next]_vars => ClaimInv'
    BY ClaimInvStep DEF CapacityInv
  <1> QED
    BY <1>1, PassStep, MachineStep, FitStep DEF CapacityInv

(* The trial start of the boot is enough: for every board table, every pool  *)
(* and every set of claims of foreign code, no later claim of the worker     *)
(* fails, in whatever order ports are closed, opened and reconfigured.       *)
THEOREM BootProvesCapacity == Spec => []CapacityProven
  <1>1. CapacityInv => CapacityProven
    <2> SUFFICES ASSUME CapacityInv, boot = "run" PROVE
                   /\ pc = "machines" => Needs(port) \cap claimedSm = {}
                   /\ pc \in {"rx", "tx"} => Channels # claimed
      BY DEF CapacityProven
    <2>1. ClaimInv /\ ChannelsFit /\ MachinesFit /\ MachineInv
      BY DEF CapacityInv, FitInv
    <2>2. PlaceInv /\ HoldInv /\ ClaimedBy
      BY <2>1 DEF ClaimInv
    <2>3. ASSUME pc \in {"rx", "tx"} PROVE Channels # claimed
      <3>1. port \in Ports /\ tx[port] = None
        BY <2>2, <2>3 DEF PlaceInv, HoldInv
      <3> QED
        BY <2>1, <3>1, FreeChannel
    <2>4. ASSUME pc = "machines" PROVE Needs(port) \cap claimedSm = {}
      <3>1. port \in Ports /\ machines[port] = {}
        BY <2>2, <2>4 DEF PlaceInv, HoldInv, Nothing
      <3>2. \A p \in Ports \ {port} : machines[p] \in {{}, Needs(p)}
        BY <2>1, <2>2, <2>4, <3>1 DEF HoldInv, MachineInv, Nothing, PlaceInv
      <3>3. Needs(port) \subseteq Machines
        BY ClaimAssumption DEF Needs
      <3> QED
        BY <2>1, <2>2, <3>1, <3>2, <3>3 DEF MachinesFit, ClaimedBy
    <2> QED
      BY <2>3, <2>4
  <1> QED
    BY <1>1, InitCapacity, CapacityStep, PTL DEF Spec
=============================================================================
