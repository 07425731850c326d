---------------------------- MODULE ResourceClaim ----------------------------
(* Who holds which DMA channel and PIO state machine.  Every port needs two  *)
(* channels of one pool, a PIO port two state machines as well; the pool of  *)
(* an RP2040 has not one channel to spare.  The boot starts every port once  *)
(* to see that they all fit, releases them and leaves the rest to the worker *)
(* on core 1, where a channel passes from port to port as they are closed    *)
(* and opened.  The two kinds of backend have their own DMA interrupt, whose *)
(* handler runs between any two steps of the worker and re-arms the channels *)
(* it finds in its table of owners.                                          *)
(*                                                                           *)
(* A step is one change of something the interrupt or the DMA looks at, or   *)
(* one claim.                                                                *)
EXTENDS FiniteSets

CONSTANTS
  HwPorts, PioPorts, \* the ports of the board table, by backend
  Channels,          \* DMA channels
  Machines,          \* PIO state machines
  TxSm, RxSm,        \* board table: the state machines of each PIO port
  None               \* no channel (-1), no port (NULL)

Ports == HwPorts \cup PioPorts

ASSUME ClaimAssumption ==
  /\ HwPorts \cap PioPorts = {} /\ None \notin Channels \cup Ports
  /\ IsFiniteSet(Ports)
  /\ TxSm \in [PioPorts -> Machines] /\ RxSm \in [PioPorts -> Machines]
  /\ \A p \in PioPorts : TxSm[p] # RxSm[p]

VARIABLES
  boot,      \* "init", "rollback", "failed", "release", "run"
  todo,      \* ports the current pass of the boot has still to do
  rejected,  \* a port failed to start in this boot (init_ok = false)
  pc, port,  \* where the core that owns the backends stands, with which port
  then,      \* what follows a release
  (* drivers *)
  up,        \* initialized
  rx, tx,    \* rx_dma_channel, tx_dma_channel
  machines,  \* tx_sm_claimed and rx_sm_claimed
  owner,     \* per DMA interrupt, rx_irq_owners
  installed, \* rx_dma_irq_installed, of both
  (* SDK bitmaps and DMA registers *)
  foreign, foreignSm, \* claimed by code outside this firmware
  claimed, claimedSm,
  busy,
  raised,    \* INTR
  unmasked   \* per DMA interrupt, INTE

bootVars  == <<boot, todo, rejected>>
coreVars  == <<pc, port, then>>
claimVars == <<rx, tx, machines, claimed, claimedSm>>
irqVars   == <<owner, installed, unmasked>>
dmaVars   == <<busy, raised>>
static    == <<foreign, foreignSm>>
vars == <<bootVars, coreVars, up, claimVars, irqVars, dmaVars, static>>

Irqs   == {"hw", "pio"}
Irq(p) == IF p \in HwPorts THEN "hw" ELSE "pio"

Needs(p) == IF p \in PioPorts THEN {TxSm[p], RxSm[p]} ELSE {}

TypeOK ==
  /\ boot \in {"init", "rollback", "failed", "release", "run"}
  /\ todo \subseteq Ports /\ rejected \in BOOLEAN
  /\ pc \in {"idle", "start", "machines", "rx", "tx", "setup", "arm", "own",
             "unmask", "mask", "disown", "stop", "reconfigure"}
  /\ port \in Ports \cup {None} /\ then \in {"start", "failed", "done"}
  /\ up \subseteq Ports
  /\ rx \in [Ports -> Channels \cup {None}]
  /\ tx \in [Ports -> Channels \cup {None}]
  /\ machines \in [Ports -> SUBSET Machines]
  /\ owner \in [Irqs -> [Channels -> Ports \cup {None}]]
  /\ installed \in BOOLEAN
  /\ foreign \subseteq Channels /\ foreignSm \subseteq Machines
  /\ claimed \subseteq Channels /\ claimedSm \subseteq Machines
  /\ busy \subseteq Channels /\ raised \subseteq Channels
  /\ unmasked \in [Irqs -> SUBSET Channels]

Init ==
  /\ boot = "init" /\ todo = Ports /\ rejected = FALSE
  /\ pc = "idle" /\ port = None /\ then = "done"
  /\ up = {}
  /\ rx = [p \in Ports |-> None] /\ tx = [p \in Ports |-> None]
  /\ machines = [p \in Ports |-> {}]
  /\ owner = [i \in Irqs |-> [c \in Channels |-> None]]
  /\ installed = FALSE
  /\ foreign \in SUBSET Channels /\ claimed = foreign
  /\ foreignSm \in SUBSET Machines /\ claimedSm = foreignSm
  /\ busy = {} /\ raised = {} /\ unmasked = [i \in Irqs |-> {}]
-----------------------------------------------------------------------------
(* Start of a port.                                                          *)

Begin(p, where) == port' = p /\ pc' = where

(* The operation on the port is over.                                        *)
End(failed) ==
  /\ pc' = "idle" /\ port' = None
  /\ todo' = todo \ {port}
  /\ rejected' = (rejected \/ (boot = "init" /\ failed))

(* Whatever the driver held is forgotten; nothing may be left by then.       *)
StartReset ==
  /\ pc = "start"
  /\ rx' = [rx EXCEPT ![port] = None] /\ tx' = [tx EXCEPT ![port] = None]
  /\ machines' = [machines EXCEPT ![port] = {}]
  /\ pc' = IF port \in PioPorts THEN "machines" ELSE "rx"
  /\ UNCHANGED <<bootVars, port, then, up, claimed, claimedSm, irqVars,
                 dmaVars, static>>

(* The coding is refused, or the PIO block has no room for the programs.     *)
StartRefused ==
  /\ pc = "start"
  /\ End(TRUE)
  /\ UNCHANGED <<boot, then, up, claimVars, irqVars, dmaVars, static>>

ClaimMachines ==
  /\ pc = "machines" /\ Needs(port) \cap claimedSm = {}
  /\ machines' = [machines EXCEPT ![port] = Needs(port)]
  /\ claimedSm' = claimedSm \cup Needs(port)
  /\ pc' = "rx"
  /\ UNCHANGED <<bootVars, port, then, up, rx, tx, claimed, irqVars, dmaVars,
                 static>>

MachineTaken ==
  /\ pc = "machines" /\ Needs(port) \cap claimedSm # {}
  /\ End(TRUE)
  /\ UNCHANGED <<boot, then, up, claimVars, irqVars, dmaVars, static>>

ClaimRx(c) ==
  /\ pc = "rx" /\ c \in Channels \ claimed
  /\ rx' = [rx EXCEPT ![port] = c] /\ claimed' = claimed \cup {c}
  /\ pc' = "tx"
  /\ UNCHANGED <<bootVars, port, then, up, tx, machines, claimedSm, irqVars,
                 dmaVars, static>>

UnclaimMachines ==
  /\ claimedSm' = claimedSm \ machines[port]
  /\ machines' = [machines EXCEPT ![port] = {}]

NoRxChannel ==
  /\ pc = "rx" /\ Channels = claimed
  /\ UnclaimMachines
  /\ End(TRUE)
  /\ UNCHANGED <<boot, then, up, rx, tx, claimed, irqVars, dmaVars, static>>

ClaimTx(c) ==
  /\ pc = "tx" /\ c \in Channels \ claimed
  /\ tx' = [tx EXCEPT ![port] = c] /\ claimed' = claimed \cup {c}
  /\ pc' = "setup"
  /\ UNCHANGED <<bootVars, port, then, up, rx, machines, claimedSm, irqVars,
                 dmaVars, static>>

NoTxChannel_KeepsRx ==
  /\ pc = "tx" /\ Channels = claimed
  /\ UnclaimMachines
  /\ End(TRUE)
  /\ UNCHANGED <<boot, then, up, rx, tx, claimed, irqVars, dmaVars, static>>

NoTxChannel ==
  /\ pc = "tx" /\ Channels = claimed
  /\ claimed' = claimed \ {rx[port]} /\ rx' = [rx EXCEPT ![port] = None]
  /\ UnclaimMachines
  /\ End(TRUE)
  /\ UNCHANGED <<boot, then, up, tx, irqVars, dmaVars, static>>

(* configure_uart, init_tx_sm, init_rx_sm.                                   *)
Setup ==
  /\ pc = "setup"
  /\ pc' \in {"arm", "mask"} /\ then' = "failed"
  /\ UNCHANGED <<bootVars, port, up, claimVars, irqVars, dmaVars, static>>

(* start_rx_dma: arm, enter into the table, acknowledge, unmask.             *)
Arm ==
  /\ pc = "arm"
  /\ busy' = busy \cup {rx[port]}
  /\ pc' = "own"
  /\ UNCHANGED <<bootVars, port, then, up, claimVars, irqVars, raised, static>>

Own ==
  /\ pc = "own"
  /\ owner' = [owner EXCEPT ![Irq(port)][rx[port]] = port]
  /\ raised' = raised \ {rx[port]}
  /\ pc' = "unmask"
  /\ UNCHANGED <<bootVars, port, then, up, claimVars, installed, unmasked,
                 busy, static>>

Unmask ==
  /\ pc = "unmask"
  /\ unmasked' = IF installed
                 THEN [unmasked EXCEPT ![Irq(port)] = @ \cup {rx[port]}]
                 ELSE unmasked
  /\ up' = up \cup {port}
  /\ End(FALSE)
  /\ UNCHANGED <<boot, then, claimVars, owner, installed, dmaVars, static>>
-----------------------------------------------------------------------------
(* Release of a port: deinit, or the way back from a failure.                *)

MaskRx_Skipped ==
  /\ pc = "mask"
  /\ pc' = "disown"
  /\ UNCHANGED <<bootVars, port, then, up, claimVars, irqVars, dmaVars, static>>

MaskRx ==
  /\ pc = "mask"
  /\ unmasked' = [unmasked EXCEPT ![Irq(port)] = @ \ {rx[port]}]
  /\ pc' = "disown"
  /\ UNCHANGED <<bootVars, port, then, up, claimVars, owner, installed,
                 dmaVars, static>>

DisownRx ==
  /\ pc = "disown"
  /\ owner' = [owner EXCEPT ![Irq(port)][rx[port]] = None]
  /\ pc' = "stop"
  /\ UNCHANGED <<bootVars, port, then, up, claimVars, installed, unmasked,
                 dmaVars, static>>

Held(p) == {rx[p], tx[p]} \ {None}

Abort(p) == busy \ Held(p)

(* An abort may raise the interrupt of its channel; only the RX channel's is *)
(* acknowledged.                                                             *)
StopChannels ==
  /\ pc = "stop"
  /\ busy' = Abort(port)
  /\ raised' \in {raised \ {rx[port]}, (raised \ {rx[port]}) \cup {tx[port]}}
  /\ claimed' = claimed \ Held(port)
  /\ rx' = [rx EXCEPT ![port] = None] /\ tx' = [tx EXCEPT ![port] = None]
  /\ UnclaimMachines
  /\ up' = up \ {port}
  /\ \/ then = "start" /\ pc' = "start" /\ UNCHANGED <<port, todo, rejected>>
     \/ then # "start" /\ End(then = "failed")
  /\ UNCHANGED <<boot, then, irqVars, static>>
-----------------------------------------------------------------------------
(* Boot, on core 0.                                                          *)

BootStart(p) ==
  /\ boot = "init" /\ pc = "idle" /\ p \in todo
  /\ Begin(p, "start")
  /\ UNCHANGED <<bootVars, then, up, claimVars, irqVars, dmaVars, static>>

(* One port that does not start undoes the boot.                             *)
BootVerdict ==
  /\ boot = "init" /\ pc = "idle" /\ todo = {}
  /\ boot' = IF rejected THEN "rollback" ELSE "release"
  /\ todo' = Ports
  /\ UNCHANGED <<rejected, coreVars, up, claimVars, irqVars, dmaVars, static>>

BootDeinit(p) ==
  /\ boot \in {"rollback", "release"} /\ pc = "idle" /\ p \in todo
  /\ IF p \in up
     THEN Begin(p, "mask") /\ then' = "done" /\ UNCHANGED todo
     ELSE todo' = todo \ {p} /\ UNCHANGED coreVars
  /\ UNCHANGED <<boot, rejected, up, claimVars, irqVars, dmaVars, static>>

BootFailed ==
  /\ boot = "rollback" /\ pc = "idle" /\ todo = {}
  /\ boot' = "failed"
  /\ UNCHANGED <<todo, rejected, coreVars, up, claimVars, irqVars, dmaVars,
                 static>>

(* Core 1 installs the handlers and unmasks what is in their tables.         *)
Launch ==
  /\ boot = "release" /\ pc = "idle" /\ todo = {}
  /\ boot' = "run" /\ installed' = TRUE
  /\ unmasked' = [i \in Irqs |-> {c \in Channels : owner[i][c] # None}]
  /\ UNCHANGED <<todo, rejected, coreVars, up, claimVars, owner, dmaVars,
                 static>>

(* The failed assertion halts core 0, and the watchdog resets the chip.      *)
Reset ==
  /\ boot = "failed"
  /\ boot' = "init" /\ todo' = Ports /\ rejected' = FALSE
  /\ claimed' = foreign /\ claimedSm' = foreignSm
  /\ up' = {} /\ busy' = {} /\ raised' = {}
  /\ rx' = [p \in Ports |-> None] /\ tx' = [p \in Ports |-> None]
  /\ machines' = [p \in Ports |-> {}]
  /\ owner' = [i \in Irqs |-> [c \in Channels |-> None]]
  /\ installed' = FALSE /\ unmasked' = [i \in Irqs |-> {}]
  /\ UNCHANGED <<coreVars, static>>
-----------------------------------------------------------------------------
(* The worker, on core 1.                                                    *)

Worker == boot = "run" /\ pc = "idle"

(* restart: deinit, then start.                                              *)
Open(p) ==
  /\ Worker
  /\ Begin(p, IF p \in up THEN "mask" ELSE "start") /\ then' = "start"
  /\ UNCHANGED <<bootVars, up, claimVars, irqVars, dmaVars, static>>

Close(p) ==
  /\ Worker /\ p \in up
  /\ Begin(p, "mask") /\ then' = "done"
  /\ UNCHANGED <<bootVars, up, claimVars, irqVars, dmaVars, static>>

(* A format change masks the channel's interrupt first.                      *)
Pause(p) ==
  /\ Worker /\ p \in up
  /\ unmasked' = [unmasked EXCEPT ![Irq(p)] = @ \ {rx[p]}]
  /\ Begin(p, "reconfigure")
  /\ UNCHANGED <<bootVars, then, up, claimVars, owner, installed, dmaVars,
                 static>>

(* The count does not settle: go on as before.                               *)
Resume ==
  /\ pc = "reconfigure"
  /\ unmasked' = [unmasked EXCEPT ![Irq(port)] = @ \cup {rx[port]}]
  /\ End(FALSE)
  /\ UNCHANGED <<boot, then, up, claimVars, owner, installed, dmaVars, static>>

(* The channels are stopped and the format is set, the new one or the old.   *)
Reconfigured ==
  /\ pc = "reconfigure"
  /\ busy' \in {busy \ {rx[port]}, busy \ Held(port)}
  /\ raised' = raised \ {rx[port]}
  /\ pc' = "arm"
  /\ UNCHANGED <<bootVars, port, then, up, claimVars, irqVars, static>>

ReconfigureFailed_KeepsChannels ==
  /\ pc = "reconfigure" /\ port \in HwPorts
  /\ busy' = busy \ Held(port) /\ raised' = raised \ {rx[port]}
  /\ up' = up \ {port}
  /\ End(FALSE)
  /\ UNCHANGED <<boot, then, claimVars, irqVars, static>>

(* Neither format can be set: a hardware UART gives everything back.         *)
ReconfigureFailed ==
  /\ pc = "reconfigure" /\ port \in HwPorts
  /\ busy' = busy \ Held(port) /\ raised' = raised \ {rx[port]}
  /\ pc' = "mask" /\ then' = "done"
  /\ UNCHANGED <<bootVars, port, up, claimVars, irqVars, static>>

LaunchTx(p) ==
  /\ Worker /\ p \in up
  /\ busy' = busy \cup {tx[p]}
  /\ UNCHANGED <<bootVars, coreVars, up, claimVars, irqVars, raised, static>>

PollRearm(p) ==
  /\ Worker /\ p \in up /\ rx[p] \notin busy
  /\ raised' = raised \ {rx[p]} /\ busy' = busy \cup {rx[p]}
  /\ UNCHANGED <<bootVars, coreVars, up, claimVars, irqVars, static>>
-----------------------------------------------------------------------------
(* DMA and interrupts.                                                       *)

Complete(c) ==
  /\ c \in busy
  /\ busy' = busy \ {c} /\ raised' = raised \cup {c}
  /\ UNCHANGED <<bootVars, coreVars, up, claimVars, irqVars, static>>

(* The handler reloads the channel its driver has now.  A raised channel     *)
(* without an owner is neither acknowledged nor masked: it would interrupt   *)
(* for ever.                                                                 *)
Handler(i, c) ==
  /\ installed /\ c \in unmasked[i] \cap raised /\ owner[i][c] # None
  /\ raised' = raised \ {c}
  /\ busy' = IF c \in busy THEN busy ELSE busy \cup {rx[owner[i][c]]}
  /\ UNCHANGED <<bootVars, coreVars, up, claimVars, irqVars, static>>
-----------------------------------------------------------------------------
Claim   == ClaimMachines \/ MachineTaken \/ NoRxChannel \/ NoTxChannel
           \/ \E c \in Channels : ClaimRx(c) \/ ClaimTx(c)
Start   == StartReset \/ StartRefused \/ Claim \/ Setup \/ Arm \/ Own \/ Unmask
Release == MaskRx \/ DisownRx \/ StopChannels
Boot    == (\E p \in Ports : BootStart(p) \/ BootDeinit(p))
           \/ BootVerdict \/ BootFailed \/ Launch \/ Reset
Apply   == (\E p \in Ports : Pause(p))
           \/ Resume \/ Reconfigured \/ ReconfigureFailed
Run     == Apply
           \/ \E p \in Ports : Open(p) \/ Close(p) \/ LaunchTx(p) \/ PollRearm(p)
Dma     == \E c \in Channels :
             Complete(c) \/ \E i \in Irqs : Handler(i, c)

Next == Start \/ Release \/ Boot \/ Run \/ Dma

Spec == Init /\ [][Next]_vars
-----------------------------------------------------------------------------
(* Properties.                                                               *)

(* Whatever fails where, the claims of the SDK are those of the drivers and  *)
(* of foreign code, each held once, and a port that neither runs nor is on   *)
(* its way there holds none: nothing leaks and nothing is shared.            *)
NoLeak ==
  /\ claimed = foreign \cup UNION {Held(p) : p \in Ports}
  /\ claimedSm = foreignSm \cup UNION {machines[p] : p \in Ports}
  /\ \A p \in Ports :
       /\ p \notin up /\ p # port => Held(p) = {} /\ machines[p] = {}
       /\ Held(p) \cap foreign = {} /\ machines[p] \cap foreignSm = {}
       /\ rx[p] = tx[p] => rx[p] = None
       /\ \A q \in Ports \ {p} : /\ Held(p) \cap Held(q) = {}
                                 /\ machines[p] \cap machines[q] = {}

(* An interrupt that can reach a core is one of an RX channel of a port of   *)
(* that backend, and the table names the port: the handler neither restarts  *)
(* a channel of somebody else nor leaves the interrupt pending for ever.     *)
HandlerKnowsItsChannel ==
  \A i \in Irqs : \A c \in unmasked[i] :
    \E p \in Ports : owner[i][c] = p /\ Irq(p) = i /\ rx[p] = c

(* A channel that nobody holds does not move data and is in no table.        *)
FreeChannelIsQuiet ==
  \A c \in Channels \ claimed : c \notin busy /\ \A i \in Irqs : owner[i][c] = None

(* Channels that change hands between the backends at a close and an open    *)
(* are at every moment those of the port that the interrupt handlers, the    *)
(* masks and the DMA take them to be.                                        *)
ChannelsOwned == HandlerKnowsItsChannel /\ FreeChannelIsQuiet

(* The boot has shown that all ports fit, so no claim of the worker fails.   *)
CapacityProven ==
  boot = "run" =>
    /\ pc = "machines" => Needs(port) \cap claimedSm = {}
    /\ pc \in {"rx", "tx"} => Channels # claimed
=============================================================================
