------------------------------ MODULE UartPort ------------------------------
(***************************************************************************)
(* One logical UART port of the firmware: the USB core (core 0) admits     *)
(* bytes and SET_LINE_CODING requests, the worker core (core 1) owns the   *)
(* backend, starts and stops it and applies the requested formats.         *)
(*                                                                         *)
(* An action is one status_lock hold together with the core-private code   *)
(* around it, or one unlocked access to the backend.  usbPc and wrkPc say  *)
(* where each core stands between two such steps, so every interleaving of *)
(* the two cores at the lock is a behaviour of Spec.  The six ports share  *)
(* only the lock and the round-robin order; the steps of the other five    *)
(* are stuttering steps of this module.                                    *)
(*                                                                         *)
(* A format (baud, data bits, stop bits, parity) is a model value.  Time   *)
(* enters only through the two 1 s deadlines: a deadline is nil, armed or  *)
(* expired, and an armed one may expire at any moment.                     *)
(***************************************************************************)
EXTENDS Integers

CONSTANTS
  Formats,       (* valid line codings the backend accepts                 *)
  BootFormat,    (* board default format                                   *)
  NoFormat,      (* not a format                                           *)
  MaxGen,        (* bound: host requests, rejects and closes               *)
  MaxTx,         (* bound: bytes admitted to the TX ring per session       *)
  MaxOut,        (* bound: bytes waiting in the CDC OUT FIFO               *)
  MaxMounts,     (* bound: mount callbacks                                 *)
  RecloseDuringStop  (* may the host close again while a stop is pending?  *)

ASSUME PortAssumption ==
  /\ BootFormat \in Formats
  /\ NoFormat \notin Formats
  /\ MaxGen \in Nat /\ MaxTx \in Nat /\ MaxOut \in Nat /\ MaxMounts \in Nat
  /\ RecloseDuringStop \in BOOLEAN

READY           == "READY"
INIT_FAILED     == "INIT_FAILED"
CONTROL_PENDING == "CONTROL_PENDING"
CONTROL_ERROR   == "CONTROL_ERROR"

VARIABLES
  \* USB core only
  usbPc, mounted, session, mounts, opened, admission, req, rxFlushed,
  out, outOld,   \* bytes in the CDC OUT FIFO; the oldest outOld predate a DTR close
  \* shared under status_lock
  flags, lifecycle, gen, soft, mbox, info,
  \* worker core (pend.pending is read by the USB core under the lock)
  wrkPc, work, pend,
  \* backend: TX ring sequences, bytes on the wire, DMA transfer, format
  up, fmt, prod, cons, wire, inflight,
  \* history: what the newest generation asked for
  rejected, want

usbVars  == <<usbPc, mounted, session, mounts, opened, admission, req,
              rxFlushed, out, outOld>>
lockVars == <<flags, lifecycle, gen, soft, mbox, info>>
wrkVars  == <<wrkPc, work, pend>>
beVars   == <<up, fmt, prod, cons, wire, inflight>>
history  == <<rejected, want>>
vars     == <<usbVars, lockVars, wrkVars, beVars, history>>

UsbPcs == {"task", "close", "reset", "resetQuiesce", "resetHost", "poll",
           "quiesce", "stage", "start", "ready", "apply", "admit", "bridge",
           "fill", "drain"}
WrkPcs == {"life", "deinit", "stopped", "start", "take", "restart", "finish",
           "publish", "control", "code", "match", "pend", "service", "apply",
           "applied", "dead", "deadFinish", "io"}
Deadlines == {"nil", "armed", "expired"}

Idle    == [taken |-> FALSE, prior |-> FALSE, ok |-> FALSE,
            gen |-> 0, boundary |-> 0, lc |-> BootFormat]
NoMail  == [occupied |-> FALSE, gen |-> 0, boundary |-> 0, lc |-> BootFormat]
NoPend  == [pending |-> FALSE, gen |-> 0, boundary |-> 0, deadline |-> "nil",
            lc |-> BootFormat]

Flags == {READY, INIT_FAILED, CONTROL_PENDING, CONTROL_ERROR}

UsbTypeOK ==
  /\ usbPc \in UsbPcs
  /\ mounted \in BOOLEAN /\ session \in BOOLEAN /\ mounts \in Nat
  /\ opened \in BOOLEAN /\ rxFlushed \in BOOLEAN
  /\ admission \in {"START_PENDING", "STARTING", "RUNNING"}
  /\ req \in [pending : BOOLEAN, gen : Nat, deadline : Deadlines, lc : Formats]

OutTypeOK == out \in Nat /\ outOld \in Nat /\ outOld <= out

LockTypeOK ==
  /\ flags \subseteq Flags
  /\ lifecycle \subseteq {"stop_pending", "usb_quiesced", "start_pending"}
  /\ gen \in Nat /\ soft \in BOOLEAN /\ info \in Formats
  /\ mbox \in [occupied : BOOLEAN, gen : Nat, boundary : Nat, lc : Formats]

WorkerTypeOK ==
  /\ wrkPc \in WrkPcs
  /\ work \in [taken : BOOLEAN, prior : BOOLEAN, ok : BOOLEAN,
               gen : Nat, boundary : Nat, lc : Formats]
  /\ pend \in [pending : BOOLEAN, gen : Nat, boundary : Nat,
               deadline : Deadlines, lc : Formats]

BackendTypeOK ==
  /\ up \in BOOLEAN /\ fmt \in Formats
  /\ prod \in Nat /\ cons \in Nat /\ wire \in Nat /\ inflight \in Nat

RingOrder == wire <= cons /\ cons + inflight <= prod

TypeOK ==
  /\ UsbTypeOK /\ OutTypeOK /\ LockTypeOK /\ WorkerTypeOK
  /\ BackendTypeOK /\ RingOrder
  /\ rejected \in BOOLEAN /\ want \in Formats \cup {NoFormat}

(* After uart_driver_init: every backend was brought up, checked and       *)
(* stopped again, READY cleared, core 1 launched; USB is not mounted yet.  *)
Init ==
  /\ usbPc = "task" /\ wrkPc = "life"
  /\ mounted = FALSE /\ session = FALSE /\ mounts = 0
  /\ opened = FALSE /\ rxFlushed = FALSE /\ admission = "START_PENDING"
  /\ req = [pending |-> FALSE, gen |-> 0, deadline |-> "nil", lc |-> BootFormat]
  /\ out = 0 /\ outOld = 0
  /\ flags = {} /\ lifecycle = {} /\ gen = 0 /\ soft = FALSE
  /\ mbox = NoMail /\ info = BootFormat
  /\ work = Idle /\ pend = NoPend
  /\ up = FALSE /\ fmt = BootFormat
  /\ prod = 0 /\ cons = 0 /\ wire = 0 /\ inflight = 0
  /\ rejected = FALSE /\ want = NoFormat

-----------------------------------------------------------------------------
(* Ownership rules shared by the two cores.  A slot that is given up (the   *)
(* mailbox, the worker's request) is written back to its empty value: the   *)
(* code leaves its old fields in place and never reads them again.          *)

NoOwner(s, m, w) == ~s /\ ~m /\ ~w

ReleasePending_IgnoresWorker(fl, s, m, w) ==
  IF ~s /\ ~m THEN fl \ {CONTROL_PENDING} ELSE fl

ReleasePending(fl, s, m, w) ==
  IF NoOwner(s, m, w) THEN fl \ {CONTROL_PENDING} ELSE fl

CompletionError_AnyGeneration(fl, g, success) ==
  IF success THEN fl \ {CONTROL_ERROR} ELSE fl \cup {CONTROL_ERROR}

CompletionError(fl, g, success) ==
  IF g # gen THEN fl
  ELSE IF success THEN fl \ {CONTROL_ERROR} ELSE fl \cup {CONTROL_ERROR}

-----------------------------------------------------------------------------
(* Core 0: driver entry points *)

StopPending == "stop_pending" \in lifecycle
StopQuiesced == {"stop_pending", "usb_quiesced"} \subseteq lifecycle

RequestStop ==
  /\ gen' = gen + 1
  /\ soft' = FALSE
  /\ flags' = (flags \ {READY, INIT_FAILED, CONTROL_ERROR}) \cup {CONTROL_PENDING}
  /\ lifecycle' = IF StopPending THEN lifecycle \ {"start_pending"}
                                 ELSE {"stop_pending"}
  /\ rejected' = FALSE /\ want' = NoFormat

ResetSoftPending ==
  /\ soft' = FALSE
  /\ flags' = ReleasePending(flags, FALSE, mbox.occupied, pend.pending)

CancelRequest == req' = [req EXCEPT !.pending = FALSE, !.deadline = "nil"]

-----------------------------------------------------------------------------
(* Core 0: TinyUSB callbacks, run from tud_task *)

(* A packet of the host reaches the CDC OUT FIFO. *)
HostByte ==
  /\ usbPc = "task" /\ mounted /\ out < MaxOut
  /\ out' = out + 1
  /\ UNCHANGED <<usbPc, mounted, session, mounts, opened, admission, req,
                 rxFlushed, outOld, lockVars, wrkVars, beVars, history>>

(* DTR open-to-closed: private session state and the soft request go first, *)
(* then the stop is requested; only a newly queued stop flushes again.      *)
DtrClose ==
  /\ usbPc = "task" /\ mounted /\ opened /\ gen < MaxGen
  /\ StopPending => RecloseDuringStop
  /\ admission' = "START_PENDING"
  /\ CancelRequest
  /\ ResetSoftPending
  /\ outOld' = out
  /\ want' = NoFormat
  /\ usbPc' = "close"
  /\ UNCHANGED <<mounted, session, mounts, opened, rxFlushed, out,
                 lifecycle, gen, mbox, info, wrkVars, beVars, rejected>>

CloseStop_KeepsFlushedMark ==
  /\ usbPc = "close"
  /\ RequestStop
  /\ opened' = FALSE
  /\ usbPc' = "task"
  /\ UNCHANGED <<mounted, session, mounts, admission, req, rxFlushed, out, outOld,
                 mbox, info, wrkVars, beVars>>

CloseStop ==
  /\ usbPc = "close"
  /\ RequestStop
  /\ rxFlushed' = (StopPending /\ rxFlushed)
  /\ opened' = FALSE
  /\ usbPc' = "task"
  /\ UNCHANGED <<mounted, session, mounts, admission, req, out, outOld,
                 mbox, info, wrkVars, beVars>>

DtrOpen ==
  /\ usbPc = "task" /\ mounted /\ ~opened
  /\ opened' = TRUE
  /\ admission' = "START_PENDING"
  /\ UNCHANGED <<usbPc, mounted, session, mounts, req, rxFlushed, out, outOld,
                 lockVars, wrkVars, beVars, history>>

(* SET_LINE_CODING that parses and that the backend accepts. *)
ArmSoftPending(f) ==
  /\ usbPc = "task" /\ mounted /\ gen < MaxGen
  /\ req' = [pending |-> TRUE, gen |-> gen + 1, lc |-> f,
             deadline |-> IF req.pending /\ req.lc = f THEN req.deadline ELSE "nil"]
  /\ gen' = gen + 1
  /\ soft' = TRUE
  /\ flags' = (flags \ {CONTROL_ERROR}) \cup {CONTROL_PENDING}
  /\ rejected' = FALSE /\ want' = f
  /\ UNCHANGED <<usbPc, mounted, session, mounts, opened, admission, rxFlushed,
                 out, outOld, lifecycle, mbox, info, wrkVars, beVars>>

(* SET_LINE_CODING that does not parse or that the backend cannot do. *)
RejectLineCoding ==
  /\ usbPc = "task" /\ mounted /\ gen < MaxGen
  /\ gen' = gen + 1
  /\ flags' = flags \cup {CONTROL_ERROR}
  /\ rejected' = TRUE /\ want' = NoFormat
  /\ UNCHANGED <<usbVars, lifecycle, soft, mbox, info, wrkVars, beVars>>

(* A bus reset empties the CDC FIFOs and need not call tud_umount_cb. *)
BusReset ==
  /\ usbPc = "task" /\ mounted /\ (opened => gen < MaxGen)
  /\ mounted' = FALSE
  /\ out' = 0 /\ outOld' = 0
  /\ UNCHANGED <<usbPc, session, mounts, opened, admission, req, rxFlushed,
                 lockVars, wrkVars, beVars, history>>

MountCb ==
  /\ usbPc = "task" /\ mounts < MaxMounts /\ (opened => gen < MaxGen)
  /\ mounts' = mounts + 1
  /\ mounted' = TRUE /\ session' = TRUE
  /\ out' = 0 /\ outOld' = 0
  /\ usbPc' = "reset"
  /\ UNCHANGED <<opened, admission, req, rxFlushed, lockVars, wrkVars, beVars,
                 history>>

UmountCb ==
  /\ usbPc = "task" /\ mounted /\ (opened => gen < MaxGen)
  /\ mounted' = FALSE /\ session' = FALSE
  /\ out' = 0 /\ outOld' = 0
  /\ usbPc' = "reset"
  /\ UNCHANGED <<mounts, opened, admission, req, rxFlushed, lockVars, wrkVars,
                 beVars, history>>

(* usb_cdc_reset_host_state: stop, quiesce, then drop the host's requests. *)
ResetStop ==
  /\ usbPc = "reset"
  /\ IF opened THEN RequestStop
               ELSE UNCHANGED <<gen, soft, flags, lifecycle, history>>
  /\ usbPc' = "resetQuiesce"
  /\ UNCHANGED <<mounted, session, mounts, opened, admission, req, rxFlushed,
                 out, outOld, mbox, info, wrkVars, beVars>>

ResetQuiesce_LeavesItToPoll ==
  /\ usbPc = "resetQuiesce"
  /\ usbPc' = "resetHost"
  /\ UNCHANGED <<mounted, session, mounts, opened, admission, req, rxFlushed,
                 out, outOld, lockVars, wrkVars, beVars, history>>

ResetQuiesce ==
  /\ usbPc = "resetQuiesce"
  /\ lifecycle' = IF StopPending THEN lifecycle \cup {"usb_quiesced"} ELSE lifecycle
  /\ usbPc' = "resetHost"
  /\ UNCHANGED <<mounted, session, mounts, opened, admission, req, rxFlushed,
                 out, outOld, flags, gen, soft, mbox, info, wrkVars, beVars,
                 history>>

ResetHost ==
  /\ usbPc = "resetHost"
  /\ opened' = FALSE
  /\ admission' = "START_PENDING"
  /\ CancelRequest
  /\ ResetSoftPending
  /\ want' = NoFormat
  /\ usbPc' = "task"
  /\ UNCHANGED <<mounted, session, mounts, rxFlushed, out, outOld, lifecycle,
                 gen, mbox, info, wrkVars, beVars, rejected>>

-----------------------------------------------------------------------------
(* Core 0: usb_cdc_poll for this port *)

LeaveTask ==
  /\ usbPc = "task" /\ (mounted \/ session)
  /\ usbPc' = IF mounted THEN "poll" ELSE "reset"
  /\ session' = mounted
  /\ UNCHANGED <<mounted, mounts, opened, admission, req, rxFlushed, out,
                 outOld, lockVars, wrkVars, beVars, history>>

PollStopPending ==
  /\ usbPc = "poll" /\ StopPending
  /\ usbPc' = "quiesce"
  /\ UNCHANGED <<mounted, session, mounts, opened, admission, req, rxFlushed,
                 out, outOld, lockVars, wrkVars, beVars, history>>

PollClosed ==
  /\ usbPc = "poll" /\ ~StopPending /\ ~opened
  /\ out' = 0 /\ outOld' = 0
  /\ usbPc' = "task"
  /\ UNCHANGED <<mounted, session, mounts, opened, admission, req, rxFlushed,
                 lockVars, wrkVars, beVars, history>>

PollOpen ==
  /\ usbPc = "poll" /\ ~StopPending /\ opened
  /\ usbPc' = IF admission = "START_PENDING" THEN "stage" ELSE "ready"
  /\ UNCHANGED <<mounted, session, mounts, opened, admission, req, rxFlushed,
                 out, outOld, lockVars, wrkVars, beVars, history>>

(* The OUT FIFO is flushed once per stop; the IN FIFO may refuse to clear. *)
FlushOutOnce ==
  IF StopQuiesced \/ rxFlushed THEN UNCHANGED <<out, outOld, rxFlushed>>
  ELSE out' = 0 /\ outOld' = 0 /\ rxFlushed' = TRUE

QuiesceBusy ==
  /\ usbPc = "quiesce"
  /\ FlushOutOnce
  /\ usbPc' = "task"
  /\ UNCHANGED <<mounted, session, mounts, opened, admission, req,
                 lockVars, wrkVars, beVars, history>>

QuiesceClear ==
  /\ usbPc = "quiesce"
  /\ FlushOutOnce
  /\ lifecycle' = IF StopPending THEN lifecycle \cup {"usb_quiesced"} ELSE lifecycle
  /\ usbPc' = "task"
  /\ UNCHANGED <<mounted, session, mounts, opened, admission, req, flags, gen,
                 soft, mbox, info, wrkVars, beVars, history>>

(* usb_cdc_apply_pending_line_coding *)
NothingStaged ==
  /\ ~req.pending
  /\ UNCHANGED <<req, soft, flags, mbox>>

SoftExpired ==
  /\ req.pending /\ req.deadline = "expired"
  /\ req' = [req EXCEPT !.pending = FALSE]
  /\ soft' = FALSE
  /\ flags' = ReleasePending(CompletionError(flags, req.gen, FALSE), FALSE,
                             mbox.occupied, pend.pending)
  /\ UNCHANGED mbox

QueueLineCoding ==
  /\ req.pending /\ req.deadline # "expired" /\ ~mbox.occupied
  /\ req' = [req EXCEPT !.pending = FALSE,
                        !.deadline = IF @ = "nil" THEN "armed" ELSE @]
  /\ soft' = FALSE
  /\ flags' = flags \cup {CONTROL_PENDING}
  /\ mbox' = [occupied |-> TRUE, gen |-> req.gen, boundary |-> prod, lc |-> req.lc]

MailboxBusy ==
  /\ req.pending /\ req.deadline # "expired" /\ mbox.occupied
  /\ req' = [req EXCEPT !.deadline = IF @ = "nil" THEN "armed" ELSE @]
  /\ UNCHANGED <<soft, flags, mbox>>

ApplyPending == NothingStaged \/ SoftExpired \/ QueueLineCoding \/ MailboxBusy

StageInitial ==
  /\ usbPc = "stage"
  /\ ApplyPending
  /\ usbPc' = IF req'.pending THEN "task" ELSE "start"
  /\ UNCHANGED <<mounted, session, mounts, opened, admission, rxFlushed, out,
                 outOld, lifecycle, gen, info, wrkVars, beVars, history>>

RequestStart_KeepsAdmission ==
  /\ usbPc = "start"
  /\ lifecycle' = lifecycle \cup {"start_pending"}
  /\ usbPc' = "ready"
  /\ UNCHANGED <<mounted, session, mounts, opened, admission, req, rxFlushed, out,
                 outOld, flags, gen, soft, mbox, info, wrkVars, beVars, history>>

RequestStart ==
  /\ usbPc = "start"
  /\ lifecycle' = lifecycle \cup {"start_pending"}
  /\ admission' = "STARTING"
  /\ usbPc' = "ready"
  /\ UNCHANGED <<mounted, session, mounts, opened, req, rxFlushed, out, outOld,
                 flags, gen, soft, mbox, info, wrkVars, beVars, history>>

PortIsReady ==
  /\ usbPc = "ready"
  /\ usbPc' = IF READY \in flags /\ up THEN "apply" ELSE "task"
  /\ UNCHANGED <<mounted, session, mounts, opened, admission, req, rxFlushed,
                 out, outOld, lockVars, wrkVars, beVars, history>>

ApplyLive ==
  /\ usbPc = "apply"
  /\ ApplyPending
  /\ usbPc' = IF admission = "STARTING" THEN "admit" ELSE "bridge"
  /\ UNCHANGED <<mounted, session, mounts, opened, admission, rxFlushed, out,
                 outOld, lifecycle, gen, info, wrkVars, beVars, history>>

Admit ==
  /\ usbPc = "admit"
  /\ IF flags \cap {CONTROL_PENDING, CONTROL_ERROR, INIT_FAILED} = {}
     THEN admission' = "RUNNING" /\ usbPc' = "bridge"
     ELSE usbPc' = "task" /\ UNCHANGED admission
  /\ UNCHANGED <<mounted, session, mounts, opened, req, rxFlushed, out, outOld,
                 lockVars, wrkVars, beVars, history>>

(* uart_driver_fill_tx: the blocked check, then the copy without the lock. *)
TxBlockedCheck ==
  /\ usbPc = "bridge"
  /\ usbPc' = IF out > 0 /\ up /\ CONTROL_PENDING \notin flags THEN "fill" ELSE "drain"
  /\ UNCHANGED <<mounted, session, mounts, opened, admission, req, rxFlushed,
                 out, outOld, lockVars, wrkVars, beVars, history>>

FillTx_WaitsForRoom ==
  /\ usbPc = "fill"
  /\ \E k \in 1..out :
       /\ prod + k <= MaxTx
       /\ prod' = prod + k
       /\ out' = out - k
       /\ outOld' = IF k < outOld THEN outOld - k ELSE 0
  /\ usbPc' = "drain"
  /\ UNCHANGED <<mounted, session, mounts, opened, admission, req, rxFlushed,
                 lockVars, wrkVars, up, fmt, cons, wire, inflight, history>>

FillTx ==
  /\ usbPc = "fill"
  /\ \E k \in 0..out :
       /\ prod + k <= MaxTx
       /\ prod' = prod + k
       /\ out' = out - k
       /\ outOld' = IF k < outOld THEN outOld - k ELSE 0
  /\ usbPc' = "drain"
  /\ UNCHANGED <<mounted, session, mounts, opened, admission, req, rxFlushed,
                 lockVars, wrkVars, up, fmt, cons, wire, inflight, history>>

DrainRx ==
  /\ usbPc = "drain"
  /\ usbPc' = "task"
  /\ UNCHANGED <<mounted, session, mounts, opened, admission, req, rxFlushed,
                 out, outOld, lockVars, wrkVars, beVars, history>>

-----------------------------------------------------------------------------
(* Core 1: uart_driver_service_channel_lifecycle *)

LifecycleCheck ==
  /\ wrkPc = "life"
  /\ wrkPc' = IF StopQuiesced THEN "deinit"
              ELSE IF ~StopPending /\ "start_pending" \in lifecycle THEN "start"
              ELSE "control"
  /\ UNCHANGED <<usbVars, lockVars, work, pend, beVars, history>>

Deinit ==
  /\ wrkPc = "deinit"
  /\ up' = FALSE /\ inflight' = 0 /\ wire' = cons
  /\ wrkPc' = "stopped"
  /\ UNCHANGED <<usbVars, lockVars, work, pend, fmt, prod, cons, history>>

CompleteStop ==
  /\ wrkPc = "stopped"
  /\ mbox' = NoMail /\ pend' = NoPend
  /\ lifecycle' = lifecycle \ {"stop_pending", "usb_quiesced"}
  /\ flags' = flags \ ({READY, INIT_FAILED}
                        \cup (IF soft THEN {} ELSE {CONTROL_PENDING}))
  /\ wrkPc' = "start"
  /\ UNCHANGED <<usbVars, gen, soft, info, work, beVars, history>>

AcceptStart ==
  /\ wrkPc = "start"
  /\ IF "start_pending" \in lifecycle /\ ~StopPending
     THEN lifecycle' = lifecycle \ {"start_pending"} /\ wrkPc' = "take"
     ELSE wrkPc' = "control" /\ UNCHANGED lifecycle
  /\ UNCHANGED <<usbVars, flags, gen, soft, mbox, info, work, pend, beVars,
                 history>>

(* uart_control_plane_start_port: the staged request, or the last applied   *)
(* format, seeds the stopped backend before it is restarted.                *)
StartTake ==
  /\ wrkPc = "take"
  /\ mbox' = NoMail
  /\ work' = [taken |-> mbox.occupied, prior |-> FALSE, ok |-> FALSE,
              gen |-> mbox.gen, boundary |-> 0,
              lc |-> IF mbox.occupied THEN mbox.lc ELSE info]
  /\ pend' = IF mbox.occupied THEN [NoPend EXCEPT !.pending = TRUE, !.gen = mbox.gen]
                             ELSE pend
  /\ wrkPc' = "restart"
  /\ UNCHANGED <<usbVars, flags, lifecycle, gen, soft, info, beVars, history>>

(* Both rings are cleared; a DMA, state-machine or UART claim may fail.     *)
Restart ==
  /\ wrkPc = "restart"
  /\ up' \in BOOLEAN
  /\ fmt' = work.lc
  /\ prod' = 0 /\ cons' = 0 /\ wire' = 0 /\ inflight' = 0
  /\ work' = [work EXCEPT !.ok = up']
  /\ wrkPc' = IF work.taken THEN "finish" ELSE "publish"
  /\ UNCHANGED <<usbVars, lockVars, pend, history>>

FinishWorkerControl(g, success, lc) ==
  /\ info' = IF success THEN lc ELSE info
  /\ pend' = NoPend
  /\ flags' = CompletionError(ReleasePending(flags, soft, mbox.occupied, FALSE),
                              g, success)

StartFinish ==
  /\ wrkPc = "finish"
  /\ FinishWorkerControl(work.gen, work.ok, work.lc)
  /\ wrkPc' = "publish"
  /\ UNCHANGED <<usbVars, lifecycle, gen, soft, mbox, work, beVars, history>>

PublishStart_OverClose ==
  /\ wrkPc = "publish"
  /\ flags' = IF work.ok THEN (flags \ {INIT_FAILED}) \cup {READY}
              ELSE (flags \ {READY}) \cup {INIT_FAILED}
  /\ work' = Idle
  /\ wrkPc' = "control"
  /\ UNCHANGED <<usbVars, lifecycle, gen, soft, mbox, info, pend, beVars, history>>

PublishStart_SilentFailure ==
  /\ wrkPc = "publish"
  /\ flags' = IF lifecycle \cap {"stop_pending", "start_pending"} # {} THEN flags
              ELSE IF work.ok THEN (flags \ {INIT_FAILED}) \cup {READY}
              ELSE flags \ {READY}
  /\ work' = Idle
  /\ wrkPc' = "control"
  /\ UNCHANGED <<usbVars, lifecycle, gen, soft, mbox, info, pend, beVars, history>>

(* A newer close or open request wins over this start's outcome. *)
PublishStart ==
  /\ wrkPc = "publish"
  /\ flags' = IF lifecycle \cap {"stop_pending", "start_pending"} # {} THEN flags
              ELSE IF work.ok THEN (flags \ {INIT_FAILED}) \cup {READY}
              ELSE (flags \ {READY}) \cup {INIT_FAILED}
  /\ work' = Idle
  /\ wrkPc' = "control"
  /\ UNCHANGED <<usbVars, lifecycle, gen, soft, mbox, info, pend, beVars, history>>

-----------------------------------------------------------------------------
(* Core 1: uart_control_plane_service for this port *)

TakeMailbox_RegistersLater ==
  /\ wrkPc = "control" /\ READY \in flags /\ mbox.occupied
  /\ mbox' = NoMail
  /\ work' = [taken |-> TRUE, prior |-> pend.pending, ok |-> FALSE,
              gen |-> mbox.gen, boundary |-> mbox.boundary, lc |-> mbox.lc]
  /\ wrkPc' = "code"
  /\ UNCHANGED <<usbVars, flags, lifecycle, gen, soft, info, pend, beVars, history>>

(* Acknowledging the mailbox and registering the worker are one lock hold. *)
TakeMailbox ==
  /\ wrkPc = "control" /\ READY \in flags /\ mbox.occupied
  /\ mbox' = NoMail
  /\ work' = [taken |-> TRUE, prior |-> pend.pending, ok |-> FALSE,
              gen |-> mbox.gen, boundary |-> mbox.boundary, lc |-> mbox.lc]
  /\ pend' = IF pend.pending THEN pend
             ELSE [NoPend EXCEPT !.pending = TRUE, !.gen = mbox.gen]
  /\ wrkPc' = "code"
  /\ UNCHANGED <<usbVars, flags, lifecycle, gen, soft, info, beVars, history>>

NothingToTake ==
  /\ wrkPc = "control" /\ ~(READY \in flags /\ mbox.occupied)
  /\ wrkPc' = "pend"
  /\ UNCHANGED <<usbVars, lockVars, work, pend, beVars, history>>

LineCodingMatches == up /\ fmt = work.lc

MatchInfo ==
  /\ wrkPc = "code" /\ LineCodingMatches
  /\ info' = work.lc
  /\ wrkPc' = "match"
  /\ UNCHANGED <<usbVars, flags, lifecycle, gen, soft, mbox, work, pend, beVars,
                 history>>

FinishMailboxControl_KeepsDeferred ==
  /\ wrkPc = "match"
  /\ pend' = IF work.prior THEN pend ELSE NoPend
  /\ flags' = CompletionError(ReleasePending(flags, soft, mbox.occupied, work.prior),
                              work.gen, TRUE)
  /\ work' = Idle
  /\ wrkPc' = "pend"
  /\ UNCHANGED <<usbVars, lifecycle, gen, soft, mbox, info, beVars, history>>

(* A matching request also completes the deferred apply it supersedes. *)
FinishMailboxControl ==
  /\ wrkPc = "match"
  /\ pend' = NoPend
  /\ LET superseded == IF work.prior THEN CompletionError(flags, pend.gen, TRUE)
                                     ELSE flags
     IN flags' = CompletionError(ReleasePending(superseded, soft, mbox.occupied, FALSE),
                                 work.gen, TRUE)
  /\ work' = Idle
  /\ wrkPc' = "pend"
  /\ UNCHANGED <<usbVars, lifecycle, gen, soft, mbox, info, beVars, history>>

DeferApply ==
  /\ wrkPc = "code" /\ ~LineCodingMatches
  /\ pend' = [pending |-> TRUE, gen |-> work.gen, boundary |-> work.boundary,
              lc |-> work.lc,
              deadline |-> IF work.prior /\ pend.lc = work.lc THEN pend.deadline
                                                              ELSE "armed"]
  /\ flags' = (IF work.gen = gen THEN flags \ {CONTROL_ERROR} ELSE flags)
              \cup {CONTROL_PENDING}
  /\ work' = Idle
  /\ wrkPc' = "pend"
  /\ UNCHANGED <<usbVars, lifecycle, gen, soft, mbox, info, beVars, history>>

CheckPending ==
  /\ wrkPc = "pend"
  /\ wrkPc' = IF pend.pending /\ READY \in flags THEN "service" ELSE "io"
  /\ UNCHANGED <<usbVars, lockVars, work, pend, beVars, history>>

BoundaryDrained == cons = pend.boundary

(* Nothing touches the backend once the apply deadline has passed. *)
ServiceTimeout ==
  /\ wrkPc = "service" /\ pend.deadline = "expired"
  /\ FinishWorkerControl(pend.gen, FALSE, pend.lc)
  /\ wrkPc' = "io"
  /\ UNCHANGED <<usbVars, lifecycle, gen, soft, mbox, work, beVars, history>>

ServiceWait ==
  /\ wrkPc = "service" /\ pend.deadline # "expired" /\ ~BoundaryDrained
  /\ wrkPc' = "io"
  /\ UNCHANGED <<usbVars, lockVars, work, pend, beVars, history>>

ServiceApply ==
  /\ wrkPc = "service" /\ pend.deadline # "expired" /\ BoundaryDrained
  /\ wrkPc' = "apply"
  /\ UNCHANGED <<usbVars, lockVars, work, pend, beVars, history>>

TxIdle == inflight = 0 /\ wire = cons

Applied ==
  /\ wrkPc = "apply" /\ TxIdle
  /\ fmt' = pend.lc
  /\ wrkPc' = "applied"
  /\ UNCHANGED <<usbVars, lockVars, work, pend, up, prod, cons, wire, inflight,
                 history>>

(* The UART is not idle, RX bytes keep arriving, or the new format failed   *)
(* and the previous one was restored: retry until the deadline.             *)
ApplyDeferred ==
  /\ wrkPc = "apply" /\ pend.deadline # "expired"
  /\ wrkPc' = "io"
  /\ UNCHANGED <<usbVars, lockVars, work, pend, beVars, history>>

ApplyTimedOut ==
  /\ wrkPc = "apply" /\ pend.deadline = "expired"
  /\ FinishWorkerControl(pend.gen, FALSE, pend.lc)
  /\ wrkPc' = "io"
  /\ UNCHANGED <<usbVars, lifecycle, gen, soft, mbox, work, beVars, history>>

(* Neither the new nor the previous format could be configured. *)
ApplyKillsBackend ==
  /\ wrkPc = "apply" /\ TxIdle
  /\ up' = FALSE
  /\ wrkPc' = "dead"
  /\ UNCHANGED <<usbVars, lockVars, work, pend, fmt, prod, cons, wire, inflight,
                 history>>

FinishApplied ==
  /\ wrkPc = "applied"
  /\ FinishWorkerControl(pend.gen, TRUE, pend.lc)
  /\ wrkPc' = "io"
  /\ UNCHANGED <<usbVars, lifecycle, gen, soft, mbox, work, beVars, history>>

MarkDead ==
  /\ wrkPc = "dead"
  /\ flags' = (flags \ {READY}) \cup {INIT_FAILED}
  /\ wrkPc' = "deadFinish"
  /\ UNCHANGED <<usbVars, lifecycle, gen, soft, mbox, info, work, pend, beVars,
                 history>>

FinishDead_KeepsOwnership ==
  /\ wrkPc = "deadFinish"
  /\ wrkPc' = "io"
  /\ UNCHANGED <<usbVars, lockVars, work, pend, beVars, history>>

FinishDead ==
  /\ wrkPc = "deadFinish"
  /\ FinishWorkerControl(pend.gen, FALSE, pend.lc)
  /\ wrkPc' = "io"
  /\ UNCHANGED <<usbVars, lifecycle, gen, soft, mbox, work, beVars, history>>

-----------------------------------------------------------------------------
(* Core 1: uart_driver_poll_io for this port, and the hardware *)

SkipIo ==
  /\ wrkPc = "io" /\ (StopQuiesced \/ ~up)
  /\ wrkPc' = "life"
  /\ UNCHANGED <<usbVars, lockVars, work, pend, beVars, history>>

TxLaunchAllowed == ~pend.pending \/ ~BoundaryDrained

(* A finished TX DMA is committed; then a new one may be launched. *)
PollIo ==
  /\ wrkPc = "io" /\ ~StopQuiesced /\ up
  /\ \E done \in {0, inflight} :
       LET busy == inflight - done
           left == prod - (cons + done)
       IN /\ cons' = cons + done
          /\ IF TxLaunchAllowed /\ busy = 0 /\ left > 0
             THEN inflight' \in 0..left
             ELSE inflight' = busy
  /\ wrkPc' = "life"
  /\ UNCHANGED <<usbVars, lockVars, work, pend, up, fmt, prod, wire, history>>

(* The UART shifts out what the DMA handed over; CTS may stall it. *)
WireDrains ==
  /\ up /\ wire < cons
  /\ wire' = cons
  /\ UNCHANGED <<usbVars, lockVars, wrkVars, up, fmt, prod, cons, inflight, history>>

(* One second passes for the staged or for the deferred request. *)
SoftDeadlinePasses ==
  /\ req.pending /\ req.deadline = "armed"
  /\ req' = [req EXCEPT !.deadline = "expired"]
  /\ UNCHANGED <<usbPc, mounted, session, mounts, opened, admission, rxFlushed,
                 out, outOld, lockVars, wrkVars, beVars, history>>

ApplyDeadlinePasses ==
  /\ pend.pending /\ pend.deadline = "armed"
  /\ pend' = [pend EXCEPT !.deadline = "expired"]
  /\ UNCHANGED <<usbVars, lockVars, wrkPc, work, beVars, history>>

-----------------------------------------------------------------------------
Host ==
  \/ HostByte \/ DtrClose \/ DtrOpen \/ (\E f \in Formats : ArmSoftPending(f))
  \/ RejectLineCoding \/ BusReset \/ MountCb \/ UmountCb

UsbCore ==
  \/ CloseStop \/ ResetStop \/ ResetQuiesce \/ ResetHost
  \/ LeaveTask \/ PollStopPending \/ PollClosed \/ PollOpen
  \/ QuiesceBusy \/ QuiesceClear \/ StageInitial \/ RequestStart \/ PortIsReady
  \/ ApplyLive \/ Admit \/ TxBlockedCheck \/ FillTx \/ DrainRx

Worker ==
  \/ LifecycleCheck \/ Deinit \/ CompleteStop \/ AcceptStart \/ StartTake
  \/ Restart \/ StartFinish \/ PublishStart
  \/ TakeMailbox \/ NothingToTake \/ MatchInfo \/ FinishMailboxControl
  \/ DeferApply \/ CheckPending \/ ServiceTimeout \/ ServiceWait \/ ServiceApply
  \/ Applied \/ ApplyDeferred \/ ApplyTimedOut \/ ApplyKillsBackend
  \/ FinishApplied \/ MarkDead \/ FinishDead \/ SkipIo \/ PollIo

Time == SoftDeadlinePasses \/ ApplyDeadlinePasses

Next == Host \/ UsbCore \/ Worker \/ WireDrains \/ Time

Spec == Init /\ [][Next]_vars

-----------------------------------------------------------------------------
(* Properties *)

(* While a request is held by the USB core, by the mailbox or by the worker,
   CONTROL_PENDING is set, so TX ingress stays blocked through every handoff
   (pending_should_clear and its five call sites). *)
PendingCoversOwners ==
  soft \/ mbox.occupied \/ pend.pending => CONTROL_PENDING \in flags

(* CONTROL_PENDING never outlives its reason: without an owner and without a
   stop under way nobody would ever clear it and TX would stay blocked. *)
PendingHasReason ==
  CONTROL_PENDING \in flags => soft \/ mbox.occupied \/ pend.pending \/ StopPending

(* CONTROL_PENDING is held exactly as long as somebody has a reason to hold it. *)
PendingExact == PendingCoversOwners /\ PendingHasReason

(* The staged request of the USB core and its lock-protected mirror, which the
   worker consults when it completes a stop or an apply, never disagree. *)
SoftMirrorsRequest ==
  usbPc \notin {"resetQuiesce", "resetHost"} => (soft <=> req.pending)

(* The worker never stops or restarts a backend, which clears both rings,
   while the USB core is copying between those rings and the CDC FIFOs. *)
BridgeExclusion ==
  ~ (usbPc \in {"bridge", "fill", "drain"} /\ wrkPc \in {"deinit", "restart"})

(* READY means that the backend runs and that the published format is the one
   in the hardware, except between a backend change and its publication. *)
ReadyMeansActive ==
  READY \in flags => /\ up \/ wrkPc = "dead"
                     /\ info = fmt \/ wrkPc = "applied"

(* A close wins over a start that is already under way: while a stop is
   pending the port is not READY and no start is queued. *)
CloseWins ==
  StopPending => READY \notin flags /\ "start_pending" \notin lifecycle

(* A rejected request stays visible as CONTROL_ERROR until a newer request or a
   close: no late completion of an older request clears it. *)
RejectStaysVisible == rejected => CONTROL_ERROR \in flags

(* When nothing is pending and no error is reported on a ready port, the format
   in force and the published one are those the host asked for last. *)
LatestRequestWins ==
  (/\ want # NoFormat /\ READY \in flags
   /\ flags \cap {CONTROL_PENDING, CONTROL_ERROR} = {})
  => fmt = want /\ info = want

(* A request made while the port is closed does not consume its window. *)
ClosedRequestKeepsItsWindow ==
  req.pending /\ ~opened => req.deadline = "nil"

(* The format of a running backend changes only when every byte ever admitted
   to the TX ring has left the wire: no byte is sent in a format other than
   the one in force when it was admitted. *)
FormatChangeAfterDrain ==
  [][up /\ up' /\ fmt' # fmt => wire = prod]_vars

(* Bytes that were in the CDC OUT FIFO when the host closed the port are never
   copied to the UART, in this session or in a later one. *)
ClosedBytesDiscarded == [][prod' > prod => outOld = 0]_vars

(* The two cores, the mailbox, the generations and the deadlines between them
   are a PortService: each step is one of its steps or changes nothing the host
   can observe. *)
Service == INSTANCE PortService
  WITH open <- opened, stopping <- StopPending, running <- up,
       ready <- READY \in flags, busy <- CONTROL_PENDING \in flags,
       failed <- CONTROL_ERROR \in flags, wanted <- want, format <- fmt,
       accepted <- prod, sent <- wire

ImplementsService == Service!Spec

-----------------------------------------------------------------------------
(* Both cores run their loops for ever, the two windows pass once they are armed,
   and the IN FIFO does not refuse to clear for ever. *)
CoreFairness == WF_vars(UsbCore) /\ WF_vars(Worker)
TimerFairness == WF_vars(SoftDeadlinePasses) /\ WF_vars(ApplyDeadlinePasses)
ClearFairness == SF_vars(QuiesceClear)

Fairness == CoreFairness /\ TimerFairness /\ ClearFairness

FairSpec == Spec /\ Fairness

(* Neither core ever waits for the other, nor a timer for a core: the worker can
   always take its next step, so can the USB core unless the port has nothing
   for it to do, the IN FIFO may clear when it is asked to, and a deadline that
   is armed can pass. *)
CoresNeverBlock ==
  /\ ENABLED <<Worker>>_vars
  /\ usbPc # "task" \/ mounted \/ session => ENABLED <<UsbCore>>_vars
  /\ usbPc = "quiesce" => ENABLED <<QuiesceClear>>_vars
  /\ req.pending /\ req.deadline = "armed" => ENABLED <<SoftDeadlinePasses>>_vars
  /\ pend.pending /\ pend.deadline = "armed" => ENABLED <<ApplyDeadlinePasses>>_vars

(* From some point on the host makes no request, does not close the port and
   does not mount again. *)
NoRequest == UNCHANGED <<gen, mounts>>

HostSettles == <>[][NoRequest]_vars

(* A requested stop completes. *)
StopCompletes == StopPending ~> ~StopPending

(* A deferred apply is resolved, by success, failure, timeout or a stop. *)
ApplyResolves == pend.pending ~> ~pend.pending

(* An opened port becomes ready or reports a start failure. *)
OpenResolves ==
  (opened /\ mounted) ~> (flags \cap {READY, INIT_FAILED} # {} \/ ~opened \/ ~mounted)

-----------------------------------------------------------------------------
(* The inductive invariant behind the safety properties *)

Starting == {"take", "restart", "finish", "publish"}
Bridging == {"bridge", "fill", "drain"}
Applying == {"service", "apply", "applied", "dead", "deadFinish"}

(* Nothing of a start is left: READY is clear, no start is queued and the
   worker is not starting, unless a stop will undo what it starts. *)
Inactive ==
  /\ READY \notin flags
  /\ "start_pending" \notin lifecycle
  /\ StopPending \/ wrkPc \notin Starting

(* Where the USB core may stand while stops and starts are in progress. *)
UsbCoreInv ==
  /\ usbPc \in Bridging \cup {"stage", "start", "ready", "apply", "admit"}
       => opened /\ ~StopPending
  /\ usbPc \in {"stage", "start"} => admission = "START_PENDING"
  /\ usbPc \in Bridging \cup {"apply", "admit"}
       => "start_pending" \notin lifecycle /\ wrkPc \notin Starting
  /\ usbPc = "fill" => ~soft /\ ~mbox.occupied /\ ~pend.pending
  /\ (\/ ~opened
      \/ admission = "START_PENDING" /\ usbPc # "close"
      \/ usbPc \in {"resetQuiesce", "resetHost"}) => Inactive
  /\ usbPc = "close" => opened

(* What the worker knows about the lifecycle and about the backend. *)
WorkerInv ==
  /\ wrkPc \in {"deinit", "stopped"} => StopQuiesced
  /\ wrkPc \in Starting => READY \notin flags /\ "start_pending" \notin lifecycle
  /\ "start_pending" \in lifecycle => READY \notin flags /\ ~StopPending
  /\ StopPending => READY \notin flags
  /\ wrkPc \in {"stopped", "take", "restart", "dead", "deadFinish"} => ~up
  /\ wrkPc \in {"code", "match", "service", "apply", "applied"} => up
  /\ wrkPc \in {"finish", "publish"} => work.ok = up
  /\ READY \in flags => up \/ wrkPc = "dead"
  /\ up => READY \in flags \/ StopPending \/ wrkPc \in {"finish", "publish"}

(* The formats that are published, staged and in force. *)
FormatInv ==
  /\ wrkPc \in {"finish", "publish"} => fmt = work.lc
  /\ wrkPc = "restart" /\ ~work.taken => work.lc = info
  /\ wrkPc = "finish" => work.taken
  /\ wrkPc = "publish" /\ work.ok => info = fmt
  /\ wrkPc = "applied" => fmt = pend.lc
  /\ wrkPc = "match" => info = work.lc
  /\ READY \in flags => info = fmt \/ wrkPc = "applied"

(* A held request blocks ingress, so its TX boundary is the producer. *)
BoundaryInv ==
  /\ wrkPc \in Applying \cup {"code", "match"} => pend.pending
  /\ wrkPc \in {"take", "publish"} => ~pend.pending
  /\ wrkPc \in {"restart", "finish"} => (pend.pending <=> work.taken)
  /\ wrkPc \in {"restart", "finish"} => ~mbox.occupied
  /\ pend.pending => READY \in flags \/ StopPending
                     \/ wrkPc \in {"restart", "finish", "deadFinish"}
  /\ mbox.occupied => mbox.boundary = prod
  /\ wrkPc = "code" => work.boundary = prod
  /\ pend.pending /\ wrkPc \notin {"code", "match", "restart", "finish"}
       => pend.boundary = prod
  /\ wrkPc \in {"apply", "applied"} => cons = pend.boundary

(* The staged request and its mirror; a close cancels the request first. *)
RequestInv ==
  /\ SoftMirrorsRequest /\ ClosedRequestKeepsItsWindow
  /\ usbPc = "close" => ~req.pending

(* No owner holds a generation from the future; after a reject every request
   that is still held is older than the reject, and while a stop is pending
   the mailbox and the worker hold nothing newer than the stop. *)
GenInv ==
  /\ \A g \in {req.gen, mbox.gen, work.gen, pend.gen} :
        g <= gen /\ (rejected => g < gen)
  /\ StopPending => \A g \in {mbox.gen, work.gen, pend.gen} : g < gen

(* The worker holds a request it took from the mailbox in work. *)
WorkHolds == wrkPc \in {"code", "match"} \/ (wrkPc \in {"restart", "finish"} /\ work.taken)

(* Requests are handed on in order: staged, mailbox, worker, deferred. *)
OrderInv ==
  /\ soft /\ mbox.occupied => mbox.gen < req.gen
  /\ soft /\ pend.pending => pend.gen < req.gen
  /\ mbox.occupied /\ pend.pending => pend.gen < mbox.gen
  /\ WorkHolds => /\ soft => work.gen < req.gen
                  /\ mbox.occupied => work.gen < mbox.gen
                  /\ pend.gen = work.gen \/ (work.prior /\ pend.gen < work.gen)

(* The newest request, wherever it is held, is the format the host wants. *)
HolderInv ==
  want # NoFormat =>
    /\ soft /\ req.gen = gen => req.lc = want
    /\ mbox.occupied /\ mbox.gen = gen => mbox.lc = want
    /\ WorkHolds /\ work.gen = gen => work.lc = want
    /\ pend.pending /\ pend.gen = gen /\ ~WorkHolds => pend.lc = want

(* Unless it failed, the newest request is still held or it is in force. *)
LatestInv ==
  want # NoFormat /\ CONTROL_ERROR \notin flags =>
    \/ soft /\ req.gen = gen
    \/ /\ ~StopPending
       /\ \/ mbox.occupied /\ mbox.gen = gen
          \/ WorkHolds /\ work.gen = gen
          \/ pend.pending /\ pend.gen = gen /\ ~WorkHolds
          \/ info = want /\ ~soft /\ ~mbox.occupied /\ ~pend.pending

(* Bytes of a closed session wait for the flush of the stop that the close
   requested, provided that no close finds a stop already pending. *)
FlushInv ==
  /\ ~mounted \/ usbPc \in {"reset", "resetQuiesce", "resetHost"} => out = 0
  /\ ~RecloseDuringStop =>
       /\ usbPc = "close" => ~StopPending
       /\ outOld > 0 => usbPc = "close" \/ (StopPending /\ ~StopQuiesced /\ ~rxFlushed)

IInv ==
  /\ TypeOK /\ PendingCoversOwners /\ PendingHasReason
  /\ UsbCoreInv /\ WorkerInv /\ FormatInv /\ BoundaryInv
  /\ RequestInv /\ GenInv /\ RejectStaysVisible
  /\ OrderInv /\ HolderInv /\ LatestInv /\ FlushInv

-----------------------------------------------------------------------------
(* What the liveness of the port rests on in addition *)

Resetting == {"reset", "resetQuiesce", "resetHost"}

(* Whoever still has a stop to acknowledge keeps being polled: a port without
   a mount and without a session has acknowledged its stop in the reset. *)
MountInv ==
  /\ usbPc \notin Resetting \cup {"task"} => mounted
  /\ mounted => session
  /\ ~session /\ StopPending /\ usbPc \in {"task", "resetHost"} => StopQuiesced

(* A deferred apply has its deadline, except while the worker decides. *)
DeadlineInv ==
  /\ pend.pending /\ pend.deadline = "nil"
       => wrkPc \in {"code", "match", "restart", "finish"}
  /\ wrkPc = "code" /\ work.prior => pend.deadline # "nil"

(* A port that is opened has not asked for a start yet, or the start is on its
   way, or it has ended. *)
AdmissionInv ==
  /\ usbPc \in {"ready", "apply", "admit"} \cup Bridging
       => admission # "START_PENDING"
  /\ opened /\ usbPc \notin {"resetQuiesce", "resetHost"} /\ admission # "START_PENDING"
       => /\ ~StopPending
          /\ \/ flags \cap {READY, INIT_FAILED} # {}
             \/ "start_pending" \in lifecycle \/ wrkPc \in Starting

-----------------------------------------------------------------------------
(* What the refinement of PortService rests on in addition *)

(* Who fails the newest request gives it up, so no owner is left whose success
   could clear CONTROL_ERROR. *)
FailureInv ==
  CONTROL_ERROR \in flags =>
    /\ soft => req.gen < gen
    /\ mbox.occupied => mbox.gen < gen
    /\ WorkHolds => work.gen < gen
    /\ pend.pending => pend.gen < gen

(* The backend cannot go away under a fill: only a request could kill it. *)
FillInv == usbPc = "fill" => up

ServiceInv == IInv /\ FailureInv /\ FillInv

=============================================================================
