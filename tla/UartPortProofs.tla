-------------------------- MODULE UartPortProofs ---------------------------
(* Type correctness and the inductive invariant of UartPort and what follows *)
(* from it, for every set of formats and every value of the bounds.          *)
(*                                                                           *)
(* TypeOK: each lemma is about one group of variables; the first case        *)
(* collects the actions that leave the group alone, then there is one case   *)
(* per action.  IInv is a conjunction of named parts: one lemma per part     *)
(* shows that a step preserves it, with the other parts it rests on as       *)
(* assumptions; InvStep puts the lemmas together.                            *)
(*                                                                           *)
(* Liveness: what a stop, a deferred apply and an opened port wait for comes *)
(* about, whatever the formats and the bounds, if neither core ever blocks   *)
(* (CoresNeverBlock, an invariant of a run) and the host falls silent.       *)
EXTENDS UartPort, TLAPS

(* What core 0 keeps for itself: session, admission, staged request. *)
LEMMA UsbTypeStep ==
  ASSUME UsbTypeOK, LockTypeOK, [Next]_vars
  PROVE  UsbTypeOK'
<1> USE PortAssumption
    DEF UsbTypeOK, LockTypeOK, UsbPcs, Deadlines, usbVars, lockVars, wrkVars,
        beVars, history, vars
<1>1. CASE RejectLineCoding \/ LifecycleCheck \/ Deinit \/ CompleteStop \/
               AcceptStart \/ StartTake \/ Restart \/ StartFinish \/
               PublishStart \/ TakeMailbox \/ NothingToTake \/ MatchInfo \/
               FinishMailboxControl \/ DeferApply \/ CheckPending \/
               ServiceTimeout \/ ServiceWait \/ ServiceApply \/ Applied \/
               ApplyDeferred \/ ApplyTimedOut \/ ApplyKillsBackend \/
               FinishApplied \/ MarkDead \/ FinishDead \/ SkipIo \/ PollIo \/
               WireDrains \/ ApplyDeadlinePasses
  <2>1. UNCHANGED usbVars
    BY <1>1 DEF RejectLineCoding, LifecycleCheck,
      Deinit, CompleteStop, AcceptStart, StartTake, Restart, StartFinish,
      PublishStart, TakeMailbox, NothingToTake, MatchInfo,
      FinishMailboxControl, DeferApply, CheckPending, ServiceTimeout,
      ServiceWait, ServiceApply, Applied, ApplyDeferred, ApplyTimedOut,
      ApplyKillsBackend, FinishApplied, MarkDead, FinishDead, SkipIo, PollIo,
      WireDrains, ApplyDeadlinePasses, FinishWorkerControl, usbVars
  <2>2. QED BY <2>1 DEF usbVars
<1>2. CASE HostByte
  BY <1>2 DEF HostByte
<1>3. CASE DtrClose
  BY <1>3 DEF DtrClose, CancelRequest, ResetSoftPending
<1>4. CASE DtrOpen
  BY <1>4 DEF DtrOpen
<1>5. CASE (\E f \in Formats : ArmSoftPending(f))
  BY <1>5 DEF ArmSoftPending
<1>6. CASE BusReset
  BY <1>6 DEF BusReset
<1>7. CASE MountCb
  BY <1>7 DEF MountCb
<1>8. CASE UmountCb
  BY <1>8 DEF UmountCb
<1>9. CASE CloseStop
  BY <1>9 DEF CloseStop, RequestStop
<1>10. CASE ResetStop
  BY <1>10 DEF ResetStop, RequestStop
<1>11. CASE ResetQuiesce
  BY <1>11 DEF ResetQuiesce
<1>12. CASE ResetHost
  BY <1>12 DEF ResetHost, CancelRequest, ResetSoftPending
<1>13. CASE LeaveTask
  BY <1>13 DEF LeaveTask
<1>14. CASE PollStopPending
  BY <1>14 DEF PollStopPending
<1>15. CASE PollClosed
  BY <1>15 DEF PollClosed
<1>16. CASE PollOpen
  BY <1>16 DEF PollOpen
<1>17. CASE QuiesceBusy
  BY <1>17 DEF QuiesceBusy, FlushOutOnce
<1>18. CASE QuiesceClear
  BY <1>18 DEF QuiesceClear, FlushOutOnce
<1>19. CASE StageInitial
  BY <1>19 DEF StageInitial, ApplyPending, NothingStaged, SoftExpired,
    QueueLineCoding, MailboxBusy
<1>20. CASE RequestStart
  BY <1>20 DEF RequestStart
<1>21. CASE PortIsReady
  BY <1>21 DEF PortIsReady
<1>22. CASE ApplyLive
  BY <1>22 DEF ApplyLive, ApplyPending, NothingStaged, SoftExpired,
    QueueLineCoding, MailboxBusy
<1>23. CASE Admit
  BY <1>23 DEF Admit
<1>24. CASE TxBlockedCheck
  BY <1>24 DEF TxBlockedCheck
<1>25. CASE FillTx
  BY <1>25 DEF FillTx
<1>26. CASE DrainRx
  BY <1>26 DEF DrainRx
<1>27. CASE SoftDeadlinePasses
  BY <1>27 DEF SoftDeadlinePasses
<1>28. CASE UNCHANGED vars
  BY <1>28 DEF vars
<1>29. QED BY <1>1, <1>2, <1>3, <1>4, <1>5, <1>6, <1>7, <1>8, <1>9, <1>10,
    <1>11, <1>12, <1>13, <1>14, <1>15, <1>16, <1>17, <1>18, <1>19, <1>20,
    <1>21, <1>22, <1>23, <1>24, <1>25, <1>26, <1>27, <1>28
    DEF Next, Host, UsbCore, Worker, Time

(* The CDC OUT FIFO never counts more old bytes than it holds. *)
LEMMA OutTypeStep ==
  ASSUME OutTypeOK, [Next]_vars
  PROVE  OutTypeOK'
<1> USE DEF OutTypeOK, usbVars, lockVars, wrkVars, beVars, history, vars
<1>1. CASE DtrOpen \/ (\E f \in Formats : ArmSoftPending(f)) \/
               RejectLineCoding \/ CloseStop \/ ResetStop \/ ResetQuiesce \/
               ResetHost \/ LeaveTask \/ PollStopPending \/ PollOpen \/
               StageInitial \/ RequestStart \/ PortIsReady \/ ApplyLive \/
               Admit \/ TxBlockedCheck \/ DrainRx \/ LifecycleCheck \/
               Deinit \/ CompleteStop \/ AcceptStart \/ StartTake \/
               Restart \/ StartFinish \/ PublishStart \/ TakeMailbox \/
               NothingToTake \/ MatchInfo \/ FinishMailboxControl \/
               DeferApply \/ CheckPending \/ ServiceTimeout \/ ServiceWait \/
               ServiceApply \/ Applied \/ ApplyDeferred \/ ApplyTimedOut \/
               ApplyKillsBackend \/ FinishApplied \/ MarkDead \/ FinishDead \/
               SkipIo \/ PollIo \/ WireDrains \/ SoftDeadlinePasses \/
               ApplyDeadlinePasses
  BY <1>1 DEF DtrOpen, ArmSoftPending, RejectLineCoding, CloseStop, ResetStop,
    ResetQuiesce, ResetHost, LeaveTask, PollStopPending, PollOpen,
    StageInitial, RequestStart, PortIsReady, ApplyLive, Admit, TxBlockedCheck,
    DrainRx, LifecycleCheck, Deinit, CompleteStop, AcceptStart, StartTake,
    Restart, StartFinish, PublishStart, TakeMailbox, NothingToTake, MatchInfo,
    FinishMailboxControl, DeferApply, CheckPending, ServiceTimeout,
    ServiceWait, ServiceApply, Applied, ApplyDeferred, ApplyTimedOut,
    ApplyKillsBackend, FinishApplied, MarkDead, FinishDead, SkipIo, PollIo,
    WireDrains, SoftDeadlinePasses, ApplyDeadlinePasses, FinishWorkerControl
<1>2. CASE HostByte
  BY <1>2 DEF HostByte
<1>3. CASE DtrClose
  BY <1>3 DEF DtrClose
<1>4. CASE BusReset
  BY <1>4 DEF BusReset
<1>5. CASE MountCb
  BY <1>5 DEF MountCb
<1>6. CASE UmountCb
  BY <1>6 DEF UmountCb
<1>7. CASE PollClosed
  BY <1>7 DEF PollClosed
<1>8. CASE QuiesceBusy
  BY <1>8 DEF QuiesceBusy, FlushOutOnce
<1>9. CASE QuiesceClear
  BY <1>9 DEF QuiesceClear, FlushOutOnce
<1>10. CASE FillTx
  BY <1>10 DEF FillTx
<1>11. CASE UNCHANGED vars
  BY <1>11 DEF vars
<1>12. QED BY <1>1, <1>2, <1>3, <1>4, <1>5, <1>6, <1>7, <1>8, <1>9, <1>10,
    <1>11
    DEF Next, Host, UsbCore, Worker, Time

(* The state both cores share under status_lock. *)
LEMMA LockTypeStep ==
  ASSUME UsbTypeOK, LockTypeOK, WorkerTypeOK, BackendTypeOK, [Next]_vars
  PROVE  LockTypeOK'
<1> USE PortAssumption
    DEF UsbTypeOK, LockTypeOK, WorkerTypeOK, BackendTypeOK, Flags, NoMail,
        ReleasePending, CompletionError, StopPending, usbVars, lockVars,
        wrkVars, beVars, history, vars
<1>1. CASE HostByte \/ DtrOpen \/ BusReset \/ MountCb \/ UmountCb \/
               LeaveTask \/ PollStopPending \/ PollClosed \/ PollOpen \/
               QuiesceBusy \/ PortIsReady \/ Admit \/ TxBlockedCheck \/
               FillTx \/ DrainRx \/ LifecycleCheck \/ Deinit \/ Restart \/
               NothingToTake \/ CheckPending \/ ServiceWait \/ ServiceApply \/
               Applied \/ ApplyDeferred \/ ApplyKillsBackend \/ SkipIo \/
               PollIo \/ WireDrains \/ SoftDeadlinePasses \/
               ApplyDeadlinePasses
  BY <1>1 DEF HostByte, DtrOpen, BusReset, MountCb, UmountCb, LeaveTask,
    PollStopPending, PollClosed, PollOpen, QuiesceBusy, PortIsReady, Admit,
    TxBlockedCheck, FillTx, DrainRx, LifecycleCheck, Deinit, Restart,
    NothingToTake, CheckPending, ServiceWait, ServiceApply, Applied,
    ApplyDeferred, ApplyKillsBackend, SkipIo, PollIo, WireDrains,
    SoftDeadlinePasses, ApplyDeadlinePasses, FlushOutOnce
<1>2. CASE DtrClose
  BY <1>2 DEF DtrClose, CancelRequest, ResetSoftPending
<1>3. CASE (\E f \in Formats : ArmSoftPending(f))
  BY <1>3 DEF ArmSoftPending
<1>4. CASE RejectLineCoding
  BY <1>4 DEF RejectLineCoding
<1>5. CASE CloseStop
  <2>1. flags' \subseteq Flags BY <1>5 DEF CloseStop, RequestStop
  <2>2. lifecycle' \subseteq {"stop_pending", "usb_quiesced", "start_pending"}
    BY <1>5 DEF CloseStop, RequestStop
  <2>3. gen' \in Nat BY <1>5 DEF CloseStop, RequestStop
  <2>4. soft' \in BOOLEAN BY <1>5 DEF CloseStop, RequestStop
  <2>5. UNCHANGED <<info, mbox>> BY <1>5 DEF CloseStop
  <2>6. QED BY <2>1, <2>2, <2>3, <2>4, <2>5
<1>6. CASE ResetStop
  <2>1. flags' \subseteq Flags BY <1>6 DEF ResetStop, RequestStop
  <2>2. lifecycle' \subseteq {"stop_pending", "usb_quiesced", "start_pending"}
    BY <1>6 DEF ResetStop, RequestStop
  <2>3. gen' \in Nat BY <1>6 DEF ResetStop, RequestStop
  <2>4. soft' \in BOOLEAN BY <1>6 DEF ResetStop, RequestStop
  <2>5. UNCHANGED <<info, mbox>> BY <1>6 DEF ResetStop
  <2>6. QED BY <2>1, <2>2, <2>3, <2>4, <2>5
<1>7. CASE ResetQuiesce
  BY <1>7 DEF ResetQuiesce
<1>8. CASE ResetHost
  BY <1>8 DEF ResetHost, CancelRequest, ResetSoftPending
<1>9. CASE QuiesceClear
  BY <1>9 DEF QuiesceClear, FlushOutOnce
<1>10. CASE StageInitial
  <2>1. CASE NothingStaged
    BY <1>10, <2>1 DEF StageInitial, NothingStaged
  <2>2. CASE SoftExpired
    BY <1>10, <2>2 DEF StageInitial, SoftExpired
  <2>3. CASE QueueLineCoding
    BY <1>10, <2>3 DEF StageInitial, QueueLineCoding
  <2>4. CASE MailboxBusy
    BY <1>10, <2>4 DEF StageInitial, MailboxBusy
  <2>5. QED BY <1>10, <2>1, <2>2, <2>3, <2>4 DEF StageInitial, ApplyPending
<1>11. CASE RequestStart
  BY <1>11 DEF RequestStart
<1>12. CASE ApplyLive
  <2>1. CASE NothingStaged
    BY <1>12, <2>1 DEF ApplyLive, NothingStaged
  <2>2. CASE SoftExpired
    BY <1>12, <2>2 DEF ApplyLive, SoftExpired
  <2>3. CASE QueueLineCoding
    BY <1>12, <2>3 DEF ApplyLive, QueueLineCoding
  <2>4. CASE MailboxBusy
    BY <1>12, <2>4 DEF ApplyLive, MailboxBusy
  <2>5. QED BY <1>12, <2>1, <2>2, <2>3, <2>4 DEF ApplyLive, ApplyPending
<1>13. CASE CompleteStop
  BY <1>13 DEF CompleteStop
<1>14. CASE AcceptStart
  BY <1>14 DEF AcceptStart
<1>15. CASE StartTake
  BY <1>15 DEF StartTake
<1>16. CASE StartFinish
  BY <1>16 DEF StartFinish, FinishWorkerControl
<1>17. CASE PublishStart
  BY <1>17 DEF PublishStart
<1>18. CASE TakeMailbox
  BY <1>18 DEF TakeMailbox
<1>19. CASE MatchInfo
  BY <1>19 DEF MatchInfo
<1>20. CASE FinishMailboxControl
  BY <1>20 DEF FinishMailboxControl
<1>21. CASE DeferApply
  BY <1>21 DEF DeferApply
<1>22. CASE ServiceTimeout
  BY <1>22 DEF ServiceTimeout, FinishWorkerControl
<1>23. CASE ApplyTimedOut
  BY <1>23 DEF ApplyTimedOut, FinishWorkerControl
<1>24. CASE FinishApplied
  BY <1>24 DEF FinishApplied, FinishWorkerControl
<1>25. CASE MarkDead
  BY <1>25 DEF MarkDead
<1>26. CASE FinishDead
  BY <1>26 DEF FinishDead, FinishWorkerControl
<1>27. CASE UNCHANGED vars
  BY <1>27 DEF vars
<1>28. QED BY <1>1, <1>2, <1>3, <1>4, <1>5, <1>6, <1>7, <1>8, <1>9, <1>10,
    <1>11, <1>12, <1>13, <1>14, <1>15, <1>16, <1>17, <1>18, <1>19, <1>20,
    <1>21, <1>22, <1>23, <1>24, <1>25, <1>26, <1>27
    DEF Next, Host, UsbCore, Worker, Time

(* The worker's program counter and the requests it holds. *)
LEMMA WorkerTypeStep ==
  ASSUME LockTypeOK, WorkerTypeOK, BackendTypeOK, [Next]_vars
  PROVE  WorkerTypeOK'
<1> USE PortAssumption
    DEF LockTypeOK, WorkerTypeOK, BackendTypeOK, WrkPcs, Deadlines, Idle, NoPend,
        usbVars, lockVars, wrkVars, beVars, history, vars
<1>1. CASE HostByte \/ DtrClose \/ DtrOpen \/
               (\E f \in Formats : ArmSoftPending(f)) \/ RejectLineCoding \/
               BusReset \/ MountCb \/ UmountCb \/ CloseStop \/ ResetStop \/
               ResetQuiesce \/ ResetHost \/ LeaveTask \/ PollStopPending \/
               PollClosed \/ PollOpen \/ QuiesceBusy \/ QuiesceClear \/
               StageInitial \/ RequestStart \/ PortIsReady \/ ApplyLive \/
               Admit \/ TxBlockedCheck \/ FillTx \/ DrainRx \/ WireDrains \/
               SoftDeadlinePasses
  BY <1>1 DEF HostByte, DtrClose, DtrOpen, ArmSoftPending, RejectLineCoding,
    BusReset, MountCb, UmountCb, CloseStop, ResetStop, ResetQuiesce,
    ResetHost, LeaveTask, PollStopPending, PollClosed, PollOpen, QuiesceBusy,
    QuiesceClear, StageInitial, RequestStart, PortIsReady, ApplyLive, Admit,
    TxBlockedCheck, FillTx, DrainRx, WireDrains, SoftDeadlinePasses
<1>2. CASE LifecycleCheck
  BY <1>2 DEF LifecycleCheck
<1>3. CASE Deinit
  BY <1>3 DEF Deinit
<1>4. CASE CompleteStop
  BY <1>4 DEF CompleteStop
<1>5. CASE AcceptStart
  BY <1>5 DEF AcceptStart
<1>6. CASE StartTake
  BY <1>6 DEF StartTake
<1>7. CASE Restart
  BY <1>7 DEF Restart
<1>8. CASE StartFinish
  BY <1>8 DEF StartFinish, FinishWorkerControl
<1>9. CASE PublishStart
  BY <1>9 DEF PublishStart
<1>10. CASE TakeMailbox
  BY <1>10 DEF TakeMailbox
<1>11. CASE NothingToTake
  BY <1>11 DEF NothingToTake
<1>12. CASE MatchInfo
  BY <1>12 DEF MatchInfo
<1>13. CASE FinishMailboxControl
  BY <1>13 DEF FinishMailboxControl
<1>14. CASE DeferApply
  BY <1>14 DEF DeferApply
<1>15. CASE CheckPending
  BY <1>15 DEF CheckPending
<1>16. CASE ServiceTimeout
  BY <1>16 DEF ServiceTimeout, FinishWorkerControl
<1>17. CASE ServiceWait
  BY <1>17 DEF ServiceWait
<1>18. CASE ServiceApply
  BY <1>18 DEF ServiceApply
<1>19. CASE Applied
  BY <1>19 DEF Applied
<1>20. CASE ApplyDeferred
  BY <1>20 DEF ApplyDeferred
<1>21. CASE ApplyTimedOut
  BY <1>21 DEF ApplyTimedOut, FinishWorkerControl
<1>22. CASE ApplyKillsBackend
  BY <1>22 DEF ApplyKillsBackend
<1>23. CASE FinishApplied
  BY <1>23 DEF FinishApplied, FinishWorkerControl
<1>24. CASE MarkDead
  BY <1>24 DEF MarkDead
<1>25. CASE FinishDead
  BY <1>25 DEF FinishDead, FinishWorkerControl
<1>26. CASE SkipIo
  BY <1>26 DEF SkipIo
<1>27. CASE PollIo
  BY <1>27 DEF PollIo
<1>28. CASE ApplyDeadlinePasses
  BY <1>28 DEF ApplyDeadlinePasses
<1>29. CASE UNCHANGED vars
  BY <1>29 DEF vars
<1>30. QED BY <1>1, <1>2, <1>3, <1>4, <1>5, <1>6, <1>7, <1>8, <1>9, <1>10,
    <1>11, <1>12, <1>13, <1>14, <1>15, <1>16, <1>17, <1>18, <1>19, <1>20,
    <1>21, <1>22, <1>23, <1>24, <1>25, <1>26, <1>27, <1>28, <1>29
    DEF Next, Host, UsbCore, Worker, Time

(* The backend: the wire never runs ahead of the consumer, nor the consumer
   with its DMA transfer ahead of the producer. *)
LEMMA BackendTypeStep ==
  ASSUME UsbTypeOK, OutTypeOK, WorkerTypeOK, BackendTypeOK, RingOrder,
         [Next]_vars
  PROVE  BackendTypeOK' /\ RingOrder'
<1> USE PortAssumption
    DEF OutTypeOK, UsbTypeOK, WorkerTypeOK, BackendTypeOK, RingOrder, usbVars,
        lockVars, wrkVars, beVars, history, vars
<1>1. CASE HostByte \/ DtrClose \/ DtrOpen \/
               (\E f \in Formats : ArmSoftPending(f)) \/ RejectLineCoding \/
               BusReset \/ MountCb \/ UmountCb \/ CloseStop \/ ResetStop \/
               ResetQuiesce \/ ResetHost \/ LeaveTask \/ PollStopPending \/
               PollClosed \/ PollOpen \/ QuiesceBusy \/ QuiesceClear \/
               StageInitial \/ RequestStart \/ PortIsReady \/ ApplyLive \/
               Admit \/ TxBlockedCheck \/ DrainRx \/ LifecycleCheck \/
               CompleteStop \/ AcceptStart \/ StartTake \/ StartFinish \/
               PublishStart \/ TakeMailbox \/ NothingToTake \/ MatchInfo \/
               FinishMailboxControl \/ DeferApply \/ CheckPending \/
               ServiceTimeout \/ ServiceWait \/ ServiceApply \/
               ApplyDeferred \/ ApplyTimedOut \/ FinishApplied \/ MarkDead \/
               FinishDead \/ SkipIo \/ SoftDeadlinePasses \/
               ApplyDeadlinePasses
  BY <1>1 DEF HostByte, DtrClose, DtrOpen, ArmSoftPending, RejectLineCoding,
    BusReset, MountCb, UmountCb, CloseStop, ResetStop, ResetQuiesce,
    ResetHost, LeaveTask, PollStopPending, PollClosed, PollOpen, QuiesceBusy,
    QuiesceClear, StageInitial, RequestStart, PortIsReady, ApplyLive, Admit,
    TxBlockedCheck, DrainRx, LifecycleCheck, CompleteStop, AcceptStart,
    StartTake, StartFinish, PublishStart, TakeMailbox, NothingToTake,
    MatchInfo, FinishMailboxControl, DeferApply, CheckPending, ServiceTimeout,
    ServiceWait, ServiceApply, ApplyDeferred, ApplyTimedOut, FinishApplied,
    MarkDead, FinishDead, SkipIo, SoftDeadlinePasses, ApplyDeadlinePasses
<1>2. CASE FillTx
  BY <1>2 DEF FillTx
<1>3. CASE Deinit
  <2>1. up' \in BOOLEAN /\ fmt' = fmt BY <1>3 DEF Deinit
  <2>2. prod' \in Nat /\ cons' \in Nat /\ wire' \in Nat /\ inflight' \in Nat
    BY <1>3 DEF Deinit
  <2>3. wire' <= cons' /\ cons' + inflight' <= prod' BY <1>3 DEF Deinit
  <2>4. QED BY <2>1, <2>2, <2>3
<1>4. CASE Restart
  BY <1>4 DEF Restart
<1>5. CASE Applied
  BY <1>5 DEF Applied
<1>6. CASE ApplyKillsBackend
  BY <1>6 DEF ApplyKillsBackend
<1>7. CASE PollIo
  BY <1>7 DEF PollIo
<1>8. CASE WireDrains
  BY <1>8 DEF WireDrains
<1>9. CASE UNCHANGED vars
  BY <1>9 DEF vars
<1>10. QED BY <1>1, <1>2, <1>3, <1>4, <1>5, <1>6, <1>7, <1>8, <1>9
    DEF Next, Host, UsbCore, Worker, Time

(* What the newest generation asked for. *)
LEMMA HistoryTypeStep ==
  ASSUME TypeOK, [Next]_vars
  PROVE  rejected' \in BOOLEAN /\ want' \in Formats \cup {NoFormat}
<1> USE DEF TypeOK, usbVars, lockVars, wrkVars, beVars, history, vars
<1>1. CASE HostByte \/ DtrOpen \/ BusReset \/ MountCb \/ UmountCb \/
               ResetQuiesce \/ LeaveTask \/ PollStopPending \/ PollClosed \/
               PollOpen \/ QuiesceBusy \/ QuiesceClear \/ StageInitial \/
               RequestStart \/ PortIsReady \/ ApplyLive \/ Admit \/
               TxBlockedCheck \/ FillTx \/ DrainRx \/ LifecycleCheck \/
               Deinit \/ CompleteStop \/ AcceptStart \/ StartTake \/
               Restart \/ StartFinish \/ PublishStart \/ TakeMailbox \/
               NothingToTake \/ MatchInfo \/ FinishMailboxControl \/
               DeferApply \/ CheckPending \/ ServiceTimeout \/ ServiceWait \/
               ServiceApply \/ Applied \/ ApplyDeferred \/ ApplyTimedOut \/
               ApplyKillsBackend \/ FinishApplied \/ MarkDead \/ FinishDead \/
               SkipIo \/ PollIo \/ WireDrains \/ SoftDeadlinePasses \/
               ApplyDeadlinePasses
  <2>1. UNCHANGED history
    BY <1>1 DEF HostByte, DtrOpen, BusReset,
      MountCb, UmountCb, ResetQuiesce, LeaveTask, PollStopPending, PollClosed,
      PollOpen, QuiesceBusy, QuiesceClear, StageInitial, RequestStart,
      PortIsReady, ApplyLive, Admit, TxBlockedCheck, FillTx, DrainRx,
      LifecycleCheck, Deinit, CompleteStop, AcceptStart, StartTake, Restart,
      StartFinish, PublishStart, TakeMailbox, NothingToTake, MatchInfo,
      FinishMailboxControl, DeferApply, CheckPending, ServiceTimeout,
      ServiceWait, ServiceApply, Applied, ApplyDeferred, ApplyTimedOut,
      ApplyKillsBackend, FinishApplied, MarkDead, FinishDead, SkipIo, PollIo,
      WireDrains, SoftDeadlinePasses, ApplyDeadlinePasses,
      FinishWorkerControl, history
  <2>2. QED BY <2>1 DEF history
<1>2. CASE DtrClose
  BY <1>2 DEF DtrClose
<1>3. CASE (\E f \in Formats : ArmSoftPending(f))
  BY <1>3 DEF ArmSoftPending
<1>4. CASE RejectLineCoding
  BY <1>4 DEF RejectLineCoding
<1>5. CASE CloseStop
  BY <1>5 DEF CloseStop, RequestStop
<1>6. CASE ResetStop
  BY <1>6 DEF ResetStop, RequestStop
<1>7. CASE ResetHost
  BY <1>7 DEF ResetHost
<1>8. CASE UNCHANGED vars
  BY <1>8 DEF vars
<1>9. QED BY <1>1, <1>2, <1>3, <1>4, <1>5, <1>6, <1>7, <1>8
    DEF Next, Host, UsbCore, Worker, Time

(* The state uart_driver_init leaves behind is well typed. *)
LEMMA TypeInit == Init => TypeOK
<1> SUFFICES ASSUME Init PROVE TypeOK
  OBVIOUS
<1>1. UsbTypeOK
  BY PortAssumption DEF Init, UsbTypeOK, UsbPcs, Deadlines
<1>2. OutTypeOK
  BY DEF Init, OutTypeOK
<1>3. LockTypeOK
  BY PortAssumption DEF Init, LockTypeOK, Flags, NoMail
<1>4. WorkerTypeOK
  BY PortAssumption DEF Init, WorkerTypeOK, WrkPcs, Deadlines, Idle, NoPend
<1>5. BackendTypeOK
  BY PortAssumption DEF Init, BackendTypeOK
<1>6. RingOrder
  BY DEF Init, RingOrder
<1>7. QED BY <1>1, <1>2, <1>3, <1>4, <1>5, <1>6 DEF Init, TypeOK

(* Every reachable state of a port is well typed and its TX sequences are in
   order: wire <= cons and cons + inflight <= prod (bridge, DMA, deinit). *)
THEOREM TypeCorrect == Spec => []TypeOK
<1>1. TypeOK /\ [Next]_vars => TypeOK'
  BY UsbTypeStep, OutTypeStep, LockTypeStep, WorkerTypeStep, BackendTypeStep,
     HistoryTypeStep DEF TypeOK
<1>2. QED BY TypeInit, <1>1, PTL DEF Spec
-----------------------------------------------------------------------------
(* No handoff between staged, mailbox and worker ownership, and no completion,
   drops CONTROL_PENDING while the request still has an owner. *)
LEMMA OwnersStep ==
  ASSUME UsbTypeOK, LockTypeOK, WorkerTypeOK, PendingCoversOwners, [Next]_vars
  PROVE  PendingCoversOwners'
<1> USE DEF UsbTypeOK, LockTypeOK, WorkerTypeOK, PendingCoversOwners, READY,
        INIT_FAILED, CONTROL_PENDING, CONTROL_ERROR, ReleasePending,
        CompletionError, NoOwner, NoMail, NoPend, Idle, StopPending,
        StopQuiesced, usbVars, lockVars, wrkVars, beVars, history, vars
<1>1. CASE HostByte \/ DtrOpen \/ BusReset \/ MountCb \/ UmountCb \/
               ResetQuiesce \/ LeaveTask \/ PollStopPending \/ PollClosed \/
               PollOpen \/ QuiesceBusy \/ QuiesceClear \/ RequestStart \/
               PortIsReady \/ Admit \/ TxBlockedCheck \/ FillTx \/ DrainRx \/
               LifecycleCheck \/ Deinit \/ AcceptStart \/ Restart \/
               NothingToTake \/ MatchInfo \/ CheckPending \/ ServiceWait \/
               ServiceApply \/ Applied \/ ApplyDeferred \/
               ApplyKillsBackend \/ SkipIo \/ PollIo \/ WireDrains \/
               SoftDeadlinePasses
  BY <1>1 DEF HostByte, DtrOpen, BusReset, MountCb, UmountCb, ResetQuiesce,
    LeaveTask, PollStopPending, PollClosed, PollOpen, QuiesceBusy,
    QuiesceClear, RequestStart, PortIsReady, Admit, TxBlockedCheck, FillTx,
    DrainRx, LifecycleCheck, Deinit, AcceptStart, Restart, NothingToTake,
    MatchInfo, CheckPending, ServiceWait, ServiceApply, Applied,
    ApplyDeferred, ApplyKillsBackend, SkipIo, PollIo, WireDrains,
    SoftDeadlinePasses
<1>2. CASE DtrClose
  BY <1>2 DEF DtrClose, CancelRequest, ResetSoftPending
<1>3. CASE (\E f \in Formats : ArmSoftPending(f))
  BY <1>3 DEF ArmSoftPending
<1>4. CASE RejectLineCoding
  BY <1>4 DEF RejectLineCoding
<1>5. CASE CloseStop
  BY <1>5 DEF CloseStop, RequestStop
<1>6. CASE ResetStop
  BY <1>6 DEF ResetStop, RequestStop
<1>7. CASE ResetHost
  BY <1>7 DEF ResetHost, CancelRequest, ResetSoftPending
<1>8. CASE StageInitial
  BY <1>8 DEF StageInitial, ApplyPending, NothingStaged, SoftExpired,
    QueueLineCoding, MailboxBusy
<1>9. CASE ApplyLive
  BY <1>9 DEF ApplyLive, ApplyPending, NothingStaged, SoftExpired,
    QueueLineCoding, MailboxBusy
<1>10. CASE CompleteStop
  BY <1>10 DEF CompleteStop
<1>11. CASE StartTake
  BY <1>11 DEF StartTake
<1>12. CASE StartFinish
  BY <1>12 DEF StartFinish, FinishWorkerControl
<1>13. CASE PublishStart
  BY <1>13 DEF PublishStart
<1>14. CASE TakeMailbox
  BY <1>14 DEF TakeMailbox
<1>15. CASE FinishMailboxControl
  BY <1>15 DEF FinishMailboxControl
<1>16. CASE DeferApply
  BY <1>16 DEF DeferApply
<1>17. CASE ServiceTimeout
  BY <1>17 DEF ServiceTimeout, FinishWorkerControl
<1>18. CASE ApplyTimedOut
  BY <1>18 DEF ApplyTimedOut, FinishWorkerControl
<1>19. CASE FinishApplied
  BY <1>19 DEF FinishApplied, FinishWorkerControl
<1>20. CASE MarkDead
  BY <1>20 DEF MarkDead
<1>21. CASE FinishDead
  BY <1>21 DEF FinishDead, FinishWorkerControl
<1>22. CASE ApplyDeadlinePasses
  BY <1>22 DEF ApplyDeadlinePasses
<1>23. CASE UNCHANGED vars
  BY <1>23 DEF vars
<1>24. QED BY <1>1, <1>2, <1>3, <1>4, <1>5, <1>6, <1>7, <1>8, <1>9, <1>10,
    <1>11, <1>12, <1>13, <1>14, <1>15, <1>16, <1>17, <1>18, <1>19, <1>20,
    <1>21, <1>22, <1>23
    DEF Next, Host, UsbCore, Worker, Time

(* Whoever gives up the last ownership also clears CONTROL_PENDING. *)
LEMMA ReasonStep ==
  ASSUME TypeOK, PendingHasReason, WorkerInv, BoundaryInv, [Next]_vars
  PROVE  PendingHasReason'
<1> USE DEF TypeOK, LockTypeOK, WorkerTypeOK, PendingHasReason, BoundaryInv,
        UsbCoreInv, WorkerInv, Starting, Bridging, Inactive, Applying, READY,
        INIT_FAILED, CONTROL_PENDING, CONTROL_ERROR, ReleasePending,
        CompletionError, NoOwner, NoMail, NoPend, Idle, StopPending,
        StopQuiesced, usbVars, lockVars, wrkVars, beVars, history, vars
<1>1. CASE HostByte \/ WireDrains
  BY <1>1 DEF HostByte, WireDrains
<1>2. CASE DtrClose
  BY <1>2 DEF DtrClose, CancelRequest, ResetSoftPending
<1>3. CASE DtrOpen
  BY <1>3 DEF DtrOpen
<1>4. CASE (\E f \in Formats : ArmSoftPending(f))
  BY <1>4 DEF ArmSoftPending
<1>5. CASE RejectLineCoding
  BY <1>5 DEF RejectLineCoding
<1>6. CASE BusReset
  BY <1>6 DEF BusReset
<1>7. CASE MountCb
  BY <1>7 DEF MountCb
<1>8. CASE UmountCb
  BY <1>8 DEF UmountCb
<1>9. CASE CloseStop
  BY <1>9 DEF CloseStop, RequestStop
<1>10. CASE ResetStop
  BY <1>10 DEF ResetStop, RequestStop
<1>11. CASE ResetQuiesce
  BY <1>11 DEF ResetQuiesce
<1>12. CASE ResetHost
  BY <1>12 DEF ResetHost, CancelRequest, ResetSoftPending
<1>13. CASE LeaveTask
  BY <1>13 DEF LeaveTask
<1>14. CASE PollStopPending
  BY <1>14 DEF PollStopPending
<1>15. CASE PollClosed
  BY <1>15 DEF PollClosed
<1>16. CASE PollOpen
  BY <1>16 DEF PollOpen
<1>17. CASE QuiesceBusy
  BY <1>17 DEF QuiesceBusy, FlushOutOnce
<1>18. CASE QuiesceClear
  BY <1>18 DEF QuiesceClear, FlushOutOnce
<1>19. CASE StageInitial
  BY <1>19 DEF StageInitial, ApplyPending, NothingStaged, SoftExpired,
    QueueLineCoding, MailboxBusy
<1>20. CASE RequestStart
  BY <1>20 DEF RequestStart
<1>21. CASE PortIsReady
  BY <1>21 DEF PortIsReady
<1>22. CASE ApplyLive
  BY <1>22 DEF ApplyLive, ApplyPending, NothingStaged, SoftExpired,
    QueueLineCoding, MailboxBusy
<1>23. CASE Admit
  BY <1>23 DEF Admit
<1>24. CASE TxBlockedCheck
  BY <1>24 DEF TxBlockedCheck
<1>25. CASE FillTx
  BY <1>25 DEF FillTx
<1>26. CASE DrainRx
  BY <1>26 DEF DrainRx
<1>27. CASE LifecycleCheck
  BY <1>27 DEF LifecycleCheck
<1>28. CASE Deinit
  BY <1>28 DEF Deinit
<1>29. CASE CompleteStop
  BY <1>29 DEF CompleteStop
<1>30. CASE AcceptStart
  BY <1>30 DEF AcceptStart
<1>31. CASE StartTake
  BY <1>31 DEF StartTake
<1>32. CASE Restart
  BY <1>32 DEF Restart
<1>33. CASE StartFinish
  BY <1>33 DEF StartFinish, FinishWorkerControl
<1>34. CASE PublishStart
  BY <1>34 DEF PublishStart
<1>35. CASE TakeMailbox
  BY <1>35 DEF TakeMailbox
<1>36. CASE NothingToTake
  BY <1>36 DEF NothingToTake
<1>37. CASE MatchInfo
  BY <1>37 DEF MatchInfo
<1>38. CASE FinishMailboxControl
  BY <1>38 DEF FinishMailboxControl
<1>39. CASE DeferApply
  BY <1>39 DEF DeferApply
<1>40. CASE CheckPending
  BY <1>40 DEF CheckPending
<1>41. CASE ServiceTimeout
  BY <1>41 DEF ServiceTimeout, FinishWorkerControl
<1>42. CASE ServiceWait
  BY <1>42 DEF ServiceWait
<1>43. CASE ServiceApply
  BY <1>43 DEF ServiceApply
<1>44. CASE Applied
  BY <1>44 DEF Applied
<1>45. CASE ApplyDeferred
  BY <1>45 DEF ApplyDeferred
<1>46. CASE ApplyTimedOut
  BY <1>46 DEF ApplyTimedOut, FinishWorkerControl
<1>47. CASE ApplyKillsBackend
  BY <1>47 DEF ApplyKillsBackend
<1>48. CASE FinishApplied
  BY <1>48 DEF FinishApplied, FinishWorkerControl
<1>49. CASE MarkDead
  BY <1>49 DEF MarkDead
<1>50. CASE FinishDead
  BY <1>50 DEF FinishDead, FinishWorkerControl
<1>51. CASE SkipIo
  BY <1>51 DEF SkipIo
<1>52. CASE PollIo
  BY <1>52 DEF PollIo
<1>53. CASE SoftDeadlinePasses
  BY <1>53 DEF SoftDeadlinePasses
<1>54. CASE ApplyDeadlinePasses
  BY <1>54 DEF ApplyDeadlinePasses
<1>55. CASE UNCHANGED vars
  BY <1>55 DEF vars
<1>56. QED BY <1>1, <1>2, <1>3, <1>4, <1>5, <1>6, <1>7, <1>8, <1>9, <1>10,
    <1>11, <1>12, <1>13, <1>14, <1>15, <1>16, <1>17, <1>18, <1>19, <1>20,
    <1>21, <1>22, <1>23, <1>24, <1>25, <1>26, <1>27, <1>28, <1>29, <1>30,
    <1>31, <1>32, <1>33, <1>34, <1>35, <1>36, <1>37, <1>38, <1>39, <1>40,
    <1>41, <1>42, <1>43, <1>44, <1>45, <1>46, <1>47, <1>48, <1>49, <1>50,
    <1>51, <1>52, <1>53, <1>54, <1>55
    DEF Next, Host, UsbCore, Worker, Time

(* Where core 0 may stand: it bridges only while no stop is pending and no
   start is under way, and it fills the TX ring only while no request is held. *)
LEMMA UsbCoreStep ==
  ASSUME TypeOK, PendingCoversOwners, UsbCoreInv, WorkerInv, BoundaryInv,
         [Next]_vars
  PROVE  UsbCoreInv'
<1> USE DEF PendingCoversOwners, BoundaryInv, UsbCoreInv, WorkerInv, Starting,
        Bridging, Inactive, Applying, READY, INIT_FAILED, CONTROL_PENDING,
        CONTROL_ERROR, ReleasePending, CompletionError, NoOwner, NoMail,
        NoPend, Idle, StopPending, StopQuiesced, usbVars, lockVars, wrkVars,
        beVars, history, vars
<1>1. CASE HostByte \/ WireDrains
  BY <1>1 DEF HostByte, WireDrains
<1>2. CASE DtrClose
  BY <1>2 DEF DtrClose, CancelRequest, ResetSoftPending
<1>3. CASE DtrOpen
  BY <1>3 DEF DtrOpen
<1>4. CASE (\E f \in Formats : ArmSoftPending(f))
  BY <1>4 DEF ArmSoftPending
<1>5. CASE RejectLineCoding
  BY <1>5 DEF RejectLineCoding
<1>6. CASE BusReset
  BY <1>6 DEF BusReset
<1>7. CASE MountCb
  BY <1>7 DEF MountCb
<1>8. CASE UmountCb
  BY <1>8 DEF UmountCb
<1>9. CASE CloseStop
  BY <1>9 DEF CloseStop, RequestStop
<1>10. CASE ResetStop
  BY <1>10 DEF ResetStop, RequestStop
<1>11. CASE ResetQuiesce
  BY <1>11 DEF ResetQuiesce
<1>12. CASE ResetHost
  BY <1>12 DEF ResetHost, CancelRequest, ResetSoftPending
<1>13. CASE LeaveTask
  BY <1>13 DEF LeaveTask
<1>14. CASE PollStopPending
  BY <1>14 DEF PollStopPending
<1>15. CASE PollClosed
  BY <1>15 DEF PollClosed
<1>16. CASE PollOpen
  BY <1>16 DEF PollOpen
<1>17. CASE QuiesceBusy
  BY <1>17 DEF QuiesceBusy, FlushOutOnce
<1>18. CASE QuiesceClear
  BY <1>18 DEF QuiesceClear, FlushOutOnce
<1>19. CASE StageInitial
  BY <1>19 DEF StageInitial, ApplyPending, NothingStaged, SoftExpired,
    QueueLineCoding, MailboxBusy
<1>20. CASE RequestStart
  BY <1>20 DEF RequestStart
<1>21. CASE PortIsReady
  BY <1>21 DEF PortIsReady
<1>22. CASE ApplyLive
  BY <1>22 DEF ApplyLive, ApplyPending, NothingStaged, SoftExpired,
    QueueLineCoding, MailboxBusy
<1>23. CASE Admit
  BY <1>23 DEF Admit
<1>24. CASE TxBlockedCheck
  BY <1>24 DEF TxBlockedCheck
<1>25. CASE FillTx
  BY <1>25 DEF FillTx
<1>26. CASE DrainRx
  BY <1>26 DEF DrainRx
<1>27. CASE LifecycleCheck
  BY <1>27 DEF LifecycleCheck
<1>28. CASE Deinit
  BY <1>28 DEF Deinit
<1>29. CASE CompleteStop
  BY <1>29 DEF CompleteStop
<1>30. CASE AcceptStart
  BY <1>30 DEF AcceptStart
<1>31. CASE StartTake
  BY <1>31 DEF StartTake
<1>32. CASE Restart
  BY <1>32 DEF Restart
<1>33. CASE StartFinish
  BY <1>33 DEF StartFinish, FinishWorkerControl
<1>34. CASE PublishStart
  BY <1>34 DEF PublishStart
<1>35. CASE TakeMailbox
  BY <1>35 DEF TakeMailbox
<1>36. CASE NothingToTake
  BY <1>36 DEF NothingToTake
<1>37. CASE MatchInfo
  BY <1>37 DEF MatchInfo
<1>38. CASE FinishMailboxControl
  BY <1>38 DEF FinishMailboxControl
<1>39. CASE DeferApply
  BY <1>39 DEF DeferApply
<1>40. CASE CheckPending
  BY <1>40 DEF CheckPending
<1>41. CASE ServiceTimeout
  BY <1>41 DEF ServiceTimeout, FinishWorkerControl
<1>42. CASE ServiceWait
  BY <1>42 DEF ServiceWait
<1>43. CASE ServiceApply
  BY <1>43 DEF ServiceApply
<1>44. CASE Applied
  BY <1>44 DEF Applied
<1>45. CASE ApplyDeferred
  BY <1>45 DEF ApplyDeferred
<1>46. CASE ApplyTimedOut
  BY <1>46 DEF ApplyTimedOut, FinishWorkerControl
<1>47. CASE ApplyKillsBackend
  BY <1>47 DEF ApplyKillsBackend
<1>48. CASE FinishApplied
  BY <1>48 DEF FinishApplied, FinishWorkerControl
<1>49. CASE MarkDead
  BY <1>49 DEF MarkDead
<1>50. CASE FinishDead
  BY <1>50 DEF FinishDead, FinishWorkerControl
<1>51. CASE SkipIo
  BY <1>51 DEF SkipIo
<1>52. CASE PollIo
  BY <1>52 DEF PollIo
<1>53. CASE SoftDeadlinePasses
  BY <1>53 DEF SoftDeadlinePasses
<1>54. CASE ApplyDeadlinePasses
  BY <1>54 DEF ApplyDeadlinePasses
<1>55. CASE UNCHANGED vars
  BY <1>55 DEF vars
<1>56. QED BY <1>1, <1>2, <1>3, <1>4, <1>5, <1>6, <1>7, <1>8, <1>9, <1>10,
    <1>11, <1>12, <1>13, <1>14, <1>15, <1>16, <1>17, <1>18, <1>19, <1>20,
    <1>21, <1>22, <1>23, <1>24, <1>25, <1>26, <1>27, <1>28, <1>29, <1>30,
    <1>31, <1>32, <1>33, <1>34, <1>35, <1>36, <1>37, <1>38, <1>39, <1>40,
    <1>41, <1>42, <1>43, <1>44, <1>45, <1>46, <1>47, <1>48, <1>49, <1>50,
    <1>51, <1>52, <1>53, <1>54, <1>55
    DEF Next, Host, UsbCore, Worker, Time

(* What the worker may rely on between two lock holds. *)
LEMMA WorkerStep ==
  ASSUME TypeOK, UsbCoreInv, WorkerInv, FormatInv, BoundaryInv, [Next]_vars
  PROVE  WorkerInv'
<1> USE DEF TypeOK, WorkerTypeOK, BackendTypeOK, BoundaryInv, UsbCoreInv, WorkerInv,
        Starting, Bridging, Inactive, Applying, READY, INIT_FAILED,
        CONTROL_PENDING, CONTROL_ERROR, ReleasePending, CompletionError,
        NoOwner, NoMail, NoPend, Idle, StopPending, StopQuiesced, usbVars,
        lockVars, wrkVars, beVars, history, vars
<1>1. CASE HostByte \/ WireDrains
  BY <1>1 DEF HostByte, WireDrains
<1>2. CASE DtrClose
  BY <1>2 DEF DtrClose, CancelRequest, ResetSoftPending
<1>3. CASE DtrOpen
  BY <1>3 DEF DtrOpen
<1>4. CASE (\E f \in Formats : ArmSoftPending(f))
  BY <1>4 DEF ArmSoftPending
<1>5. CASE RejectLineCoding
  BY <1>5 DEF RejectLineCoding
<1>6. CASE BusReset
  BY <1>6 DEF BusReset
<1>7. CASE MountCb
  BY <1>7 DEF MountCb
<1>8. CASE UmountCb
  BY <1>8 DEF UmountCb
<1>9. CASE CloseStop
  BY <1>9 DEF CloseStop, RequestStop
<1>10. CASE ResetStop
  BY <1>10 DEF ResetStop, RequestStop
<1>11. CASE ResetQuiesce
  BY <1>11 DEF ResetQuiesce
<1>12. CASE ResetHost
  BY <1>12 DEF ResetHost, CancelRequest, ResetSoftPending
<1>13. CASE LeaveTask
  BY <1>13 DEF LeaveTask
<1>14. CASE PollStopPending
  BY <1>14 DEF PollStopPending
<1>15. CASE PollClosed
  BY <1>15 DEF PollClosed
<1>16. CASE PollOpen
  BY <1>16 DEF PollOpen
<1>17. CASE QuiesceBusy
  BY <1>17 DEF QuiesceBusy, FlushOutOnce
<1>18. CASE QuiesceClear
  BY <1>18 DEF QuiesceClear, FlushOutOnce
<1>19. CASE StageInitial
  BY <1>19 DEF StageInitial, ApplyPending, NothingStaged, SoftExpired,
    QueueLineCoding, MailboxBusy
<1>20. CASE RequestStart
  BY <1>20 DEF RequestStart
<1>21. CASE PortIsReady
  BY <1>21 DEF PortIsReady
<1>22. CASE ApplyLive
  BY <1>22 DEF ApplyLive, ApplyPending, NothingStaged, SoftExpired,
    QueueLineCoding, MailboxBusy
<1>23. CASE Admit
  BY <1>23 DEF Admit
<1>24. CASE TxBlockedCheck
  BY <1>24 DEF TxBlockedCheck
<1>25. CASE FillTx
  BY <1>25 DEF FillTx
<1>26. CASE DrainRx
  BY <1>26 DEF DrainRx
<1>27. CASE LifecycleCheck
  BY <1>27 DEF LifecycleCheck
<1>28. CASE Deinit
  BY <1>28 DEF Deinit
<1>29. CASE CompleteStop
  BY <1>29 DEF CompleteStop
<1>30. CASE AcceptStart
  BY <1>30 DEF AcceptStart
<1>31. CASE StartTake
  BY <1>31 DEF StartTake
<1>32. CASE Restart
  BY <1>32 DEF Restart
<1>33. CASE StartFinish
  BY <1>33 DEF StartFinish, FinishWorkerControl
<1>34. CASE PublishStart
  BY <1>34 DEF PublishStart
<1>35. CASE TakeMailbox
  BY <1>35 DEF TakeMailbox
<1>36. CASE NothingToTake
  BY <1>36 DEF NothingToTake
<1>37. CASE MatchInfo
  BY <1>37 DEF MatchInfo
<1>38. CASE FinishMailboxControl
  BY <1>38 DEF FinishMailboxControl
<1>39. CASE DeferApply
  BY <1>39 DEF DeferApply
<1>40. CASE CheckPending
  BY <1>40 DEF CheckPending
<1>41. CASE ServiceTimeout
  BY <1>41 DEF ServiceTimeout, FinishWorkerControl
<1>42. CASE ServiceWait
  BY <1>42 DEF ServiceWait
<1>43. CASE ServiceApply
  BY <1>43 DEF ServiceApply
<1>44. CASE Applied
  BY <1>44 DEF Applied
<1>45. CASE ApplyDeferred
  BY <1>45 DEF ApplyDeferred
<1>46. CASE ApplyTimedOut
  BY <1>46 DEF ApplyTimedOut, FinishWorkerControl
<1>47. CASE ApplyKillsBackend
  BY <1>47 DEF ApplyKillsBackend
<1>48. CASE FinishApplied
  BY <1>48 DEF FinishApplied, FinishWorkerControl
<1>49. CASE MarkDead
  BY <1>49 DEF MarkDead
<1>50. CASE FinishDead
  BY <1>50 DEF FinishDead, FinishWorkerControl
<1>51. CASE SkipIo
  BY <1>51 DEF SkipIo
<1>52. CASE PollIo
  BY <1>52 DEF PollIo
<1>53. CASE SoftDeadlinePasses
  BY <1>53 DEF SoftDeadlinePasses
<1>54. CASE ApplyDeadlinePasses
  BY <1>54 DEF ApplyDeadlinePasses
<1>55. CASE UNCHANGED vars
  BY <1>55 DEF vars
<1>56. QED BY <1>1, <1>2, <1>3, <1>4, <1>5, <1>6, <1>7, <1>8, <1>9, <1>10,
    <1>11, <1>12, <1>13, <1>14, <1>15, <1>16, <1>17, <1>18, <1>19, <1>20,
    <1>21, <1>22, <1>23, <1>24, <1>25, <1>26, <1>27, <1>28, <1>29, <1>30,
    <1>31, <1>32, <1>33, <1>34, <1>35, <1>36, <1>37, <1>38, <1>39, <1>40,
    <1>41, <1>42, <1>43, <1>44, <1>45, <1>46, <1>47, <1>48, <1>49, <1>50,
    <1>51, <1>52, <1>53, <1>54, <1>55
    DEF Next, Host, UsbCore, Worker, Time

(* The published format follows the format of the hardware. *)
LEMMA FormatStep ==
  ASSUME TypeOK, WorkerInv, FormatInv, BoundaryInv, [Next]_vars
  PROVE  FormatInv'
<1> USE DEF TypeOK, WorkerTypeOK, BackendTypeOK, LineCodingMatches, FormatInv,
        BoundaryInv, UsbCoreInv, WorkerInv, Starting, Bridging, Inactive,
        Applying, READY, INIT_FAILED, CONTROL_PENDING, CONTROL_ERROR,
        ReleasePending, CompletionError, NoOwner, NoMail, NoPend, Idle,
        StopPending, StopQuiesced, usbVars, lockVars, wrkVars, beVars,
        history, vars
<1>1. CASE HostByte \/ WireDrains
  BY <1>1 DEF HostByte, WireDrains
<1>2. CASE DtrClose
  BY <1>2 DEF DtrClose, CancelRequest, ResetSoftPending
<1>3. CASE DtrOpen
  BY <1>3 DEF DtrOpen
<1>4. CASE (\E f \in Formats : ArmSoftPending(f))
  BY <1>4 DEF ArmSoftPending
<1>5. CASE RejectLineCoding
  BY <1>5 DEF RejectLineCoding
<1>6. CASE BusReset
  BY <1>6 DEF BusReset
<1>7. CASE MountCb
  BY <1>7 DEF MountCb
<1>8. CASE UmountCb
  BY <1>8 DEF UmountCb
<1>9. CASE CloseStop
  BY <1>9 DEF CloseStop, RequestStop
<1>10. CASE ResetStop
  BY <1>10 DEF ResetStop, RequestStop
<1>11. CASE ResetQuiesce
  BY <1>11 DEF ResetQuiesce
<1>12. CASE ResetHost
  BY <1>12 DEF ResetHost, CancelRequest, ResetSoftPending
<1>13. CASE LeaveTask
  BY <1>13 DEF LeaveTask
<1>14. CASE PollStopPending
  BY <1>14 DEF PollStopPending
<1>15. CASE PollClosed
  BY <1>15 DEF PollClosed
<1>16. CASE PollOpen
  BY <1>16 DEF PollOpen
<1>17. CASE QuiesceBusy
  BY <1>17 DEF QuiesceBusy, FlushOutOnce
<1>18. CASE QuiesceClear
  BY <1>18 DEF QuiesceClear, FlushOutOnce
<1>19. CASE StageInitial
  BY <1>19 DEF StageInitial, ApplyPending, NothingStaged, SoftExpired,
    QueueLineCoding, MailboxBusy
<1>20. CASE RequestStart
  BY <1>20 DEF RequestStart
<1>21. CASE PortIsReady
  BY <1>21 DEF PortIsReady
<1>22. CASE ApplyLive
  BY <1>22 DEF ApplyLive, ApplyPending, NothingStaged, SoftExpired,
    QueueLineCoding, MailboxBusy
<1>23. CASE Admit
  BY <1>23 DEF Admit
<1>24. CASE TxBlockedCheck
  BY <1>24 DEF TxBlockedCheck
<1>25. CASE FillTx
  BY <1>25 DEF FillTx
<1>26. CASE DrainRx
  BY <1>26 DEF DrainRx
<1>27. CASE LifecycleCheck
  BY <1>27 DEF LifecycleCheck
<1>28. CASE Deinit
  BY <1>28 DEF Deinit
<1>29. CASE CompleteStop
  BY <1>29 DEF CompleteStop
<1>30. CASE AcceptStart
  BY <1>30 DEF AcceptStart
<1>31. CASE StartTake
  BY <1>31 DEF StartTake
<1>32. CASE Restart
  BY <1>32 DEF Restart
<1>33. CASE StartFinish
  BY <1>33 DEF StartFinish, FinishWorkerControl
<1>34. CASE PublishStart
  BY <1>34 DEF PublishStart
<1>35. CASE TakeMailbox
  BY <1>35 DEF TakeMailbox
<1>36. CASE NothingToTake
  BY <1>36 DEF NothingToTake
<1>37. CASE MatchInfo
  BY <1>37 DEF MatchInfo
<1>38. CASE FinishMailboxControl
  BY <1>38 DEF FinishMailboxControl
<1>39. CASE DeferApply
  BY <1>39 DEF DeferApply
<1>40. CASE CheckPending
  BY <1>40 DEF CheckPending
<1>41. CASE ServiceTimeout
  BY <1>41 DEF ServiceTimeout, FinishWorkerControl
<1>42. CASE ServiceWait
  BY <1>42 DEF ServiceWait
<1>43. CASE ServiceApply
  BY <1>43 DEF ServiceApply
<1>44. CASE Applied
  BY <1>44 DEF Applied
<1>45. CASE ApplyDeferred
  BY <1>45 DEF ApplyDeferred
<1>46. CASE ApplyTimedOut
  BY <1>46 DEF ApplyTimedOut, FinishWorkerControl
<1>47. CASE ApplyKillsBackend
  BY <1>47 DEF ApplyKillsBackend
<1>48. CASE FinishApplied
  BY <1>48 DEF FinishApplied, FinishWorkerControl
<1>49. CASE MarkDead
  BY <1>49 DEF MarkDead
<1>50. CASE FinishDead
  BY <1>50 DEF FinishDead, FinishWorkerControl
<1>51. CASE SkipIo
  BY <1>51 DEF SkipIo
<1>52. CASE PollIo
  BY <1>52 DEF PollIo
<1>53. CASE SoftDeadlinePasses
  BY <1>53 DEF SoftDeadlinePasses
<1>54. CASE ApplyDeadlinePasses
  BY <1>54 DEF ApplyDeadlinePasses
<1>55. CASE UNCHANGED vars
  BY <1>55 DEF vars
<1>56. QED BY <1>1, <1>2, <1>3, <1>4, <1>5, <1>6, <1>7, <1>8, <1>9, <1>10,
    <1>11, <1>12, <1>13, <1>14, <1>15, <1>16, <1>17, <1>18, <1>19, <1>20,
    <1>21, <1>22, <1>23, <1>24, <1>25, <1>26, <1>27, <1>28, <1>29, <1>30,
    <1>31, <1>32, <1>33, <1>34, <1>35, <1>36, <1>37, <1>38, <1>39, <1>40,
    <1>41, <1>42, <1>43, <1>44, <1>45, <1>46, <1>47, <1>48, <1>49, <1>50,
    <1>51, <1>52, <1>53, <1>54, <1>55
    DEF Next, Host, UsbCore, Worker, Time

(* While a request is held nobody moves the producer past its boundary. *)
LEMMA BoundaryStep ==
  ASSUME TypeOK, PendingCoversOwners, UsbCoreInv, WorkerInv, FormatInv,
         BoundaryInv, [Next]_vars
  PROVE  BoundaryInv'
<1> USE DEF TypeOK, WorkerTypeOK, BackendTypeOK, LineCodingMatches, FormatInv,
        BoundaryDrained, BoundaryInv, PendingCoversOwners, UsbCoreInv,
        WorkerInv, Starting, Bridging, Inactive, Applying, READY, INIT_FAILED,
        CONTROL_PENDING, CONTROL_ERROR, ReleasePending, CompletionError,
        NoOwner, NoMail, NoPend, Idle, StopPending, StopQuiesced, usbVars,
        lockVars, wrkVars, beVars, history, vars
<1>1. CASE HostByte \/ WireDrains
  BY <1>1 DEF HostByte, WireDrains
<1>2. CASE DtrClose
  BY <1>2 DEF DtrClose, CancelRequest, ResetSoftPending
<1>3. CASE DtrOpen
  BY <1>3 DEF DtrOpen
<1>4. CASE (\E f \in Formats : ArmSoftPending(f))
  BY <1>4 DEF ArmSoftPending
<1>5. CASE RejectLineCoding
  BY <1>5 DEF RejectLineCoding
<1>6. CASE BusReset
  BY <1>6 DEF BusReset
<1>7. CASE MountCb
  BY <1>7 DEF MountCb
<1>8. CASE UmountCb
  BY <1>8 DEF UmountCb
<1>9. CASE CloseStop
  BY <1>9 DEF CloseStop, RequestStop
<1>10. CASE ResetStop
  BY <1>10 DEF ResetStop, RequestStop
<1>11. CASE ResetQuiesce
  BY <1>11 DEF ResetQuiesce
<1>12. CASE ResetHost
  BY <1>12 DEF ResetHost, CancelRequest, ResetSoftPending
<1>13. CASE LeaveTask
  BY <1>13 DEF LeaveTask
<1>14. CASE PollStopPending
  BY <1>14 DEF PollStopPending
<1>15. CASE PollClosed
  BY <1>15 DEF PollClosed
<1>16. CASE PollOpen
  BY <1>16 DEF PollOpen
<1>17. CASE QuiesceBusy
  BY <1>17 DEF QuiesceBusy, FlushOutOnce
<1>18. CASE QuiesceClear
  BY <1>18 DEF QuiesceClear, FlushOutOnce
<1>19. CASE StageInitial
  BY <1>19 DEF StageInitial, ApplyPending, NothingStaged, SoftExpired,
    QueueLineCoding, MailboxBusy
<1>20. CASE RequestStart
  BY <1>20 DEF RequestStart
<1>21. CASE PortIsReady
  BY <1>21 DEF PortIsReady
<1>22. CASE ApplyLive
  BY <1>22 DEF ApplyLive, ApplyPending, NothingStaged, SoftExpired,
    QueueLineCoding, MailboxBusy
<1>23. CASE Admit
  BY <1>23 DEF Admit
<1>24. CASE TxBlockedCheck
  BY <1>24 DEF TxBlockedCheck
<1>25. CASE FillTx
  BY <1>25 DEF FillTx
<1>26. CASE DrainRx
  BY <1>26 DEF DrainRx
<1>27. CASE LifecycleCheck
  BY <1>27 DEF LifecycleCheck
<1>28. CASE Deinit
  BY <1>28 DEF Deinit
<1>29. CASE CompleteStop
  BY <1>29 DEF CompleteStop
<1>30. CASE AcceptStart
  BY <1>30 DEF AcceptStart
<1>31. CASE StartTake
  BY <1>31 DEF StartTake
<1>32. CASE Restart
  BY <1>32 DEF Restart
<1>33. CASE StartFinish
  BY <1>33 DEF StartFinish, FinishWorkerControl
<1>34. CASE PublishStart
  BY <1>34 DEF PublishStart
<1>35. CASE TakeMailbox
  BY <1>35 DEF TakeMailbox
<1>36. CASE NothingToTake
  BY <1>36 DEF NothingToTake
<1>37. CASE MatchInfo
  BY <1>37 DEF MatchInfo
<1>38. CASE FinishMailboxControl
  BY <1>38 DEF FinishMailboxControl
<1>39. CASE DeferApply
  BY <1>39 DEF DeferApply
<1>40. CASE CheckPending
  BY <1>40 DEF CheckPending
<1>41. CASE ServiceTimeout
  BY <1>41 DEF ServiceTimeout, FinishWorkerControl
<1>42. CASE ServiceWait
  BY <1>42 DEF ServiceWait
<1>43. CASE ServiceApply
  BY <1>43 DEF ServiceApply
<1>44. CASE Applied
  BY <1>44 DEF Applied
<1>45. CASE ApplyDeferred
  BY <1>45 DEF ApplyDeferred
<1>46. CASE ApplyTimedOut
  BY <1>46 DEF ApplyTimedOut, FinishWorkerControl
<1>47. CASE ApplyKillsBackend
  BY <1>47 DEF ApplyKillsBackend
<1>48. CASE FinishApplied
  BY <1>48 DEF FinishApplied, FinishWorkerControl
<1>49. CASE MarkDead
  BY <1>49 DEF MarkDead
<1>50. CASE FinishDead
  BY <1>50 DEF FinishDead, FinishWorkerControl
<1>51. CASE SkipIo
  BY <1>51 DEF SkipIo
<1>52. CASE PollIo
  BY <1>52 DEF PollIo
<1>53. CASE SoftDeadlinePasses
  BY <1>53 DEF SoftDeadlinePasses
<1>54. CASE ApplyDeadlinePasses
  BY <1>54 DEF ApplyDeadlinePasses
<1>55. CASE UNCHANGED vars
  BY <1>55 DEF vars
<1>56. QED BY <1>1, <1>2, <1>3, <1>4, <1>5, <1>6, <1>7, <1>8, <1>9, <1>10,
    <1>11, <1>12, <1>13, <1>14, <1>15, <1>16, <1>17, <1>18, <1>19, <1>20,
    <1>21, <1>22, <1>23, <1>24, <1>25, <1>26, <1>27, <1>28, <1>29, <1>30,
    <1>31, <1>32, <1>33, <1>34, <1>35, <1>36, <1>37, <1>38, <1>39, <1>40,
    <1>41, <1>42, <1>43, <1>44, <1>45, <1>46, <1>47, <1>48, <1>49, <1>50,
    <1>51, <1>52, <1>53, <1>54, <1>55
    DEF Next, Host, UsbCore, Worker, Time

(* The staged request, its lock-protected mirror and its window. *)
LEMMA RequestStep ==
  ASSUME TypeOK, UsbCoreInv, RequestInv, [Next]_vars
  PROVE  RequestInv'
<1> USE DEF TypeOK, UsbTypeOK, LockTypeOK, RequestInv, SoftMirrorsRequest,
        ClosedRequestKeepsItsWindow, UsbCoreInv, Starting, Bridging, READY,
        INIT_FAILED, CONTROL_PENDING, CONTROL_ERROR, ReleasePending,
        CompletionError, NoOwner, NoMail, NoPend, Idle, StopPending,
        StopQuiesced, usbVars, lockVars, wrkVars, beVars, history, vars
<1>1. CASE HostByte \/ WireDrains
  BY <1>1 DEF HostByte, WireDrains
<1>2. CASE DtrClose
  BY <1>2 DEF DtrClose, CancelRequest, ResetSoftPending
<1>3. CASE DtrOpen
  BY <1>3 DEF DtrOpen
<1>4. CASE (\E f \in Formats : ArmSoftPending(f))
  BY <1>4 DEF ArmSoftPending
<1>5. CASE RejectLineCoding
  BY <1>5 DEF RejectLineCoding
<1>6. CASE BusReset
  BY <1>6 DEF BusReset
<1>7. CASE MountCb
  BY <1>7 DEF MountCb
<1>8. CASE UmountCb
  BY <1>8 DEF UmountCb
<1>9. CASE CloseStop
  BY <1>9 DEF CloseStop, RequestStop
<1>10. CASE ResetStop
  BY <1>10 DEF ResetStop, RequestStop
<1>11. CASE ResetQuiesce
  BY <1>11 DEF ResetQuiesce
<1>12. CASE ResetHost
  BY <1>12 DEF ResetHost, CancelRequest, ResetSoftPending
<1>13. CASE LeaveTask
  BY <1>13 DEF LeaveTask
<1>14. CASE PollStopPending
  BY <1>14 DEF PollStopPending
<1>15. CASE PollClosed
  BY <1>15 DEF PollClosed
<1>16. CASE PollOpen
  BY <1>16 DEF PollOpen
<1>17. CASE QuiesceBusy
  BY <1>17 DEF QuiesceBusy, FlushOutOnce
<1>18. CASE QuiesceClear
  BY <1>18 DEF QuiesceClear, FlushOutOnce
<1>19. CASE StageInitial
  <2>1. CASE NothingStaged
    BY <1>19, <2>1 DEF StageInitial, NothingStaged
  <2>2. CASE SoftExpired
    BY <1>19, <2>2 DEF StageInitial, SoftExpired
  <2>3. CASE QueueLineCoding
    BY <1>19, <2>3 DEF StageInitial, QueueLineCoding
  <2>4. CASE MailboxBusy
    BY <1>19, <2>4 DEF StageInitial, MailboxBusy
  <2>5. QED BY <1>19, <2>1, <2>2, <2>3, <2>4 DEF StageInitial, ApplyPending
<1>20. CASE RequestStart
  BY <1>20 DEF RequestStart
<1>21. CASE PortIsReady
  BY <1>21 DEF PortIsReady
<1>22. CASE ApplyLive
  <2>1. CASE NothingStaged
    BY <1>22, <2>1 DEF ApplyLive, NothingStaged
  <2>2. CASE SoftExpired
    BY <1>22, <2>2 DEF ApplyLive, SoftExpired
  <2>3. CASE QueueLineCoding
    BY <1>22, <2>3 DEF ApplyLive, QueueLineCoding
  <2>4. CASE MailboxBusy
    BY <1>22, <2>4 DEF ApplyLive, MailboxBusy
  <2>5. QED BY <1>22, <2>1, <2>2, <2>3, <2>4 DEF ApplyLive, ApplyPending
<1>23. CASE Admit
  BY <1>23 DEF Admit
<1>24. CASE TxBlockedCheck
  BY <1>24 DEF TxBlockedCheck
<1>25. CASE FillTx
  BY <1>25 DEF FillTx
<1>26. CASE DrainRx
  BY <1>26 DEF DrainRx
<1>27. CASE LifecycleCheck
  BY <1>27 DEF LifecycleCheck
<1>28. CASE Deinit
  BY <1>28 DEF Deinit
<1>29. CASE CompleteStop
  BY <1>29 DEF CompleteStop
<1>30. CASE AcceptStart
  BY <1>30 DEF AcceptStart
<1>31. CASE StartTake
  BY <1>31 DEF StartTake
<1>32. CASE Restart
  BY <1>32 DEF Restart
<1>33. CASE StartFinish
  BY <1>33 DEF StartFinish, FinishWorkerControl
<1>34. CASE PublishStart
  BY <1>34 DEF PublishStart
<1>35. CASE TakeMailbox
  BY <1>35 DEF TakeMailbox
<1>36. CASE NothingToTake
  BY <1>36 DEF NothingToTake
<1>37. CASE MatchInfo
  BY <1>37 DEF MatchInfo
<1>38. CASE FinishMailboxControl
  BY <1>38 DEF FinishMailboxControl
<1>39. CASE DeferApply
  BY <1>39 DEF DeferApply
<1>40. CASE CheckPending
  BY <1>40 DEF CheckPending
<1>41. CASE ServiceTimeout
  BY <1>41 DEF ServiceTimeout, FinishWorkerControl
<1>42. CASE ServiceWait
  BY <1>42 DEF ServiceWait
<1>43. CASE ServiceApply
  BY <1>43 DEF ServiceApply
<1>44. CASE Applied
  BY <1>44 DEF Applied
<1>45. CASE ApplyDeferred
  BY <1>45 DEF ApplyDeferred
<1>46. CASE ApplyTimedOut
  BY <1>46 DEF ApplyTimedOut, FinishWorkerControl
<1>47. CASE ApplyKillsBackend
  BY <1>47 DEF ApplyKillsBackend
<1>48. CASE FinishApplied
  BY <1>48 DEF FinishApplied, FinishWorkerControl
<1>49. CASE MarkDead
  BY <1>49 DEF MarkDead
<1>50. CASE FinishDead
  BY <1>50 DEF FinishDead, FinishWorkerControl
<1>51. CASE SkipIo
  BY <1>51 DEF SkipIo
<1>52. CASE PollIo
  BY <1>52 DEF PollIo
<1>53. CASE SoftDeadlinePasses
  BY <1>53 DEF SoftDeadlinePasses
<1>54. CASE ApplyDeadlinePasses
  BY <1>54 DEF ApplyDeadlinePasses
<1>55. CASE UNCHANGED vars
  BY <1>55 DEF vars
<1>56. QED BY <1>1, <1>2, <1>3, <1>4, <1>5, <1>6, <1>7, <1>8, <1>9, <1>10,
    <1>11, <1>12, <1>13, <1>14, <1>15, <1>16, <1>17, <1>18, <1>19, <1>20,
    <1>21, <1>22, <1>23, <1>24, <1>25, <1>26, <1>27, <1>28, <1>29, <1>30,
    <1>31, <1>32, <1>33, <1>34, <1>35, <1>36, <1>37, <1>38, <1>39, <1>40,
    <1>41, <1>42, <1>43, <1>44, <1>45, <1>46, <1>47, <1>48, <1>49, <1>50,
    <1>51, <1>52, <1>53, <1>54, <1>55
    DEF Next, Host, UsbCore, Worker, Time

(* Generations only grow, and every held one is at most the newest. *)
LEMMA GenStep ==
  ASSUME UsbTypeOK, LockTypeOK, WorkerTypeOK, UsbCoreInv, GenInv, [Next]_vars
  PROVE  GenInv'
<1> USE DEF UsbTypeOK, LockTypeOK, WorkerTypeOK, UsbCoreInv, Bridging, Starting,
        GenInv, READY, INIT_FAILED, CONTROL_PENDING, CONTROL_ERROR,
        ReleasePending, CompletionError, NoOwner, NoMail, NoPend, Idle,
        StopPending, StopQuiesced, usbVars, lockVars, wrkVars, beVars,
        history, vars
<1>1. CASE HostByte \/ WireDrains
  BY <1>1 DEF HostByte, WireDrains
<1>2. CASE DtrClose
  BY <1>2 DEF DtrClose, CancelRequest, ResetSoftPending
<1>3. CASE DtrOpen
  BY <1>3 DEF DtrOpen
<1>4. CASE (\E f \in Formats : ArmSoftPending(f))
  BY <1>4 DEF ArmSoftPending
<1>5. CASE RejectLineCoding
  BY <1>5 DEF RejectLineCoding
<1>6. CASE BusReset
  BY <1>6 DEF BusReset
<1>7. CASE MountCb
  BY <1>7 DEF MountCb
<1>8. CASE UmountCb
  BY <1>8 DEF UmountCb
<1>9. CASE CloseStop
  BY <1>9 DEF CloseStop, RequestStop
<1>10. CASE ResetStop
  BY <1>10 DEF ResetStop, RequestStop
<1>11. CASE ResetQuiesce
  BY <1>11 DEF ResetQuiesce
<1>12. CASE ResetHost
  BY <1>12 DEF ResetHost, CancelRequest, ResetSoftPending
<1>13. CASE LeaveTask
  BY <1>13 DEF LeaveTask
<1>14. CASE PollStopPending
  BY <1>14 DEF PollStopPending
<1>15. CASE PollClosed
  BY <1>15 DEF PollClosed
<1>16. CASE PollOpen
  BY <1>16 DEF PollOpen
<1>17. CASE QuiesceBusy
  BY <1>17 DEF QuiesceBusy, FlushOutOnce
<1>18. CASE QuiesceClear
  BY <1>18 DEF QuiesceClear, FlushOutOnce
<1>19. CASE StageInitial
  <2>1. CASE NothingStaged
    BY <1>19, <2>1 DEF StageInitial, NothingStaged
  <2>2. CASE SoftExpired
    BY <1>19, <2>2 DEF StageInitial, SoftExpired
  <2>3. CASE QueueLineCoding
    BY <1>19, <2>3 DEF StageInitial, QueueLineCoding
  <2>4. CASE MailboxBusy
    BY <1>19, <2>4 DEF StageInitial, MailboxBusy
  <2>5. QED BY <1>19, <2>1, <2>2, <2>3, <2>4 DEF StageInitial, ApplyPending
<1>20. CASE RequestStart
  BY <1>20 DEF RequestStart
<1>21. CASE PortIsReady
  BY <1>21 DEF PortIsReady
<1>22. CASE ApplyLive
  <2>1. CASE NothingStaged
    BY <1>22, <2>1 DEF ApplyLive, NothingStaged
  <2>2. CASE SoftExpired
    BY <1>22, <2>2 DEF ApplyLive, SoftExpired
  <2>3. CASE QueueLineCoding
    BY <1>22, <2>3 DEF ApplyLive, QueueLineCoding
  <2>4. CASE MailboxBusy
    BY <1>22, <2>4 DEF ApplyLive, MailboxBusy
  <2>5. QED BY <1>22, <2>1, <2>2, <2>3, <2>4 DEF ApplyLive, ApplyPending
<1>23. CASE Admit
  BY <1>23 DEF Admit
<1>24. CASE TxBlockedCheck
  BY <1>24 DEF TxBlockedCheck
<1>25. CASE FillTx
  BY <1>25 DEF FillTx
<1>26. CASE DrainRx
  BY <1>26 DEF DrainRx
<1>27. CASE LifecycleCheck
  BY <1>27 DEF LifecycleCheck
<1>28. CASE Deinit
  BY <1>28 DEF Deinit
<1>29. CASE CompleteStop
  BY <1>29 DEF CompleteStop
<1>30. CASE AcceptStart
  BY <1>30 DEF AcceptStart
<1>31. CASE StartTake
  BY <1>31 DEF StartTake
<1>32. CASE Restart
  BY <1>32 DEF Restart
<1>33. CASE StartFinish
  BY <1>33 DEF StartFinish, FinishWorkerControl
<1>34. CASE PublishStart
  BY <1>34 DEF PublishStart
<1>35. CASE TakeMailbox
  BY <1>35 DEF TakeMailbox
<1>36. CASE NothingToTake
  BY <1>36 DEF NothingToTake
<1>37. CASE MatchInfo
  BY <1>37 DEF MatchInfo
<1>38. CASE FinishMailboxControl
  BY <1>38 DEF FinishMailboxControl
<1>39. CASE DeferApply
  BY <1>39 DEF DeferApply
<1>40. CASE CheckPending
  BY <1>40 DEF CheckPending
<1>41. CASE ServiceTimeout
  BY <1>41 DEF ServiceTimeout, FinishWorkerControl
<1>42. CASE ServiceWait
  BY <1>42 DEF ServiceWait
<1>43. CASE ServiceApply
  BY <1>43 DEF ServiceApply
<1>44. CASE Applied
  BY <1>44 DEF Applied
<1>45. CASE ApplyDeferred
  BY <1>45 DEF ApplyDeferred
<1>46. CASE ApplyTimedOut
  BY <1>46 DEF ApplyTimedOut, FinishWorkerControl
<1>47. CASE ApplyKillsBackend
  BY <1>47 DEF ApplyKillsBackend
<1>48. CASE FinishApplied
  BY <1>48 DEF FinishApplied, FinishWorkerControl
<1>49. CASE MarkDead
  BY <1>49 DEF MarkDead
<1>50. CASE FinishDead
  BY <1>50 DEF FinishDead, FinishWorkerControl
<1>51. CASE SkipIo
  BY <1>51 DEF SkipIo
<1>52. CASE PollIo
  BY <1>52 DEF PollIo
<1>53. CASE SoftDeadlinePasses
  BY <1>53 DEF SoftDeadlinePasses
<1>54. CASE ApplyDeadlinePasses
  BY <1>54 DEF ApplyDeadlinePasses
<1>55. CASE UNCHANGED vars
  BY <1>55 DEF vars
<1>56. QED BY <1>1, <1>2, <1>3, <1>4, <1>5, <1>6, <1>7, <1>8, <1>9, <1>10,
    <1>11, <1>12, <1>13, <1>14, <1>15, <1>16, <1>17, <1>18, <1>19, <1>20,
    <1>21, <1>22, <1>23, <1>24, <1>25, <1>26, <1>27, <1>28, <1>29, <1>30,
    <1>31, <1>32, <1>33, <1>34, <1>35, <1>36, <1>37, <1>38, <1>39, <1>40,
    <1>41, <1>42, <1>43, <1>44, <1>45, <1>46, <1>47, <1>48, <1>49, <1>50,
    <1>51, <1>52, <1>53, <1>54, <1>55
    DEF Next, Host, UsbCore, Worker, Time

(* Only a completion of the newest generation clears CONTROL_ERROR. *)
LEMMA RejectStep ==
  ASSUME TypeOK, GenInv, RejectStaysVisible, [Next]_vars
  PROVE  RejectStaysVisible'
<1> USE DEF TypeOK, UsbTypeOK, LockTypeOK, WorkerTypeOK, GenInv, RejectStaysVisible,
        READY, INIT_FAILED, CONTROL_PENDING, CONTROL_ERROR, ReleasePending,
        CompletionError, NoOwner, NoMail, NoPend, Idle, StopPending,
        StopQuiesced, usbVars, lockVars, wrkVars, beVars, history, vars
<1>1. CASE HostByte \/ WireDrains
  BY <1>1 DEF HostByte, WireDrains
<1>2. CASE DtrClose
  BY <1>2 DEF DtrClose, CancelRequest, ResetSoftPending
<1>3. CASE DtrOpen
  BY <1>3 DEF DtrOpen
<1>4. CASE (\E f \in Formats : ArmSoftPending(f))
  BY <1>4 DEF ArmSoftPending
<1>5. CASE RejectLineCoding
  BY <1>5 DEF RejectLineCoding
<1>6. CASE BusReset
  BY <1>6 DEF BusReset
<1>7. CASE MountCb
  BY <1>7 DEF MountCb
<1>8. CASE UmountCb
  BY <1>8 DEF UmountCb
<1>9. CASE CloseStop
  BY <1>9 DEF CloseStop, RequestStop
<1>10. CASE ResetStop
  BY <1>10 DEF ResetStop, RequestStop
<1>11. CASE ResetQuiesce
  BY <1>11 DEF ResetQuiesce
<1>12. CASE ResetHost
  BY <1>12 DEF ResetHost, CancelRequest, ResetSoftPending
<1>13. CASE LeaveTask
  BY <1>13 DEF LeaveTask
<1>14. CASE PollStopPending
  BY <1>14 DEF PollStopPending
<1>15. CASE PollClosed
  BY <1>15 DEF PollClosed
<1>16. CASE PollOpen
  BY <1>16 DEF PollOpen
<1>17. CASE QuiesceBusy
  BY <1>17 DEF QuiesceBusy, FlushOutOnce
<1>18. CASE QuiesceClear
  BY <1>18 DEF QuiesceClear, FlushOutOnce
<1>19. CASE StageInitial
  <2>1. CASE NothingStaged
    BY <1>19, <2>1 DEF StageInitial, NothingStaged
  <2>2. CASE SoftExpired
    BY <1>19, <2>2 DEF StageInitial, SoftExpired
  <2>3. CASE QueueLineCoding
    BY <1>19, <2>3 DEF StageInitial, QueueLineCoding
  <2>4. CASE MailboxBusy
    BY <1>19, <2>4 DEF StageInitial, MailboxBusy
  <2>5. QED BY <1>19, <2>1, <2>2, <2>3, <2>4 DEF StageInitial, ApplyPending
<1>20. CASE RequestStart
  BY <1>20 DEF RequestStart
<1>21. CASE PortIsReady
  BY <1>21 DEF PortIsReady
<1>22. CASE ApplyLive
  <2>1. CASE NothingStaged
    BY <1>22, <2>1 DEF ApplyLive, NothingStaged
  <2>2. CASE SoftExpired
    BY <1>22, <2>2 DEF ApplyLive, SoftExpired
  <2>3. CASE QueueLineCoding
    BY <1>22, <2>3 DEF ApplyLive, QueueLineCoding
  <2>4. CASE MailboxBusy
    BY <1>22, <2>4 DEF ApplyLive, MailboxBusy
  <2>5. QED BY <1>22, <2>1, <2>2, <2>3, <2>4 DEF ApplyLive, ApplyPending
<1>23. CASE Admit
  BY <1>23 DEF Admit
<1>24. CASE TxBlockedCheck
  BY <1>24 DEF TxBlockedCheck
<1>25. CASE FillTx
  BY <1>25 DEF FillTx
<1>26. CASE DrainRx
  BY <1>26 DEF DrainRx
<1>27. CASE LifecycleCheck
  BY <1>27 DEF LifecycleCheck
<1>28. CASE Deinit
  BY <1>28 DEF Deinit
<1>29. CASE CompleteStop
  BY <1>29 DEF CompleteStop
<1>30. CASE AcceptStart
  BY <1>30 DEF AcceptStart
<1>31. CASE StartTake
  BY <1>31 DEF StartTake
<1>32. CASE Restart
  BY <1>32 DEF Restart
<1>33. CASE StartFinish
  BY <1>33 DEF StartFinish, FinishWorkerControl
<1>34. CASE PublishStart
  BY <1>34 DEF PublishStart
<1>35. CASE TakeMailbox
  BY <1>35 DEF TakeMailbox
<1>36. CASE NothingToTake
  BY <1>36 DEF NothingToTake
<1>37. CASE MatchInfo
  BY <1>37 DEF MatchInfo
<1>38. CASE FinishMailboxControl
  BY <1>38 DEF FinishMailboxControl
<1>39. CASE DeferApply
  BY <1>39 DEF DeferApply
<1>40. CASE CheckPending
  BY <1>40 DEF CheckPending
<1>41. CASE ServiceTimeout
  BY <1>41 DEF ServiceTimeout, FinishWorkerControl
<1>42. CASE ServiceWait
  BY <1>42 DEF ServiceWait
<1>43. CASE ServiceApply
  BY <1>43 DEF ServiceApply
<1>44. CASE Applied
  BY <1>44 DEF Applied
<1>45. CASE ApplyDeferred
  BY <1>45 DEF ApplyDeferred
<1>46. CASE ApplyTimedOut
  BY <1>46 DEF ApplyTimedOut, FinishWorkerControl
<1>47. CASE ApplyKillsBackend
  BY <1>47 DEF ApplyKillsBackend
<1>48. CASE FinishApplied
  BY <1>48 DEF FinishApplied, FinishWorkerControl
<1>49. CASE MarkDead
  BY <1>49 DEF MarkDead
<1>50. CASE FinishDead
  BY <1>50 DEF FinishDead, FinishWorkerControl
<1>51. CASE SkipIo
  BY <1>51 DEF SkipIo
<1>52. CASE PollIo
  BY <1>52 DEF PollIo
<1>53. CASE SoftDeadlinePasses
  BY <1>53 DEF SoftDeadlinePasses
<1>54. CASE ApplyDeadlinePasses
  BY <1>54 DEF ApplyDeadlinePasses
<1>55. CASE UNCHANGED vars
  BY <1>55 DEF vars
<1>56. QED BY <1>1, <1>2, <1>3, <1>4, <1>5, <1>6, <1>7, <1>8, <1>9, <1>10,
    <1>11, <1>12, <1>13, <1>14, <1>15, <1>16, <1>17, <1>18, <1>19, <1>20,
    <1>21, <1>22, <1>23, <1>24, <1>25, <1>26, <1>27, <1>28, <1>29, <1>30,
    <1>31, <1>32, <1>33, <1>34, <1>35, <1>36, <1>37, <1>38, <1>39, <1>40,
    <1>41, <1>42, <1>43, <1>44, <1>45, <1>46, <1>47, <1>48, <1>49, <1>50,
    <1>51, <1>52, <1>53, <1>54, <1>55
    DEF Next, Host, UsbCore, Worker, Time

(* Requests are handed on in the order in which they were made. *)
LEMMA OrderStep ==
  ASSUME UsbTypeOK, LockTypeOK, WorkerTypeOK, WorkerInv, BoundaryInv,
         RequestInv, GenInv, OrderInv, [Next]_vars
  PROVE  OrderInv'
<1> USE DEF UsbTypeOK, LockTypeOK, WorkerTypeOK, GenInv, RequestInv,
        SoftMirrorsRequest, BoundaryInv, WorkerInv, OrderInv, WorkHolds,
        Starting, Applying, READY, INIT_FAILED, CONTROL_PENDING,
        CONTROL_ERROR, ReleasePending, CompletionError, NoOwner, NoMail,
        NoPend, Idle, StopPending, StopQuiesced, usbVars, lockVars, wrkVars,
        beVars, history, vars
<1>1. CASE HostByte \/ WireDrains
  BY <1>1 DEF HostByte, WireDrains
<1>2. CASE DtrClose
  BY <1>2 DEF DtrClose, CancelRequest, ResetSoftPending
<1>3. CASE DtrOpen
  BY <1>3 DEF DtrOpen
<1>4. CASE (\E f \in Formats : ArmSoftPending(f))
  BY <1>4 DEF ArmSoftPending
<1>5. CASE RejectLineCoding
  BY <1>5 DEF RejectLineCoding
<1>6. CASE BusReset
  BY <1>6 DEF BusReset
<1>7. CASE MountCb
  BY <1>7 DEF MountCb
<1>8. CASE UmountCb
  BY <1>8 DEF UmountCb
<1>9. CASE CloseStop
  BY <1>9 DEF CloseStop, RequestStop
<1>10. CASE ResetStop
  BY <1>10 DEF ResetStop, RequestStop
<1>11. CASE ResetQuiesce
  BY <1>11 DEF ResetQuiesce
<1>12. CASE ResetHost
  BY <1>12 DEF ResetHost, CancelRequest, ResetSoftPending
<1>13. CASE LeaveTask
  BY <1>13 DEF LeaveTask
<1>14. CASE PollStopPending
  BY <1>14 DEF PollStopPending
<1>15. CASE PollClosed
  BY <1>15 DEF PollClosed
<1>16. CASE PollOpen
  BY <1>16 DEF PollOpen
<1>17. CASE QuiesceBusy
  BY <1>17 DEF QuiesceBusy, FlushOutOnce
<1>18. CASE QuiesceClear
  BY <1>18 DEF QuiesceClear, FlushOutOnce
<1>19. CASE StageInitial
  <2>1. CASE NothingStaged
    BY <1>19, <2>1 DEF StageInitial, NothingStaged
  <2>2. CASE SoftExpired
    BY <1>19, <2>2 DEF StageInitial, SoftExpired
  <2>3. CASE QueueLineCoding
    BY <1>19, <2>3 DEF StageInitial, QueueLineCoding
  <2>4. CASE MailboxBusy
    BY <1>19, <2>4 DEF StageInitial, MailboxBusy
  <2>5. QED BY <1>19, <2>1, <2>2, <2>3, <2>4 DEF StageInitial, ApplyPending
<1>20. CASE RequestStart
  BY <1>20 DEF RequestStart
<1>21. CASE PortIsReady
  BY <1>21 DEF PortIsReady
<1>22. CASE ApplyLive
  <2>1. CASE NothingStaged
    BY <1>22, <2>1 DEF ApplyLive, NothingStaged
  <2>2. CASE SoftExpired
    BY <1>22, <2>2 DEF ApplyLive, SoftExpired
  <2>3. CASE QueueLineCoding
    BY <1>22, <2>3 DEF ApplyLive, QueueLineCoding
  <2>4. CASE MailboxBusy
    BY <1>22, <2>4 DEF ApplyLive, MailboxBusy
  <2>5. QED BY <1>22, <2>1, <2>2, <2>3, <2>4 DEF ApplyLive, ApplyPending
<1>23. CASE Admit
  BY <1>23 DEF Admit
<1>24. CASE TxBlockedCheck
  BY <1>24 DEF TxBlockedCheck
<1>25. CASE FillTx
  BY <1>25 DEF FillTx
<1>26. CASE DrainRx
  BY <1>26 DEF DrainRx
<1>27. CASE LifecycleCheck
  BY <1>27 DEF LifecycleCheck
<1>28. CASE Deinit
  BY <1>28 DEF Deinit
<1>29. CASE CompleteStop
  BY <1>29 DEF CompleteStop
<1>30. CASE AcceptStart
  BY <1>30 DEF AcceptStart
<1>31. CASE StartTake
  BY <1>31 DEF StartTake
<1>32. CASE Restart
  BY <1>32 DEF Restart
<1>33. CASE StartFinish
  BY <1>33 DEF StartFinish, FinishWorkerControl
<1>34. CASE PublishStart
  BY <1>34 DEF PublishStart
<1>35. CASE TakeMailbox
  BY <1>35 DEF TakeMailbox
<1>36. CASE NothingToTake
  BY <1>36 DEF NothingToTake
<1>37. CASE MatchInfo
  BY <1>37 DEF MatchInfo
<1>38. CASE FinishMailboxControl
  BY <1>38 DEF FinishMailboxControl
<1>39. CASE DeferApply
  BY <1>39 DEF DeferApply
<1>40. CASE CheckPending
  BY <1>40 DEF CheckPending
<1>41. CASE ServiceTimeout
  BY <1>41 DEF ServiceTimeout, FinishWorkerControl
<1>42. CASE ServiceWait
  BY <1>42 DEF ServiceWait
<1>43. CASE ServiceApply
  BY <1>43 DEF ServiceApply
<1>44. CASE Applied
  BY <1>44 DEF Applied
<1>45. CASE ApplyDeferred
  BY <1>45 DEF ApplyDeferred
<1>46. CASE ApplyTimedOut
  BY <1>46 DEF ApplyTimedOut, FinishWorkerControl
<1>47. CASE ApplyKillsBackend
  BY <1>47 DEF ApplyKillsBackend
<1>48. CASE FinishApplied
  BY <1>48 DEF FinishApplied, FinishWorkerControl
<1>49. CASE MarkDead
  BY <1>49 DEF MarkDead
<1>50. CASE FinishDead
  BY <1>50 DEF FinishDead, FinishWorkerControl
<1>51. CASE SkipIo
  BY <1>51 DEF SkipIo
<1>52. CASE PollIo
  BY <1>52 DEF PollIo
<1>53. CASE SoftDeadlinePasses
  BY <1>53 DEF SoftDeadlinePasses
<1>54. CASE ApplyDeadlinePasses
  BY <1>54 DEF ApplyDeadlinePasses
<1>55. CASE UNCHANGED vars
  BY <1>55 DEF vars
<1>56. QED BY <1>1, <1>2, <1>3, <1>4, <1>5, <1>6, <1>7, <1>8, <1>9, <1>10,
    <1>11, <1>12, <1>13, <1>14, <1>15, <1>16, <1>17, <1>18, <1>19, <1>20,
    <1>21, <1>22, <1>23, <1>24, <1>25, <1>26, <1>27, <1>28, <1>29, <1>30,
    <1>31, <1>32, <1>33, <1>34, <1>35, <1>36, <1>37, <1>38, <1>39, <1>40,
    <1>41, <1>42, <1>43, <1>44, <1>45, <1>46, <1>47, <1>48, <1>49, <1>50,
    <1>51, <1>52, <1>53, <1>54, <1>55
    DEF Next, Host, UsbCore, Worker, Time

(* Whoever holds the newest generation holds the format the host wants. *)
LEMMA HolderStep ==
  ASSUME UsbTypeOK, LockTypeOK, WorkerTypeOK, UsbCoreInv, WorkerInv,
         BoundaryInv, RequestInv, GenInv, OrderInv, HolderInv, [Next]_vars
  PROVE  HolderInv'
<1> USE DEF UsbTypeOK, LockTypeOK, WorkerTypeOK, GenInv, RequestInv,
        SoftMirrorsRequest, UsbCoreInv, WorkerInv, BoundaryInv, OrderInv,
        HolderInv, WorkHolds, Starting, Applying, Bridging, READY,
        INIT_FAILED, CONTROL_PENDING, CONTROL_ERROR, ReleasePending,
        CompletionError, NoOwner, NoMail, NoPend, Idle, StopPending,
        StopQuiesced, usbVars, lockVars, wrkVars, beVars, history, vars
<1>1. CASE HostByte \/ WireDrains
  BY <1>1 DEF HostByte, WireDrains
<1>2. CASE DtrClose
  BY <1>2 DEF DtrClose, CancelRequest, ResetSoftPending
<1>3. CASE DtrOpen
  BY <1>3 DEF DtrOpen
<1>4. CASE (\E f \in Formats : ArmSoftPending(f))
  BY <1>4 DEF ArmSoftPending
<1>5. CASE RejectLineCoding
  BY <1>5 DEF RejectLineCoding
<1>6. CASE BusReset
  BY <1>6 DEF BusReset
<1>7. CASE MountCb
  BY <1>7 DEF MountCb
<1>8. CASE UmountCb
  BY <1>8 DEF UmountCb
<1>9. CASE CloseStop
  BY <1>9 DEF CloseStop, RequestStop
<1>10. CASE ResetStop
  BY <1>10 DEF ResetStop, RequestStop
<1>11. CASE ResetQuiesce
  BY <1>11 DEF ResetQuiesce
<1>12. CASE ResetHost
  BY <1>12 DEF ResetHost, CancelRequest, ResetSoftPending
<1>13. CASE LeaveTask
  BY <1>13 DEF LeaveTask
<1>14. CASE PollStopPending
  BY <1>14 DEF PollStopPending
<1>15. CASE PollClosed
  BY <1>15 DEF PollClosed
<1>16. CASE PollOpen
  BY <1>16 DEF PollOpen
<1>17. CASE QuiesceBusy
  BY <1>17 DEF QuiesceBusy, FlushOutOnce
<1>18. CASE QuiesceClear
  BY <1>18 DEF QuiesceClear, FlushOutOnce
<1>19. CASE StageInitial
  <2>1. CASE NothingStaged
    BY <1>19, <2>1 DEF StageInitial, NothingStaged
  <2>2. CASE SoftExpired
    BY <1>19, <2>2 DEF StageInitial, SoftExpired
  <2>3. CASE QueueLineCoding
    BY <1>19, <2>3 DEF StageInitial, QueueLineCoding
  <2>4. CASE MailboxBusy
    BY <1>19, <2>4 DEF StageInitial, MailboxBusy
  <2>5. QED BY <1>19, <2>1, <2>2, <2>3, <2>4 DEF StageInitial, ApplyPending
<1>20. CASE RequestStart
  BY <1>20 DEF RequestStart
<1>21. CASE PortIsReady
  BY <1>21 DEF PortIsReady
<1>22. CASE ApplyLive
  <2>1. CASE NothingStaged
    BY <1>22, <2>1 DEF ApplyLive, NothingStaged
  <2>2. CASE SoftExpired
    BY <1>22, <2>2 DEF ApplyLive, SoftExpired
  <2>3. CASE QueueLineCoding
    BY <1>22, <2>3 DEF ApplyLive, QueueLineCoding
  <2>4. CASE MailboxBusy
    BY <1>22, <2>4 DEF ApplyLive, MailboxBusy
  <2>5. QED BY <1>22, <2>1, <2>2, <2>3, <2>4 DEF ApplyLive, ApplyPending
<1>23. CASE Admit
  BY <1>23 DEF Admit
<1>24. CASE TxBlockedCheck
  BY <1>24 DEF TxBlockedCheck
<1>25. CASE FillTx
  BY <1>25 DEF FillTx
<1>26. CASE DrainRx
  BY <1>26 DEF DrainRx
<1>27. CASE LifecycleCheck
  BY <1>27 DEF LifecycleCheck
<1>28. CASE Deinit
  BY <1>28 DEF Deinit
<1>29. CASE CompleteStop
  BY <1>29 DEF CompleteStop
<1>30. CASE AcceptStart
  BY <1>30 DEF AcceptStart
<1>31. CASE StartTake
  BY <1>31 DEF StartTake
<1>32. CASE Restart
  BY <1>32 DEF Restart
<1>33. CASE StartFinish
  BY <1>33 DEF StartFinish, FinishWorkerControl
<1>34. CASE PublishStart
  BY <1>34 DEF PublishStart
<1>35. CASE TakeMailbox
  BY <1>35 DEF TakeMailbox
<1>36. CASE NothingToTake
  BY <1>36 DEF NothingToTake
<1>37. CASE MatchInfo
  BY <1>37 DEF MatchInfo
<1>38. CASE FinishMailboxControl
  BY <1>38 DEF FinishMailboxControl
<1>39. CASE DeferApply
  BY <1>39 DEF DeferApply
<1>40. CASE CheckPending
  BY <1>40 DEF CheckPending
<1>41. CASE ServiceTimeout
  BY <1>41 DEF ServiceTimeout, FinishWorkerControl
<1>42. CASE ServiceWait
  BY <1>42 DEF ServiceWait
<1>43. CASE ServiceApply
  BY <1>43 DEF ServiceApply
<1>44. CASE Applied
  BY <1>44 DEF Applied
<1>45. CASE ApplyDeferred
  BY <1>45 DEF ApplyDeferred
<1>46. CASE ApplyTimedOut
  BY <1>46 DEF ApplyTimedOut, FinishWorkerControl
<1>47. CASE ApplyKillsBackend
  BY <1>47 DEF ApplyKillsBackend
<1>48. CASE FinishApplied
  BY <1>48 DEF FinishApplied, FinishWorkerControl
<1>49. CASE MarkDead
  BY <1>49 DEF MarkDead
<1>50. CASE FinishDead
  BY <1>50 DEF FinishDead, FinishWorkerControl
<1>51. CASE SkipIo
  BY <1>51 DEF SkipIo
<1>52. CASE PollIo
  BY <1>52 DEF PollIo
<1>53. CASE SoftDeadlinePasses
  BY <1>53 DEF SoftDeadlinePasses
<1>54. CASE ApplyDeadlinePasses
  BY <1>54 DEF ApplyDeadlinePasses
<1>55. CASE UNCHANGED vars
  BY <1>55 DEF vars
<1>56. QED BY <1>1, <1>2, <1>3, <1>4, <1>5, <1>6, <1>7, <1>8, <1>9, <1>10,
    <1>11, <1>12, <1>13, <1>14, <1>15, <1>16, <1>17, <1>18, <1>19, <1>20,
    <1>21, <1>22, <1>23, <1>24, <1>25, <1>26, <1>27, <1>28, <1>29, <1>30,
    <1>31, <1>32, <1>33, <1>34, <1>35, <1>36, <1>37, <1>38, <1>39, <1>40,
    <1>41, <1>42, <1>43, <1>44, <1>45, <1>46, <1>47, <1>48, <1>49, <1>50,
    <1>51, <1>52, <1>53, <1>54, <1>55
    DEF Next, Host, UsbCore, Worker, Time

(* The newest request is held, in force, or reported as failed. *)
LEMMA LatestStep ==
  ASSUME TypeOK, UsbTypeOK, LockTypeOK, WorkerTypeOK, UsbCoreInv, WorkerInv,
         BoundaryInv, RequestInv, GenInv, OrderInv, FormatInv, HolderInv,
         LatestInv, [Next]_vars
  PROVE  LatestInv'
<1> USE PortAssumption
    DEF UsbTypeOK, LockTypeOK, WorkerTypeOK, GenInv, RequestInv,
        SoftMirrorsRequest, UsbCoreInv, WorkerInv, FormatInv, BoundaryInv,
        OrderInv, HolderInv, LatestInv, WorkHolds, Starting, Applying,
        Bridging, READY, INIT_FAILED, CONTROL_PENDING, CONTROL_ERROR,
        ReleasePending, CompletionError, NoOwner, NoMail, NoPend, Idle,
        StopPending, StopQuiesced, usbVars, lockVars, wrkVars, beVars,
        history, vars
<1>1. CASE HostByte \/ WireDrains
  BY <1>1 DEF HostByte, WireDrains
<1>2. CASE DtrClose
  BY <1>2 DEF DtrClose, CancelRequest, ResetSoftPending
<1>3. CASE DtrOpen
  BY <1>3 DEF DtrOpen
<1>4. CASE (\E f \in Formats : ArmSoftPending(f))
  BY <1>4 DEF ArmSoftPending
<1>5. CASE RejectLineCoding
  BY <1>5 DEF RejectLineCoding
<1>6. CASE BusReset
  BY <1>6 DEF BusReset
<1>7. CASE MountCb
  BY <1>7 DEF MountCb
<1>8. CASE UmountCb
  BY <1>8 DEF UmountCb
<1>9. CASE CloseStop
  BY <1>9 DEF CloseStop, RequestStop
<1>10. CASE ResetStop
  BY <1>10 DEF ResetStop, RequestStop
<1>11. CASE ResetQuiesce
  BY <1>11 DEF ResetQuiesce
<1>12. CASE ResetHost
  BY <1>12 DEF ResetHost, CancelRequest, ResetSoftPending
<1>13. CASE LeaveTask
  BY <1>13 DEF LeaveTask
<1>14. CASE PollStopPending
  BY <1>14 DEF PollStopPending
<1>15. CASE PollClosed
  BY <1>15 DEF PollClosed
<1>16. CASE PollOpen
  BY <1>16 DEF PollOpen
<1>17. CASE QuiesceBusy
  BY <1>17 DEF QuiesceBusy, FlushOutOnce
<1>18. CASE QuiesceClear
  BY <1>18 DEF QuiesceClear, FlushOutOnce
<1>19. CASE StageInitial
  <2>1. CASE NothingStaged
    BY <1>19, <2>1 DEF StageInitial, NothingStaged
  <2>2. CASE SoftExpired
    BY <1>19, <2>2 DEF StageInitial, SoftExpired
  <2>3. CASE QueueLineCoding
    BY <1>19, <2>3 DEF StageInitial, QueueLineCoding
  <2>4. CASE MailboxBusy
    BY <1>19, <2>4 DEF StageInitial, MailboxBusy
  <2>5. QED BY <1>19, <2>1, <2>2, <2>3, <2>4 DEF StageInitial, ApplyPending
<1>20. CASE RequestStart
  BY <1>20 DEF RequestStart
<1>21. CASE PortIsReady
  BY <1>21 DEF PortIsReady
<1>22. CASE ApplyLive
  <2>1. CASE NothingStaged
    BY <1>22, <2>1 DEF ApplyLive, NothingStaged
  <2>2. CASE SoftExpired
    BY <1>22, <2>2 DEF ApplyLive, SoftExpired
  <2>3. CASE QueueLineCoding
    BY <1>22, <2>3 DEF ApplyLive, QueueLineCoding
  <2>4. CASE MailboxBusy
    BY <1>22, <2>4 DEF ApplyLive, MailboxBusy
  <2>5. QED BY <1>22, <2>1, <2>2, <2>3, <2>4 DEF ApplyLive, ApplyPending
<1>23. CASE Admit
  BY <1>23 DEF Admit
<1>24. CASE TxBlockedCheck
  BY <1>24 DEF TxBlockedCheck
<1>25. CASE FillTx
  BY <1>25 DEF FillTx
<1>26. CASE DrainRx
  BY <1>26 DEF DrainRx
<1>27. CASE LifecycleCheck
  BY <1>27 DEF LifecycleCheck
<1>28. CASE Deinit
  BY <1>28 DEF Deinit
<1>29. CASE CompleteStop
  BY <1>29 DEF CompleteStop
<1>30. CASE AcceptStart
  BY <1>30 DEF AcceptStart
<1>31. CASE StartTake
  BY <1>31 DEF StartTake
<1>32. CASE Restart
  BY <1>32 DEF Restart
<1>33. CASE StartFinish
  BY <1>33 DEF StartFinish, FinishWorkerControl
<1>34. CASE PublishStart
  BY <1>34 DEF PublishStart
<1>35. CASE TakeMailbox
  BY <1>35 DEF TakeMailbox
<1>36. CASE NothingToTake
  BY <1>36 DEF NothingToTake
<1>37. CASE MatchInfo
  BY <1>37 DEF MatchInfo
<1>38. CASE FinishMailboxControl
  BY <1>38 DEF FinishMailboxControl
<1>39. CASE DeferApply
  BY <1>39 DEF DeferApply
<1>40. CASE CheckPending
  BY <1>40 DEF CheckPending
<1>41. CASE ServiceTimeout
  BY <1>41 DEF ServiceTimeout, FinishWorkerControl
<1>42. CASE ServiceWait
  BY <1>42 DEF ServiceWait
<1>43. CASE ServiceApply
  BY <1>43 DEF ServiceApply
<1>44. CASE Applied
  BY <1>44 DEF Applied
<1>45. CASE ApplyDeferred
  BY <1>45 DEF ApplyDeferred
<1>46. CASE ApplyTimedOut
  BY <1>46 DEF ApplyTimedOut, FinishWorkerControl
<1>47. CASE ApplyKillsBackend
  BY <1>47 DEF ApplyKillsBackend
<1>48. CASE FinishApplied
  BY <1>48 DEF FinishApplied, FinishWorkerControl
<1>49. CASE MarkDead
  BY <1>49 DEF MarkDead
<1>50. CASE FinishDead
  BY <1>50 DEF FinishDead, FinishWorkerControl
<1>51. CASE SkipIo
  BY <1>51 DEF SkipIo
<1>52. CASE PollIo
  BY <1>52 DEF PollIo
<1>53. CASE SoftDeadlinePasses
  BY <1>53 DEF SoftDeadlinePasses
<1>54. CASE ApplyDeadlinePasses
  BY <1>54 DEF ApplyDeadlinePasses
<1>55. CASE UNCHANGED vars
  BY <1>55 DEF vars
<1>56. QED BY <1>1, <1>2, <1>3, <1>4, <1>5, <1>6, <1>7, <1>8, <1>9, <1>10,
    <1>11, <1>12, <1>13, <1>14, <1>15, <1>16, <1>17, <1>18, <1>19, <1>20,
    <1>21, <1>22, <1>23, <1>24, <1>25, <1>26, <1>27, <1>28, <1>29, <1>30,
    <1>31, <1>32, <1>33, <1>34, <1>35, <1>36, <1>37, <1>38, <1>39, <1>40,
    <1>41, <1>42, <1>43, <1>44, <1>45, <1>46, <1>47, <1>48, <1>49, <1>50,
    <1>51, <1>52, <1>53, <1>54, <1>55
    DEF Next, Host, UsbCore, Worker, Time

(* Bytes of a closed session stay in the OUT FIFO until its stop flushes them. *)
LEMMA FlushStep ==
  ASSUME UsbTypeOK, OutTypeOK, LockTypeOK, UsbCoreInv, WorkerInv, FlushInv,
         [Next]_vars
  PROVE  FlushInv'
<1> USE DEF UsbTypeOK, OutTypeOK, LockTypeOK, UsbCoreInv, WorkerInv, Starting,
        FlushInv, READY, INIT_FAILED, CONTROL_PENDING, CONTROL_ERROR,
        ReleasePending, CompletionError, NoOwner, NoMail, NoPend, Idle,
        StopPending, StopQuiesced, usbVars, lockVars, wrkVars, beVars,
        history, vars
<1>1. CASE WireDrains
  BY <1>1 DEF WireDrains
<1>2. CASE HostByte
  BY <1>2 DEF HostByte
<1>3. CASE DtrClose
  BY <1>3 DEF DtrClose, CancelRequest, ResetSoftPending
<1>4. CASE DtrOpen
  BY <1>4 DEF DtrOpen
<1>5. CASE (\E f \in Formats : ArmSoftPending(f))
  BY <1>5 DEF ArmSoftPending
<1>6. CASE RejectLineCoding
  BY <1>6 DEF RejectLineCoding
<1>7. CASE BusReset
  BY <1>7 DEF BusReset
<1>8. CASE MountCb
  BY <1>8 DEF MountCb
<1>9. CASE UmountCb
  BY <1>9 DEF UmountCb
<1>10. CASE CloseStop
  BY <1>10 DEF CloseStop, RequestStop
<1>11. CASE ResetStop
  BY <1>11 DEF ResetStop, RequestStop
<1>12. CASE ResetQuiesce
  BY <1>12 DEF ResetQuiesce
<1>13. CASE ResetHost
  BY <1>13 DEF ResetHost, CancelRequest, ResetSoftPending
<1>14. CASE LeaveTask
  BY <1>14 DEF LeaveTask
<1>15. CASE PollStopPending
  BY <1>15 DEF PollStopPending
<1>16. CASE PollClosed
  BY <1>16 DEF PollClosed
<1>17. CASE PollOpen
  BY <1>17 DEF PollOpen
<1>18. CASE QuiesceBusy
  BY <1>18 DEF QuiesceBusy, FlushOutOnce
<1>19. CASE QuiesceClear
  BY <1>19 DEF QuiesceClear, FlushOutOnce
<1>20. CASE StageInitial
  <2>1. CASE NothingStaged
    BY <1>20, <2>1 DEF StageInitial, NothingStaged
  <2>2. CASE SoftExpired
    BY <1>20, <2>2 DEF StageInitial, SoftExpired
  <2>3. CASE QueueLineCoding
    BY <1>20, <2>3 DEF StageInitial, QueueLineCoding
  <2>4. CASE MailboxBusy
    BY <1>20, <2>4 DEF StageInitial, MailboxBusy
  <2>5. QED BY <1>20, <2>1, <2>2, <2>3, <2>4 DEF StageInitial, ApplyPending
<1>21. CASE RequestStart
  BY <1>21 DEF RequestStart
<1>22. CASE PortIsReady
  BY <1>22 DEF PortIsReady
<1>23. CASE ApplyLive
  <2>1. CASE NothingStaged
    BY <1>23, <2>1 DEF ApplyLive, NothingStaged
  <2>2. CASE SoftExpired
    BY <1>23, <2>2 DEF ApplyLive, SoftExpired
  <2>3. CASE QueueLineCoding
    BY <1>23, <2>3 DEF ApplyLive, QueueLineCoding
  <2>4. CASE MailboxBusy
    BY <1>23, <2>4 DEF ApplyLive, MailboxBusy
  <2>5. QED BY <1>23, <2>1, <2>2, <2>3, <2>4 DEF ApplyLive, ApplyPending
<1>24. CASE Admit
  BY <1>24 DEF Admit
<1>25. CASE TxBlockedCheck
  BY <1>25 DEF TxBlockedCheck
<1>26. CASE FillTx
  BY <1>26 DEF FillTx
<1>27. CASE DrainRx
  BY <1>27 DEF DrainRx
<1>28. CASE LifecycleCheck
  BY <1>28 DEF LifecycleCheck
<1>29. CASE Deinit
  BY <1>29 DEF Deinit
<1>30. CASE CompleteStop
  BY <1>30 DEF CompleteStop
<1>31. CASE AcceptStart
  BY <1>31 DEF AcceptStart
<1>32. CASE StartTake
  BY <1>32 DEF StartTake
<1>33. CASE Restart
  BY <1>33 DEF Restart
<1>34. CASE StartFinish
  BY <1>34 DEF StartFinish, FinishWorkerControl
<1>35. CASE PublishStart
  BY <1>35 DEF PublishStart
<1>36. CASE TakeMailbox
  BY <1>36 DEF TakeMailbox
<1>37. CASE NothingToTake
  BY <1>37 DEF NothingToTake
<1>38. CASE MatchInfo
  BY <1>38 DEF MatchInfo
<1>39. CASE FinishMailboxControl
  BY <1>39 DEF FinishMailboxControl
<1>40. CASE DeferApply
  BY <1>40 DEF DeferApply
<1>41. CASE CheckPending
  BY <1>41 DEF CheckPending
<1>42. CASE ServiceTimeout
  BY <1>42 DEF ServiceTimeout, FinishWorkerControl
<1>43. CASE ServiceWait
  BY <1>43 DEF ServiceWait
<1>44. CASE ServiceApply
  BY <1>44 DEF ServiceApply
<1>45. CASE Applied
  BY <1>45 DEF Applied
<1>46. CASE ApplyDeferred
  BY <1>46 DEF ApplyDeferred
<1>47. CASE ApplyTimedOut
  BY <1>47 DEF ApplyTimedOut, FinishWorkerControl
<1>48. CASE ApplyKillsBackend
  BY <1>48 DEF ApplyKillsBackend
<1>49. CASE FinishApplied
  BY <1>49 DEF FinishApplied, FinishWorkerControl
<1>50. CASE MarkDead
  BY <1>50 DEF MarkDead
<1>51. CASE FinishDead
  BY <1>51 DEF FinishDead, FinishWorkerControl
<1>52. CASE SkipIo
  BY <1>52 DEF SkipIo
<1>53. CASE PollIo
  BY <1>53 DEF PollIo
<1>54. CASE SoftDeadlinePasses
  BY <1>54 DEF SoftDeadlinePasses
<1>55. CASE ApplyDeadlinePasses
  BY <1>55 DEF ApplyDeadlinePasses
<1>56. CASE UNCHANGED vars
  BY <1>56 DEF vars
<1>57. QED BY <1>1, <1>2, <1>3, <1>4, <1>5, <1>6, <1>7, <1>8, <1>9, <1>10,
    <1>11, <1>12, <1>13, <1>14, <1>15, <1>16, <1>17, <1>18, <1>19, <1>20,
    <1>21, <1>22, <1>23, <1>24, <1>25, <1>26, <1>27, <1>28, <1>29, <1>30,
    <1>31, <1>32, <1>33, <1>34, <1>35, <1>36, <1>37, <1>38, <1>39, <1>40,
    <1>41, <1>42, <1>43, <1>44, <1>45, <1>46, <1>47, <1>48, <1>49, <1>50,
    <1>51, <1>52, <1>53, <1>54, <1>55, <1>56
    DEF Next, Host, UsbCore, Worker, Time

-----------------------------------------------------------------------------
(* The initial state satisfies every part of the invariant. *)
LEMMA InvInit == Init => IInv
<1> SUFFICES ASSUME Init PROVE IInv
  OBVIOUS
<1>1. TypeOK
  BY TypeInit
<1>2. PendingCoversOwners /\ PendingHasReason /\ RejectStaysVisible
  BY DEF Init, PendingCoversOwners, PendingHasReason, RejectStaysVisible, NoMail,
         NoPend
<1>3. UsbCoreInv /\ WorkerInv
  BY DEF Init, UsbCoreInv, WorkerInv, Inactive, Starting, Bridging
<1>4. FormatInv /\ BoundaryInv
  BY DEF Init, FormatInv, BoundaryInv, Applying, NoMail, NoPend
<1>5. RequestInv
  BY DEF Init, RequestInv, SoftMirrorsRequest, ClosedRequestKeepsItsWindow
<1>6. GenInv
  BY DEF Init, GenInv, StopPending, NoMail, NoPend, Idle
<1>7. OrderInv /\ HolderInv /\ LatestInv
  BY DEF Init, OrderInv, HolderInv, LatestInv, WorkHolds, NoMail, NoPend
<1>8. FlushInv
  BY DEF Init, FlushInv, StopPending
<1>9. QED BY <1>1, <1>2, <1>3, <1>4, <1>5, <1>6, <1>7, <1>8 DEF IInv

(* Every step of either core, of the host, of the hardware or of time keeps it. *)
LEMMA InvStep == IInv /\ [Next]_vars => IInv'
<1> SUFFICES ASSUME IInv, [Next]_vars PROVE IInv'
  OBVIOUS
<1>1. TypeOK'
  BY UsbTypeStep, OutTypeStep, LockTypeStep, WorkerTypeStep, BackendTypeStep,
     HistoryTypeStep DEF IInv, TypeOK
<1>2. PendingCoversOwners' /\ PendingHasReason' /\ RejectStaysVisible'
  BY OwnersStep, ReasonStep, RejectStep DEF IInv, TypeOK
<1>3. UsbCoreInv' /\ WorkerInv' /\ FormatInv' /\ BoundaryInv'
  BY UsbCoreStep, WorkerStep, FormatStep, BoundaryStep DEF IInv
<1>4. RequestInv' /\ GenInv' /\ OrderInv' /\ HolderInv' /\ LatestInv'
  BY RequestStep, GenStep, OrderStep, HolderStep, LatestStep DEF IInv, TypeOK
<1>5. FlushInv'
  BY FlushStep DEF IInv, TypeOK
<1>6. QED BY <1>1, <1>2, <1>3, <1>4, <1>5 DEF IInv

(* IInv is an inductive invariant of a port: it holds in every reachable state. *)
THEOREM Inductive == Spec => []IInv
BY InvInit, InvStep, PTL DEF Spec

-----------------------------------------------------------------------------
(* CONTROL_PENDING covers the staged, the mailbox and the worker owner of a
   request, so ingress is blocked through every handoff, and it is never left
   set with nobody there to clear it. *)
THEOREM PendingIsExact == Spec => []PendingExact
<1>1. IInv => PendingExact
  BY DEF IInv, PendingExact
<1>2. QED BY Inductive, <1>1, PTL

(* The staged request and its mirror under the lock agree, and a request made
   on a closed port keeps its window. *)
THEOREM RequestMirrored == Spec => [](SoftMirrorsRequest /\ ClosedRequestKeepsItsWindow)
<1>1. IInv => SoftMirrorsRequest /\ ClosedRequestKeepsItsWindow
  BY DEF IInv, RequestInv
<1>2. QED BY Inductive, <1>1, PTL

(* The worker stops or restarts a backend, which clears both rings, only while
   the USB core is not copying through them. *)
THEOREM BridgeExcluded == Spec => []BridgeExclusion
<1>1. IInv => BridgeExclusion
  BY DEF IInv, UsbCoreInv, WorkerInv, Bridging, Starting, BridgeExclusion,
         StopQuiesced, StopPending
<1>2. QED BY Inductive, <1>1, PTL

(* A READY port has a running backend in the published format. *)
THEOREM ReadyIsActive == Spec => []ReadyMeansActive
<1>1. IInv => ReadyMeansActive
  BY DEF IInv, WorkerInv, FormatInv, ReadyMeansActive
<1>2. QED BY Inductive, <1>1, PTL

(* A close wins over a start in progress. *)
THEOREM CloseAlwaysWins == Spec => []CloseWins
<1>1. IInv => CloseWins
  BY DEF IInv, WorkerInv, CloseWins
<1>2. QED BY Inductive, <1>1, PTL

(* No late completion hides the rejection of a newer request. *)
THEOREM RejectNotHidden == Spec => []RejectStaysVisible
<1>1. IInv => RejectStaysVisible
  BY DEF IInv
<1>2. QED BY Inductive, <1>1, PTL

(* When the status of a ready port shows neither pending nor error, the format
   in force is the one the host asked for last. *)
THEOREM LatestInForce == Spec => []LatestRequestWins
<1>1. IInv => LatestRequestWins
  <2> SUFFICES ASSUME IInv, want # NoFormat, READY \in flags,
                      CONTROL_PENDING \notin flags, CONTROL_ERROR \notin flags
               PROVE  fmt = want /\ info = want
    BY DEF LatestRequestWins
  <2>1. ~soft /\ ~mbox.occupied /\ ~pend.pending
    BY DEF IInv, PendingCoversOwners
  <2>2. ~WorkHolds /\ wrkPc # "applied"
    BY <2>1 DEF IInv, BoundaryInv, WorkHolds, Applying
  <2>3. info = want
    BY <2>1, <2>2 DEF IInv, LatestInv
  <2>4. fmt = info
    BY <2>2 DEF IInv, FormatInv
  <2>5. QED BY <2>3, <2>4
<1>2. QED BY Inductive, <1>1, PTL

-----------------------------------------------------------------------------
(* Only an apply and a restart change the format; an apply finds the wire idle,
   the boundary consumed and the producer at the boundary. *)
LEMMA FormatChangeStep ==
  ASSUME WorkerInv, BoundaryInv, [Next]_vars
  PROVE  up /\ up' /\ fmt' # fmt => wire = prod
<1> USE DEF WorkerInv, BoundaryInv, TxIdle, Applying, Starting, usbVars, lockVars,
        wrkVars, beVars, history, vars
<1>1. CASE HostByte \/ DtrClose \/ DtrOpen \/
               (\E f \in Formats : ArmSoftPending(f)) \/ RejectLineCoding \/
               BusReset \/ MountCb \/ UmountCb \/ CloseStop \/ ResetStop \/
               ResetQuiesce \/ ResetHost \/ LeaveTask \/ PollStopPending \/
               PollClosed \/ PollOpen \/ QuiesceBusy \/ QuiesceClear \/
               StageInitial \/ RequestStart \/ PortIsReady \/ ApplyLive \/
               Admit \/ TxBlockedCheck \/ FillTx \/ DrainRx \/
               LifecycleCheck \/ Deinit \/ CompleteStop \/ AcceptStart \/
               StartTake \/ StartFinish \/ PublishStart \/ TakeMailbox \/
               NothingToTake \/ MatchInfo \/ FinishMailboxControl \/
               DeferApply \/ CheckPending \/ ServiceTimeout \/ ServiceWait \/
               ServiceApply \/ ApplyDeferred \/ ApplyTimedOut \/
               ApplyKillsBackend \/ FinishApplied \/ MarkDead \/ FinishDead \/
               SkipIo \/ PollIo \/ WireDrains \/ SoftDeadlinePasses \/
               ApplyDeadlinePasses
  <2>1. UNCHANGED fmt
    BY <1>1 DEF HostByte, DtrClose, DtrOpen,
      ArmSoftPending, RejectLineCoding, BusReset, MountCb, UmountCb,
      CloseStop, ResetStop, ResetQuiesce, ResetHost, LeaveTask,
      PollStopPending, PollClosed, PollOpen, QuiesceBusy, QuiesceClear,
      StageInitial, RequestStart, PortIsReady, ApplyLive, Admit,
      TxBlockedCheck, FillTx, DrainRx, LifecycleCheck, Deinit, CompleteStop,
      AcceptStart, StartTake, StartFinish, PublishStart, TakeMailbox,
      NothingToTake, MatchInfo, FinishMailboxControl, DeferApply,
      CheckPending, ServiceTimeout, ServiceWait, ServiceApply, ApplyDeferred,
      ApplyTimedOut, ApplyKillsBackend, FinishApplied, MarkDead, FinishDead,
      SkipIo, PollIo, WireDrains, SoftDeadlinePasses, ApplyDeadlinePasses
  <2>2. QED BY <2>1
<1>2. CASE Restart
  BY <1>2 DEF Restart
<1>3. CASE Applied
  BY <1>3 DEF Applied
<1>4. CASE UNCHANGED vars
  BY <1>4 DEF vars
<1>5. QED BY <1>1, <1>2, <1>3, <1>4
    DEF Next, Host, UsbCore, Worker, Time

(* The running format changes only when every admitted byte has left the wire. *)
THEOREM DrainBeforeFormatChange == Spec => FormatChangeAfterDrain
<1>1. IInv /\ [Next]_vars => [up /\ up' /\ fmt' # fmt => wire = prod]_vars
  BY FormatChangeStep DEF IInv
<1>2. QED BY Inductive, <1>1, PTL DEF Spec, FormatChangeAfterDrain

(* Only FillTx moves the producer forward, and then no old byte is waiting. *)
LEMMA ClosedBytesStep ==
  ASSUME ~RecloseDuringStop, OutTypeOK, BackendTypeOK, UsbCoreInv, FlushInv,
         [Next]_vars
  PROVE  prod' > prod => outOld = 0
<1> USE DEF UsbCoreInv, FlushInv, OutTypeOK, BackendTypeOK, Bridging, usbVars,
        lockVars, wrkVars, beVars, history, vars
<1>1. CASE HostByte \/ DtrClose \/ DtrOpen \/
               (\E f \in Formats : ArmSoftPending(f)) \/ RejectLineCoding \/
               BusReset \/ MountCb \/ UmountCb \/ CloseStop \/ ResetStop \/
               ResetQuiesce \/ ResetHost \/ LeaveTask \/ PollStopPending \/
               PollClosed \/ PollOpen \/ QuiesceBusy \/ QuiesceClear \/
               StageInitial \/ RequestStart \/ PortIsReady \/ ApplyLive \/
               Admit \/ TxBlockedCheck \/ DrainRx \/ LifecycleCheck \/
               Deinit \/ CompleteStop \/ AcceptStart \/ StartTake \/
               StartFinish \/ PublishStart \/ TakeMailbox \/ NothingToTake \/
               MatchInfo \/ FinishMailboxControl \/ DeferApply \/
               CheckPending \/ ServiceTimeout \/ ServiceWait \/
               ServiceApply \/ Applied \/ ApplyDeferred \/ ApplyTimedOut \/
               ApplyKillsBackend \/ FinishApplied \/ MarkDead \/ FinishDead \/
               SkipIo \/ PollIo \/ WireDrains \/ SoftDeadlinePasses \/
               ApplyDeadlinePasses
  <2>1. UNCHANGED prod
    BY <1>1 DEF HostByte, DtrClose, DtrOpen,
      ArmSoftPending, RejectLineCoding, BusReset, MountCb, UmountCb,
      CloseStop, ResetStop, ResetQuiesce, ResetHost, LeaveTask,
      PollStopPending, PollClosed, PollOpen, QuiesceBusy, QuiesceClear,
      StageInitial, RequestStart, PortIsReady, ApplyLive, Admit,
      TxBlockedCheck, DrainRx, LifecycleCheck, Deinit, CompleteStop,
      AcceptStart, StartTake, StartFinish, PublishStart, TakeMailbox,
      NothingToTake, MatchInfo, FinishMailboxControl, DeferApply,
      CheckPending, ServiceTimeout, ServiceWait, ServiceApply, Applied,
      ApplyDeferred, ApplyTimedOut, ApplyKillsBackend, FinishApplied,
      MarkDead, FinishDead, SkipIo, PollIo, WireDrains, SoftDeadlinePasses,
      ApplyDeadlinePasses
  <2>2. QED BY <2>1
<1>2. CASE FillTx
  BY <1>2 DEF FillTx
<1>3. CASE Restart
  BY <1>3 DEF Restart
<1>4. CASE UNCHANGED vars
  BY <1>4 DEF vars
<1>5. QED BY <1>1, <1>2, <1>3, <1>4
    DEF Next, Host, UsbCore, Worker, Time

(* If no close arrives while an earlier stop is still pending, bytes queued at
   a close are never bridged.  Without the assumption it fails: the flush mark
   of the pending stop is not reset (usb_cdc_line_state_cb). *)
THEOREM ClosedBytesFlushed ==
  ASSUME ~RecloseDuringStop
  PROVE  Spec => ClosedBytesDiscarded
<1>1. IInv /\ [Next]_vars => [prod' > prod => outOld = 0]_vars
  BY ClosedBytesStep DEF IInv, TypeOK
<1>2. QED BY Inductive, <1>1, PTL DEF Spec, ClosedBytesDiscarded

(* A mount opens a session; only the reset ends it, after it acknowledged. *)
LEMMA MountStep ==
  ASSUME UsbTypeOK, UsbCoreInv, MountInv, [Next]_vars
  PROVE  MountInv'
<1> USE DEF UsbTypeOK, UsbPcs, UsbCoreInv, MountInv, Resetting, Bridging,
        StopPending, StopQuiesced, usbVars, lockVars, wrkVars, beVars,
        history, vars
<1>1. CASE HostByte \/ DtrOpen \/ (\E f \in Formats : ArmSoftPending(f)) \/
               RejectLineCoding \/ LifecycleCheck \/ Deinit \/ StartTake \/
               Restart \/ StartFinish \/ PublishStart \/ TakeMailbox \/
               NothingToTake \/ MatchInfo \/ FinishMailboxControl \/
               DeferApply \/ CheckPending \/ ServiceTimeout \/ ServiceWait \/
               ServiceApply \/ Applied \/ ApplyDeferred \/ ApplyTimedOut \/
               ApplyKillsBackend \/ FinishApplied \/ MarkDead \/ FinishDead \/
               SkipIo \/ PollIo \/ WireDrains \/ SoftDeadlinePasses \/
               ApplyDeadlinePasses
  <2>1. UNCHANGED <<lifecycle, mounted, session, usbPc>>
    BY <1>1 DEF HostByte, DtrOpen, ArmSoftPending, RejectLineCoding,
      LifecycleCheck, Deinit, StartTake, Restart, StartFinish, PublishStart,
      TakeMailbox, NothingToTake, MatchInfo, FinishMailboxControl, DeferApply,
      CheckPending, ServiceTimeout, ServiceWait, ServiceApply, Applied,
      ApplyDeferred, ApplyTimedOut, ApplyKillsBackend, FinishApplied,
      MarkDead, FinishDead, SkipIo, PollIo, WireDrains, SoftDeadlinePasses,
      ApplyDeadlinePasses
  <2>2. QED BY <2>1
<1>2. CASE DtrClose
  BY <1>2 DEF DtrClose, CancelRequest, ResetSoftPending
<1>3. CASE BusReset
  BY <1>3 DEF BusReset
<1>4. CASE MountCb
  BY <1>4 DEF MountCb
<1>5. CASE UmountCb
  BY <1>5 DEF UmountCb
<1>6. CASE CloseStop
  BY <1>6 DEF CloseStop, RequestStop
<1>7. CASE ResetStop
  BY <1>7 DEF ResetStop, RequestStop
<1>8. CASE ResetQuiesce
  BY <1>8 DEF ResetQuiesce
<1>9. CASE ResetHost
  BY <1>9 DEF ResetHost, CancelRequest, ResetSoftPending
<1>10. CASE LeaveTask
  BY <1>10 DEF LeaveTask
<1>11. CASE PollStopPending
  BY <1>11 DEF PollStopPending
<1>12. CASE PollClosed
  BY <1>12 DEF PollClosed
<1>13. CASE PollOpen
  BY <1>13 DEF PollOpen
<1>14. CASE QuiesceBusy
  BY <1>14 DEF QuiesceBusy, FlushOutOnce
<1>15. CASE QuiesceClear
  BY <1>15 DEF QuiesceClear, FlushOutOnce
<1>16. CASE StageInitial
  BY <1>16 DEF StageInitial, ApplyPending, NothingStaged, SoftExpired,
    QueueLineCoding, MailboxBusy
<1>17. CASE RequestStart
  BY <1>17 DEF RequestStart
<1>18. CASE PortIsReady
  BY <1>18 DEF PortIsReady
<1>19. CASE ApplyLive
  BY <1>19 DEF ApplyLive, ApplyPending, NothingStaged, SoftExpired,
    QueueLineCoding, MailboxBusy
<1>20. CASE Admit
  BY <1>20 DEF Admit
<1>21. CASE TxBlockedCheck
  BY <1>21 DEF TxBlockedCheck
<1>22. CASE FillTx
  BY <1>22 DEF FillTx
<1>23. CASE DrainRx
  BY <1>23 DEF DrainRx
<1>24. CASE CompleteStop
  BY <1>24 DEF CompleteStop
<1>25. CASE AcceptStart
  BY <1>25 DEF AcceptStart
<1>26. CASE UNCHANGED vars
  BY <1>26 DEF vars
<1>27. QED BY <1>1, <1>2, <1>3, <1>4, <1>5, <1>6, <1>7, <1>8, <1>9, <1>10,
    <1>11, <1>12, <1>13, <1>14, <1>15, <1>16, <1>17, <1>18, <1>19, <1>20,
    <1>21, <1>22, <1>23, <1>24, <1>25, <1>26
    DEF Next, Host, UsbCore, Worker, Time

(* The worker arms the deadline in the step in which it defers the apply. *)
LEMMA DeadlineStep ==
  ASSUME WorkerTypeOK, BoundaryInv, DeadlineInv, [Next]_vars
  PROVE  DeadlineInv'
<1> USE DEF WorkerTypeOK, BoundaryInv, DeadlineInv, Applying, NoPend, NoMail,
        Idle, usbVars, lockVars, wrkVars, beVars, history, vars
<1>1. CASE HostByte \/ DtrClose \/ DtrOpen \/
               (\E f \in Formats : ArmSoftPending(f)) \/ RejectLineCoding \/
               BusReset \/ MountCb \/ UmountCb \/ CloseStop \/ ResetStop \/
               ResetQuiesce \/ ResetHost \/ LeaveTask \/ PollStopPending \/
               PollClosed \/ PollOpen \/ QuiesceBusy \/ QuiesceClear \/
               StageInitial \/ RequestStart \/ PortIsReady \/ ApplyLive \/
               Admit \/ TxBlockedCheck \/ FillTx \/ DrainRx \/ WireDrains \/
               SoftDeadlinePasses
  <2>1. UNCHANGED <<pend, work, wrkPc>>
    BY <1>1 DEF HostByte, DtrClose, DtrOpen, ArmSoftPending, RejectLineCoding,
      BusReset, MountCb, UmountCb, CloseStop, ResetStop, ResetQuiesce,
      ResetHost, LeaveTask, PollStopPending, PollClosed, PollOpen,
      QuiesceBusy, QuiesceClear, StageInitial, RequestStart, PortIsReady,
      ApplyLive, Admit, TxBlockedCheck, FillTx, DrainRx, WireDrains,
      SoftDeadlinePasses
  <2>2. QED BY <2>1
<1>2. CASE LifecycleCheck
  BY <1>2 DEF LifecycleCheck
<1>3. CASE Deinit
  BY <1>3 DEF Deinit
<1>4. CASE CompleteStop
  BY <1>4 DEF CompleteStop
<1>5. CASE AcceptStart
  BY <1>5 DEF AcceptStart
<1>6. CASE StartTake
  BY <1>6 DEF StartTake
<1>7. CASE Restart
  BY <1>7 DEF Restart
<1>8. CASE StartFinish
  BY <1>8 DEF StartFinish, FinishWorkerControl
<1>9. CASE PublishStart
  BY <1>9 DEF PublishStart
<1>10. CASE TakeMailbox
  BY <1>10 DEF TakeMailbox
<1>11. CASE NothingToTake
  BY <1>11 DEF NothingToTake
<1>12. CASE MatchInfo
  BY <1>12 DEF MatchInfo, LineCodingMatches
<1>13. CASE FinishMailboxControl
  BY <1>13 DEF FinishMailboxControl
<1>14. CASE DeferApply
  BY <1>14 DEF DeferApply, LineCodingMatches
<1>15. CASE CheckPending
  BY <1>15 DEF CheckPending
<1>16. CASE ServiceTimeout
  BY <1>16 DEF ServiceTimeout, FinishWorkerControl
<1>17. CASE ServiceWait
  BY <1>17 DEF ServiceWait
<1>18. CASE ServiceApply
  BY <1>18 DEF ServiceApply
<1>19. CASE Applied
  BY <1>19 DEF Applied
<1>20. CASE ApplyDeferred
  BY <1>20 DEF ApplyDeferred
<1>21. CASE ApplyTimedOut
  BY <1>21 DEF ApplyTimedOut, FinishWorkerControl
<1>22. CASE ApplyKillsBackend
  BY <1>22 DEF ApplyKillsBackend
<1>23. CASE FinishApplied
  BY <1>23 DEF FinishApplied, FinishWorkerControl
<1>24. CASE MarkDead
  BY <1>24 DEF MarkDead
<1>25. CASE FinishDead
  BY <1>25 DEF FinishDead, FinishWorkerControl
<1>26. CASE SkipIo
  BY <1>26 DEF SkipIo
<1>27. CASE PollIo
  BY <1>27 DEF PollIo
<1>28. CASE ApplyDeadlinePasses
  BY <1>28 DEF ApplyDeadlinePasses
<1>29. CASE UNCHANGED vars
  BY <1>29 DEF vars
<1>30. QED BY <1>1, <1>2, <1>3, <1>4, <1>5, <1>6, <1>7, <1>8, <1>9, <1>10,
    <1>11, <1>12, <1>13, <1>14, <1>15, <1>16, <1>17, <1>18, <1>19, <1>20,
    <1>21, <1>22, <1>23, <1>24, <1>25, <1>26, <1>27, <1>28, <1>29
    DEF Next, Host, UsbCore, Worker, Time

(* A start that was asked for is not lost, neither in the handoff nor in the
   outcome. *)
LEMMA AdmissionStep ==
  ASSUME UsbTypeOK, LockTypeOK, WorkerTypeOK, UsbCoreInv, WorkerInv,
         AdmissionInv, [Next]_vars
  PROVE  AdmissionInv'
<1> USE DEF UsbTypeOK, UsbPcs, UsbCoreInv, WorkerInv, AdmissionInv, Bridging,
        Starting, StopPending, StopQuiesced, READY, INIT_FAILED,
        CONTROL_PENDING, CONTROL_ERROR, ReleasePending, CompletionError,
        NoOwner, Idle, usbVars, lockVars, wrkVars, beVars, history, vars
<1>1. CASE HostByte \/ BusReset \/ WireDrains \/ SoftDeadlinePasses \/
               ApplyDeadlinePasses
  <2>1. UNCHANGED <<admission, flags, lifecycle, opened, usbPc, wrkPc>>
    BY <1>1 DEF HostByte, BusReset, WireDrains, SoftDeadlinePasses,
      ApplyDeadlinePasses
  <2>2. QED BY <2>1
<1>2. CASE DtrClose
  BY <1>2 DEF DtrClose, CancelRequest, ResetSoftPending
<1>3. CASE DtrOpen
  BY <1>3 DEF DtrOpen
<1>4. CASE (\E f \in Formats : ArmSoftPending(f))
  BY <1>4 DEF ArmSoftPending
<1>5. CASE RejectLineCoding
  BY <1>5 DEF RejectLineCoding
<1>6. CASE MountCb
  BY <1>6 DEF MountCb
<1>7. CASE UmountCb
  BY <1>7 DEF UmountCb
<1>8. CASE CloseStop
  BY <1>8 DEF CloseStop, RequestStop
<1>9. CASE ResetStop
  BY <1>9 DEF ResetStop, RequestStop
<1>10. CASE ResetQuiesce
  BY <1>10 DEF ResetQuiesce
<1>11. CASE ResetHost
  BY <1>11 DEF ResetHost, CancelRequest, ResetSoftPending
<1>12. CASE LeaveTask
  BY <1>12 DEF LeaveTask
<1>13. CASE PollStopPending
  BY <1>13 DEF PollStopPending
<1>14. CASE PollClosed
  BY <1>14 DEF PollClosed
<1>15. CASE PollOpen
  BY <1>15 DEF PollOpen
<1>16. CASE QuiesceBusy
  BY <1>16 DEF QuiesceBusy, FlushOutOnce
<1>17. CASE QuiesceClear
  BY <1>17 DEF QuiesceClear, FlushOutOnce
<1>18. CASE StageInitial
  BY <1>18 DEF StageInitial, ApplyPending, NothingStaged, SoftExpired,
    QueueLineCoding, MailboxBusy
<1>19. CASE RequestStart
  BY <1>19 DEF RequestStart
<1>20. CASE PortIsReady
  BY <1>20 DEF PortIsReady
<1>21. CASE ApplyLive
  BY <1>21 DEF ApplyLive, ApplyPending, NothingStaged, SoftExpired,
    QueueLineCoding, MailboxBusy
<1>22. CASE Admit
  BY <1>22 DEF Admit
<1>23. CASE TxBlockedCheck
  BY <1>23 DEF TxBlockedCheck
<1>24. CASE FillTx
  BY <1>24 DEF FillTx
<1>25. CASE DrainRx
  BY <1>25 DEF DrainRx
<1>26. CASE LifecycleCheck
  BY <1>26 DEF LifecycleCheck
<1>27. CASE Deinit
  BY <1>27 DEF Deinit
<1>28. CASE CompleteStop
  BY <1>28 DEF CompleteStop
<1>29. CASE AcceptStart
  BY <1>29 DEF AcceptStart
<1>30. CASE StartTake
  BY <1>30 DEF StartTake
<1>31. CASE Restart
  BY <1>31 DEF Restart
<1>32. CASE StartFinish
  BY <1>32 DEF StartFinish, FinishWorkerControl
<1>33. CASE PublishStart
  BY <1>33 DEF PublishStart
<1>34. CASE TakeMailbox
  BY <1>34 DEF TakeMailbox
<1>35. CASE NothingToTake
  BY <1>35 DEF NothingToTake
<1>36. CASE MatchInfo
  BY <1>36 DEF MatchInfo, LineCodingMatches
<1>37. CASE FinishMailboxControl
  BY <1>37 DEF FinishMailboxControl
<1>38. CASE DeferApply
  BY <1>38 DEF DeferApply, LineCodingMatches
<1>39. CASE CheckPending
  BY <1>39 DEF CheckPending
<1>40. CASE ServiceTimeout
  BY <1>40 DEF ServiceTimeout, FinishWorkerControl
<1>41. CASE ServiceWait
  BY <1>41 DEF ServiceWait
<1>42. CASE ServiceApply
  BY <1>42 DEF ServiceApply
<1>43. CASE Applied
  BY <1>43 DEF Applied
<1>44. CASE ApplyDeferred
  BY <1>44 DEF ApplyDeferred
<1>45. CASE ApplyTimedOut
  BY <1>45 DEF ApplyTimedOut, FinishWorkerControl
<1>46. CASE ApplyKillsBackend
  BY <1>46 DEF ApplyKillsBackend
<1>47. CASE FinishApplied
  BY <1>47 DEF FinishApplied, FinishWorkerControl
<1>48. CASE MarkDead
  BY <1>48 DEF MarkDead
<1>49. CASE FinishDead
  BY <1>49 DEF FinishDead, FinishWorkerControl
<1>50. CASE SkipIo
  BY <1>50 DEF SkipIo
<1>51. CASE PollIo
  BY <1>51 DEF PollIo
<1>52. CASE UNCHANGED vars
  BY <1>52 DEF vars
<1>53. QED BY <1>1, <1>2, <1>3, <1>4, <1>5, <1>6, <1>7, <1>8, <1>9, <1>10,
    <1>11, <1>12, <1>13, <1>14, <1>15, <1>16, <1>17, <1>18, <1>19, <1>20,
    <1>21, <1>22, <1>23, <1>24, <1>25, <1>26, <1>27, <1>28, <1>29, <1>30,
    <1>31, <1>32, <1>33, <1>34, <1>35, <1>36, <1>37, <1>38, <1>39, <1>40,
    <1>41, <1>42, <1>43, <1>44, <1>45, <1>46, <1>47, <1>48, <1>49, <1>50,
    <1>51, <1>52
    DEF Next, Host, UsbCore, Worker, Time

-----------------------------------------------------------------------------
(* Liveness.  Each formula that must hold again and again is shown by        *)
(* assuming that from some point on it does not hold: what the worker, the   *)
(* USB core and the two timers can still do then leads to the action that    *)
(* makes it hold.  That an action which is due is ENABLED is CoresNeverBlock.*)

LiveInv == IInv /\ MountInv /\ DeadlineInv /\ AdmissionInv

(* The behaviours from any point on of FairSpec. *)
Live == [][Next]_vars /\ Fairness /\ []LiveInv /\ []CoresNeverBlock

LEMMA LiveInductive == Spec => []LiveInv
<1>1. Init => LiveInv
  <2>1. Init => IInv
    BY InvInit
  <2>2. Init => MountInv /\ DeadlineInv /\ AdmissionInv
    BY DEF Init, MountInv, DeadlineInv, AdmissionInv, Resetting, Bridging,
        NoPend,
       StopPending
  <2>3. QED BY <2>1, <2>2 DEF LiveInv
<1>2. LiveInv /\ [Next]_vars => LiveInv'
  <2> SUFFICES ASSUME LiveInv, [Next]_vars
               PROVE  LiveInv'
    OBVIOUS
  <2>1. IInv'
    BY InvStep DEF LiveInv
  <2>2. MountInv' /\ DeadlineInv' /\ AdmissionInv'
    BY MountStep, DeadlineStep, AdmissionStep DEF LiveInv, IInv, TypeOK
  <2>3. QED BY <2>1, <2>2 DEF LiveInv
<1>3. QED BY <1>1, <1>2, PTL DEF Spec

LEMMA FairLive == FairSpec /\ []CoresNeverBlock => Live
<1>1. FairSpec => Spec /\ Fairness
  BY PTL DEF FairSpec
<1>2. Spec => [][Next]_vars
  BY PTL DEF Spec
<1>3. QED BY <1>1, <1>2, LiveInductive, PTL DEF Live

LEMMA LiveStays == Live => []Live
<1>1. CoreFairness => []CoreFairness
  BY PTL DEF CoreFairness
<1>2. TimerFairness => []TimerFairness
  BY PTL DEF TimerFairness
<1>3. ClearFairness => []ClearFairness
  <2>1. ClearFairness <=> \/ <>[]~ENABLED <<QuiesceClear>>_vars
                          \/ []<><<QuiesceClear>>_vars
    BY PTL DEF ClearFairness
  <2>2. QED BY <2>1, PTL
<1>4. QED BY <1>1, <1>2, <1>3, PTL DEF Live, Fairness

(* The program of the worker: where it may go from each position. *)
After == [p \in WrkPcs |->
  CASE p = "life"    -> {"deinit", "start", "control"}
    [] p = "deinit"  -> {"stopped"}
    [] p = "stopped" -> {"start"}
    [] p = "start"   -> {"take", "control"}
    [] p = "take"    -> {"restart"}
    [] p = "restart" -> {"finish", "publish"}
    [] p = "finish"  -> {"publish"}
    [] p = "publish" -> {"control"}
    [] p = "control" -> {"code", "pend"}
    [] p = "code"    -> {"match", "pend"}
    [] p = "match"   -> {"pend"}
    [] p = "pend"    -> {"service", "io"}
    [] p = "service" -> {"apply", "io"}
    [] p = "apply"   -> {"applied", "dead", "io"}
    [] p = "applied" -> {"io"}
    [] p = "dead"    -> {"deadFinish"}
    [] p = "deadFinish" -> {"io"}
    [] p = "io"      -> {"life"}]

LEMMA ProgramMoves ==
  ASSUME Worker
  PROVE  wrkPc \in WrkPcs /\ wrkPc' \in After[wrkPc]
<1> USE DEF WrkPcs, After
<1>1. CASE LifecycleCheck
  BY <1>1 DEF LifecycleCheck
<1>2. CASE Deinit
  BY <1>2 DEF Deinit
<1>3. CASE CompleteStop
  BY <1>3 DEF CompleteStop
<1>4. CASE AcceptStart
  BY <1>4 DEF AcceptStart
<1>5. CASE StartTake
  BY <1>5 DEF StartTake
<1>6. CASE Restart
  BY <1>6 DEF Restart
<1>7. CASE StartFinish
  BY <1>7 DEF StartFinish
<1>8. CASE PublishStart
  BY <1>8 DEF PublishStart
<1>9. CASE TakeMailbox
  BY <1>9 DEF TakeMailbox
<1>10. CASE NothingToTake
  BY <1>10 DEF NothingToTake
<1>11. CASE MatchInfo
  BY <1>11 DEF MatchInfo
<1>12. CASE FinishMailboxControl
  BY <1>12 DEF FinishMailboxControl
<1>13. CASE DeferApply
  BY <1>13 DEF DeferApply
<1>14. CASE CheckPending
  BY <1>14 DEF CheckPending
<1>15. CASE ServiceTimeout
  BY <1>15 DEF ServiceTimeout
<1>16. CASE ServiceWait
  BY <1>16 DEF ServiceWait
<1>17. CASE ServiceApply
  BY <1>17 DEF ServiceApply
<1>18. CASE Applied
  BY <1>18 DEF Applied
<1>19. CASE ApplyDeferred
  BY <1>19 DEF ApplyDeferred
<1>20. CASE ApplyTimedOut
  BY <1>20 DEF ApplyTimedOut
<1>21. CASE ApplyKillsBackend
  BY <1>21 DEF ApplyKillsBackend
<1>22. CASE FinishApplied
  BY <1>22 DEF FinishApplied
<1>23. CASE MarkDead
  BY <1>23 DEF MarkDead
<1>24. CASE FinishDead
  BY <1>24 DEF FinishDead
<1>25. CASE SkipIo
  BY <1>25 DEF SkipIo
<1>26. CASE PollIo
  BY <1>26 DEF PollIo
<1>27. QED BY <1>1, <1>2, <1>3, <1>4, <1>5, <1>6, <1>7, <1>8, <1>9, <1>10,
    <1>11, <1>12, <1>13, <1>14, <1>15, <1>16, <1>17, <1>18, <1>19, <1>20,
    <1>21, <1>22, <1>23, <1>24, <1>25, <1>26 DEF Worker

LEMMA OnlyProgramMoves ==
  ASSUME [Next]_vars, ~Worker
  PROVE  wrkPc' = wrkPc
<1> USE DEF usbVars, lockVars, wrkVars, beVars, history, vars
<1>1. CASE HostByte \/ DtrClose \/ DtrOpen \/
               (\E f \in Formats : ArmSoftPending(f)) \/ RejectLineCoding \/
               BusReset \/ MountCb \/ UmountCb \/ CloseStop \/ ResetStop \/
               ResetQuiesce \/ ResetHost \/ LeaveTask \/ PollStopPending \/
               PollClosed \/ PollOpen \/ QuiesceBusy \/ QuiesceClear \/
               StageInitial \/ RequestStart \/ PortIsReady \/ ApplyLive \/
               Admit \/ TxBlockedCheck \/ FillTx \/ DrainRx \/ WireDrains \/
               SoftDeadlinePasses \/ ApplyDeadlinePasses
  BY <1>1 DEF HostByte, DtrClose, DtrOpen, ArmSoftPending, RejectLineCoding,
    BusReset, MountCb, UmountCb, CloseStop, ResetStop, ResetQuiesce,
    ResetHost, LeaveTask, PollStopPending, PollClosed, PollOpen, QuiesceBusy,
    QuiesceClear, StageInitial, RequestStart, PortIsReady, ApplyLive, Admit,
    TxBlockedCheck, FillTx, DrainRx, WireDrains, SoftDeadlinePasses,
    ApplyDeadlinePasses
<1>2. CASE UNCHANGED vars
  BY <1>2 DEF vars
<1>3. QED BY <1>1, <1>2 DEF Next, Host, UsbCore, Worker, Time

LEMMA ProgramStep == [Next]_vars => wrkPc' = wrkPc \/ wrkPc' \in After[wrkPc]
  BY ProgramMoves, OnlyProgramMoves

LEMMA ProgramActs == <<Worker>>_vars => wrkPc' \in After[wrkPc]
  BY ProgramMoves

(* The worker comes back to the top of its loop. *)
THEOREM WorkerLoops == Live => []<>(wrkPc = "life")
<1> DEFINE At(p) == wrkPc = p
<1>0. CoresNeverBlock => ENABLED <<Worker>>_vars
  BY DEF CoresNeverBlock
<1>1. Live => (At("io") ~> At("life"))
  <2>1. [Next]_vars /\ At("io") => At("io")' \/ At("life")'
    BY ProgramStep DEF After, WrkPcs
  <2>2. At("io") /\ <<Worker>>_vars => At("life")'
    BY ProgramActs DEF After, WrkPcs
  <2> HIDE DEF At
  <2>3. QED BY <1>0, <2>1, <2>2, PTL DEF Live, Fairness, CoreFairness
<1>2. Live => (At("deadFinish") ~> At("life"))
  <2>1. [Next]_vars /\ At("deadFinish") => At("deadFinish")' \/ At("io")'
    BY ProgramStep DEF After, WrkPcs
  <2>2. At("deadFinish") /\ <<Worker>>_vars => At("io")'
    BY ProgramActs DEF After, WrkPcs
  <2> HIDE DEF At
  <2>3. QED BY <1>0, <2>1, <2>2, <1>1, PTL DEF Live, Fairness, CoreFairness
<1>3. Live => (At("dead") ~> At("life"))
  <2>1. [Next]_vars /\ At("dead") => At("dead")' \/ At("deadFinish")'
    BY ProgramStep DEF After, WrkPcs
  <2>2. At("dead") /\ <<Worker>>_vars => At("deadFinish")'
    BY ProgramActs DEF After, WrkPcs
  <2> HIDE DEF At
  <2>3. QED BY <1>0, <2>1, <2>2, <1>2, PTL DEF Live, Fairness, CoreFairness
<1>4. Live => (At("applied") ~> At("life"))
  <2>1. [Next]_vars /\ At("applied") => At("applied")' \/ At("io")'
    BY ProgramStep DEF After, WrkPcs
  <2>2. At("applied") /\ <<Worker>>_vars => At("io")'
    BY ProgramActs DEF After, WrkPcs
  <2> HIDE DEF At
  <2>3. QED BY <1>0, <2>1, <2>2, <1>1, PTL DEF Live, Fairness, CoreFairness
<1>5. Live => (At("apply") ~> At("life"))
  <2>1. [Next]_vars /\ At("apply")
          => At("apply")' \/ (At("applied") \/ At("dead") \/ At("io"))'
    BY ProgramStep DEF After, WrkPcs
  <2>2. At("apply") /\ <<Worker>>_vars
          => (At("applied") \/ At("dead") \/ At("io"))'
    BY ProgramActs DEF After, WrkPcs
  <2> HIDE DEF At
  <2>3. QED BY <1>0, <2>1, <2>2, <1>4, <1>3, <1>1, PTL DEF Live, Fairness,
      CoreFairness
<1>6. Live => (At("service") ~> At("life"))
  <2>1. [Next]_vars /\ At("service")
          => At("service")' \/ (At("apply") \/ At("io"))'
    BY ProgramStep DEF After, WrkPcs
  <2>2. At("service") /\ <<Worker>>_vars => (At("apply") \/ At("io"))'
    BY ProgramActs DEF After, WrkPcs
  <2> HIDE DEF At
  <2>3. QED BY <1>0, <2>1, <2>2, <1>5, <1>1, PTL DEF Live, Fairness,
      CoreFairness
<1>7. Live => (At("pend") ~> At("life"))
  <2>1. [Next]_vars /\ At("pend") => At("pend")' \/ (At("service") \/ At("io"))'
    BY ProgramStep DEF After, WrkPcs
  <2>2. At("pend") /\ <<Worker>>_vars => (At("service") \/ At("io"))'
    BY ProgramActs DEF After, WrkPcs
  <2> HIDE DEF At
  <2>3. QED BY <1>0, <2>1, <2>2, <1>6, <1>1, PTL DEF Live, Fairness,
      CoreFairness
<1>8. Live => (At("match") ~> At("life"))
  <2>1. [Next]_vars /\ At("match") => At("match")' \/ At("pend")'
    BY ProgramStep DEF After, WrkPcs
  <2>2. At("match") /\ <<Worker>>_vars => At("pend")'
    BY ProgramActs DEF After, WrkPcs
  <2> HIDE DEF At
  <2>3. QED BY <1>0, <2>1, <2>2, <1>7, PTL DEF Live, Fairness, CoreFairness
<1>9. Live => (At("code") ~> At("life"))
  <2>1. [Next]_vars /\ At("code") => At("code")' \/ (At("match") \/ At("pend"))'
    BY ProgramStep DEF After, WrkPcs
  <2>2. At("code") /\ <<Worker>>_vars => (At("match") \/ At("pend"))'
    BY ProgramActs DEF After, WrkPcs
  <2> HIDE DEF At
  <2>3. QED BY <1>0, <2>1, <2>2, <1>8, <1>7, PTL DEF Live, Fairness,
      CoreFairness
<1>10. Live => (At("control") ~> At("life"))
  <2>1. [Next]_vars /\ At("control")
          => At("control")' \/ (At("code") \/ At("pend"))'
    BY ProgramStep DEF After, WrkPcs
  <2>2. At("control") /\ <<Worker>>_vars => (At("code") \/ At("pend"))'
    BY ProgramActs DEF After, WrkPcs
  <2> HIDE DEF At
  <2>3. QED BY <1>0, <2>1, <2>2, <1>9, <1>7, PTL DEF Live, Fairness,
      CoreFairness
<1>11. Live => (At("publish") ~> At("life"))
  <2>1. [Next]_vars /\ At("publish") => At("publish")' \/ At("control")'
    BY ProgramStep DEF After, WrkPcs
  <2>2. At("publish") /\ <<Worker>>_vars => At("control")'
    BY ProgramActs DEF After, WrkPcs
  <2> HIDE DEF At
  <2>3. QED BY <1>0, <2>1, <2>2, <1>10, PTL DEF Live, Fairness, CoreFairness
<1>12. Live => (At("finish") ~> At("life"))
  <2>1. [Next]_vars /\ At("finish") => At("finish")' \/ At("publish")'
    BY ProgramStep DEF After, WrkPcs
  <2>2. At("finish") /\ <<Worker>>_vars => At("publish")'
    BY ProgramActs DEF After, WrkPcs
  <2> HIDE DEF At
  <2>3. QED BY <1>0, <2>1, <2>2, <1>11, PTL DEF Live, Fairness, CoreFairness
<1>13. Live => (At("restart") ~> At("life"))
  <2>1. [Next]_vars /\ At("restart")
          => At("restart")' \/ (At("finish") \/ At("publish"))'
    BY ProgramStep DEF After, WrkPcs
  <2>2. At("restart") /\ <<Worker>>_vars => (At("finish") \/ At("publish"))'
    BY ProgramActs DEF After, WrkPcs
  <2> HIDE DEF At
  <2>3. QED BY <1>0, <2>1, <2>2, <1>12, <1>11, PTL DEF Live, Fairness,
      CoreFairness
<1>14. Live => (At("take") ~> At("life"))
  <2>1. [Next]_vars /\ At("take") => At("take")' \/ At("restart")'
    BY ProgramStep DEF After, WrkPcs
  <2>2. At("take") /\ <<Worker>>_vars => At("restart")'
    BY ProgramActs DEF After, WrkPcs
  <2> HIDE DEF At
  <2>3. QED BY <1>0, <2>1, <2>2, <1>13, PTL DEF Live, Fairness, CoreFairness
<1>15. Live => (At("start") ~> At("life"))
  <2>1. [Next]_vars /\ At("start")
          => At("start")' \/ (At("take") \/ At("control"))'
    BY ProgramStep DEF After, WrkPcs
  <2>2. At("start") /\ <<Worker>>_vars => (At("take") \/ At("control"))'
    BY ProgramActs DEF After, WrkPcs
  <2> HIDE DEF At
  <2>3. QED BY <1>0, <2>1, <2>2, <1>14, <1>10, PTL DEF Live, Fairness,
      CoreFairness
<1>16. Live => (At("stopped") ~> At("life"))
  <2>1. [Next]_vars /\ At("stopped") => At("stopped")' \/ At("start")'
    BY ProgramStep DEF After, WrkPcs
  <2>2. At("stopped") /\ <<Worker>>_vars => At("start")'
    BY ProgramActs DEF After, WrkPcs
  <2> HIDE DEF At
  <2>3. QED BY <1>0, <2>1, <2>2, <1>15, PTL DEF Live, Fairness, CoreFairness
<1>17. Live => (At("deinit") ~> At("life"))
  <2>1. [Next]_vars /\ At("deinit") => At("deinit")' \/ At("stopped")'
    BY ProgramStep DEF After, WrkPcs
  <2>2. At("deinit") /\ <<Worker>>_vars => At("stopped")'
    BY ProgramActs DEF After, WrkPcs
  <2> HIDE DEF At
  <2>3. QED BY <1>0, <2>1, <2>2, <1>16, PTL DEF Live, Fairness, CoreFairness
<1>18. LiveInv => At("io") \/ At("deadFinish") \/ At("dead") \/ At("applied")
        \/ At("apply") \/ At("service") \/ At("pend") \/ At("match")
        \/ At("code") \/ At("control") \/ At("publish") \/ At("finish")
        \/ At("restart") \/ At("take") \/ At("start") \/ At("stopped")
        \/ At("deinit") \/ At("life")
  BY DEF LiveInv, IInv, TypeOK, WorkerTypeOK, WrkPcs
<1> HIDE DEF At
<1>19. Live => []<>At("life")
  BY <1>1, <1>2, <1>3, <1>4, <1>5, <1>6, <1>7, <1>8, <1>9, <1>10, <1>11,
      <1>12, <1>13, <1>14, <1>15, <1>16, <1>17, <1>18, PTL DEF Live
<1>20. QED BY <1>19 DEF At
-----------------------------------------------------------------------------
(* The program of the worker, read the other way: what it does where. *)
LEMMA Program ==
  ASSUME Worker
  PROVE  /\ wrkPc = "life" => LifecycleCheck
         /\ wrkPc = "stopped" => CompleteStop
         /\ wrkPc = "start" => AcceptStart
         /\ wrkPc = "finish" => StartFinish
         /\ wrkPc = "publish" => PublishStart
         /\ wrkPc = "control" => TakeMailbox \/ NothingToTake
         /\ wrkPc = "match" => FinishMailboxControl
         /\ wrkPc = "pend" => CheckPending
         /\ wrkPc = "service" => ServiceTimeout \/ ServiceWait \/ ServiceApply
         /\ wrkPc = "applied" => FinishApplied
         /\ wrkPc = "deadFinish" => FinishDead
<1>1. CASE LifecycleCheck
  BY <1>1 DEF LifecycleCheck
<1>2. CASE Deinit
  BY <1>2 DEF Deinit
<1>3. CASE CompleteStop
  BY <1>3 DEF CompleteStop
<1>4. CASE AcceptStart
  BY <1>4 DEF AcceptStart
<1>5. CASE StartTake
  BY <1>5 DEF StartTake
<1>6. CASE Restart
  BY <1>6 DEF Restart
<1>7. CASE StartFinish
  BY <1>7 DEF StartFinish
<1>8. CASE PublishStart
  BY <1>8 DEF PublishStart
<1>9. CASE TakeMailbox
  BY <1>9 DEF TakeMailbox
<1>10. CASE NothingToTake
  BY <1>10 DEF NothingToTake
<1>11. CASE MatchInfo
  BY <1>11 DEF MatchInfo
<1>12. CASE FinishMailboxControl
  BY <1>12 DEF FinishMailboxControl
<1>13. CASE DeferApply
  BY <1>13 DEF DeferApply
<1>14. CASE CheckPending
  BY <1>14 DEF CheckPending
<1>15. CASE ServiceTimeout
  BY <1>15 DEF ServiceTimeout
<1>16. CASE ServiceWait
  BY <1>16 DEF ServiceWait
<1>17. CASE ServiceApply
  BY <1>17 DEF ServiceApply
<1>18. CASE Applied
  BY <1>18 DEF Applied
<1>19. CASE ApplyDeferred
  BY <1>19 DEF ApplyDeferred
<1>20. CASE ApplyTimedOut
  BY <1>20 DEF ApplyTimedOut
<1>21. CASE ApplyKillsBackend
  BY <1>21 DEF ApplyKillsBackend
<1>22. CASE FinishApplied
  BY <1>22 DEF FinishApplied
<1>23. CASE MarkDead
  BY <1>23 DEF MarkDead
<1>24. CASE FinishDead
  BY <1>24 DEF FinishDead
<1>25. CASE SkipIo
  BY <1>25 DEF SkipIo
<1>26. CASE PollIo
  BY <1>26 DEF PollIo
<1>27. QED BY <1>1, <1>2, <1>3, <1>4, <1>5, <1>6, <1>7, <1>8, <1>9, <1>10,
    <1>11, <1>12, <1>13, <1>14, <1>15, <1>16, <1>17, <1>18, <1>19, <1>20,
    <1>21, <1>22, <1>23, <1>24, <1>25, <1>26 DEF Worker

(* No step of the USB core leaves it where it was. *)
LEMMA UsbMoves ==
  ASSUME UsbTypeOK, UsbCore
  PROVE  usbPc' # usbPc
<1> USE DEF UsbTypeOK, UsbPcs
<1>1. CASE CloseStop
  BY <1>1 DEF CloseStop
<1>2. CASE ResetStop
  BY <1>2 DEF ResetStop
<1>3. CASE ResetQuiesce
  BY <1>3 DEF ResetQuiesce
<1>4. CASE ResetHost
  BY <1>4 DEF ResetHost
<1>5. CASE LeaveTask
  BY <1>5 DEF LeaveTask
<1>6. CASE PollStopPending
  BY <1>6 DEF PollStopPending
<1>7. CASE PollClosed
  BY <1>7 DEF PollClosed
<1>8. CASE PollOpen
  BY <1>8 DEF PollOpen
<1>9. CASE QuiesceBusy
  BY <1>9 DEF QuiesceBusy
<1>10. CASE QuiesceClear
  BY <1>10 DEF QuiesceClear
<1>11. CASE StageInitial
  BY <1>11 DEF StageInitial
<1>12. CASE RequestStart
  BY <1>12 DEF RequestStart
<1>13. CASE PortIsReady
  BY <1>13 DEF PortIsReady
<1>14. CASE ApplyLive
  BY <1>14 DEF ApplyLive
<1>15. CASE Admit
  BY <1>15 DEF Admit
<1>16. CASE TxBlockedCheck
  BY <1>16 DEF TxBlockedCheck
<1>17. CASE FillTx
  BY <1>17 DEF FillTx
<1>18. CASE DrainRx
  BY <1>18 DEF DrainRx
<1>19. QED BY <1>1, <1>2, <1>3, <1>4, <1>5, <1>6, <1>7, <1>8, <1>9, <1>10,
    <1>11, <1>12, <1>13, <1>14, <1>15, <1>16, <1>17, <1>18 DEF UsbCore

(* A stop begins with a request, ends in CompleteStop, and keeps its
   acknowledgement in between; a start is queued by the USB core only. *)
LEMMA StopMoves ==
  ASSUME LockTypeOK, [Next]_vars
  PROVE  /\ StopPending /\ ~StopPending' => wrkPc = "stopped"
         /\ ~StopPending /\ StopPending' => gen' # gen
         /\ StopQuiesced => StopQuiesced' \/ ~StopPending'
<1> USE DEF LockTypeOK, StopPending, StopQuiesced, usbVars, lockVars, wrkVars,
        beVars, history, vars
<1>1. CASE HostByte \/ DtrClose \/ DtrOpen \/
               (\E f \in Formats : ArmSoftPending(f)) \/ RejectLineCoding \/
               BusReset \/ MountCb \/ UmountCb \/ ResetHost \/ LeaveTask \/
               PollStopPending \/ PollClosed \/ PollOpen \/ QuiesceBusy \/
               StageInitial \/ PortIsReady \/ ApplyLive \/ Admit \/
               TxBlockedCheck \/ FillTx \/ DrainRx \/ LifecycleCheck \/
               Deinit \/ StartTake \/ Restart \/ StartFinish \/
               PublishStart \/ TakeMailbox \/ NothingToTake \/ MatchInfo \/
               FinishMailboxControl \/ DeferApply \/ CheckPending \/
               ServiceTimeout \/ ServiceWait \/ ServiceApply \/ Applied \/
               ApplyDeferred \/ ApplyTimedOut \/ ApplyKillsBackend \/
               FinishApplied \/ MarkDead \/ FinishDead \/ SkipIo \/ PollIo \/
               WireDrains \/ SoftDeadlinePasses \/ ApplyDeadlinePasses
  <2>1. UNCHANGED <<lifecycle>>
    BY <1>1 DEF HostByte, DtrClose, DtrOpen, ArmSoftPending, RejectLineCoding,
      BusReset, MountCb, UmountCb, ResetHost, LeaveTask, PollStopPending,
      PollClosed, PollOpen, QuiesceBusy, StageInitial, PortIsReady, ApplyLive,
      Admit, TxBlockedCheck, FillTx, DrainRx, LifecycleCheck, Deinit,
      StartTake, Restart, StartFinish, PublishStart, TakeMailbox,
      NothingToTake, MatchInfo, FinishMailboxControl, DeferApply,
      CheckPending, ServiceTimeout, ServiceWait, ServiceApply, Applied,
      ApplyDeferred, ApplyTimedOut, ApplyKillsBackend, FinishApplied,
      MarkDead, FinishDead, SkipIo, PollIo, WireDrains, SoftDeadlinePasses,
      ApplyDeadlinePasses
  <2>2. QED BY <2>1
<1>2. CASE CloseStop
  BY <1>2 DEF CloseStop, RequestStop
<1>3. CASE ResetStop
  BY <1>3 DEF ResetStop, RequestStop
<1>4. CASE ResetQuiesce
  BY <1>4 DEF ResetQuiesce
<1>5. CASE QuiesceClear
  BY <1>5 DEF QuiesceClear, FlushOutOnce
<1>6. CASE RequestStart
  BY <1>6 DEF RequestStart
<1>7. CASE CompleteStop
  BY <1>7 DEF CompleteStop
<1>8. CASE AcceptStart
  BY <1>8 DEF AcceptStart
<1>9. CASE UNCHANGED vars
  BY <1>9 DEF vars
<1>10. QED BY <1>1, <1>2, <1>3, <1>4, <1>5, <1>6, <1>7, <1>8, <1>9
    DEF Next, Host, UsbCore, Worker, Time

(* While a stop waits for its acknowledgement and the host is quiet: where the
   USB core may go next. *)
AcknowledgePath ==
  [task |-> {"poll", "reset", "close"}, poll |-> {"quiesce"},
   quiesce |-> {"task"}, close |-> {}, reset |-> {"resetQuiesce"},
   resetQuiesce |-> {}, resetHost |-> {"task"}]

Unacknowledged == StopPending /\ ~StopQuiesced

(* A stop that nobody acknowledges and no request: the USB core goes in circles
   through the poll, or it could take no step at all. *)
LEMMA AcknowledgeStep ==
  ASSUME LiveInv, Unacknowledged, Unacknowledged', [Next]_vars, gen' = gen,
         mounts' = mounts
  PROVE  \/ usbPc' = usbPc /\ usbPc \in DOMAIN AcknowledgePath
         \/ usbPc \in DOMAIN AcknowledgePath /\
              usbPc' \in AcknowledgePath[usbPc]
<1> USE DEF Unacknowledged, StopPending, StopQuiesced, AcknowledgePath,
        usbVars, lockVars, wrkVars, beVars, history, vars
<1>0. /\ usbPc \in DOMAIN AcknowledgePath
      /\ LockTypeOK /\ UsbTypeOK
  BY DEF LiveInv, IInv, TypeOK, UsbTypeOK, UsbPcs, UsbCoreInv, Bridging
<1> USE <1>0 DEF LockTypeOK, UsbTypeOK
<1>1. CASE HostByte \/ LifecycleCheck \/ Deinit \/ StartTake \/ Restart \/
               StartFinish \/ PublishStart \/ TakeMailbox \/ NothingToTake \/
               MatchInfo \/ FinishMailboxControl \/ DeferApply \/
               CheckPending \/ ServiceTimeout \/ ServiceWait \/
               ServiceApply \/ Applied \/ ApplyDeferred \/ ApplyTimedOut \/
               ApplyKillsBackend \/ FinishApplied \/ MarkDead \/ FinishDead \/
               SkipIo \/ PollIo \/ WireDrains \/ SoftDeadlinePasses \/
               ApplyDeadlinePasses
  <2>1. UNCHANGED <<gen, lifecycle, mounted, mounts, opened, usbPc>>
    BY <1>1 DEF HostByte, LifecycleCheck, Deinit, StartTake, Restart,
      StartFinish, PublishStart, TakeMailbox, NothingToTake, MatchInfo,
      FinishMailboxControl, DeferApply, CheckPending, ServiceTimeout,
      ServiceWait, ServiceApply, Applied, ApplyDeferred, ApplyTimedOut,
      ApplyKillsBackend, FinishApplied, MarkDead, FinishDead, SkipIo, PollIo,
      WireDrains, SoftDeadlinePasses, ApplyDeadlinePasses
  <2>2. QED BY <2>1
<1>2. CASE DtrClose
  BY <1>2 DEF DtrClose, CancelRequest, ResetSoftPending
<1>3. CASE DtrOpen
  BY <1>3 DEF DtrOpen
<1>4. CASE (\E f \in Formats : ArmSoftPending(f))
  BY <1>4 DEF ArmSoftPending
<1>5. CASE RejectLineCoding
  BY <1>5 DEF RejectLineCoding
<1>6. CASE BusReset
  BY <1>6 DEF BusReset
<1>7. CASE MountCb
  BY <1>7 DEF MountCb
<1>8. CASE UmountCb
  BY <1>8 DEF UmountCb
<1>9. CASE CloseStop
  BY <1>9 DEF CloseStop, RequestStop
<1>10. CASE ResetStop
  BY <1>10 DEF ResetStop, RequestStop
<1>11. CASE ResetQuiesce
  BY <1>11 DEF ResetQuiesce
<1>12. CASE ResetHost
  BY <1>12 DEF ResetHost, CancelRequest, ResetSoftPending
<1>13. CASE LeaveTask
  BY <1>13 DEF LeaveTask
<1>14. CASE PollStopPending
  BY <1>14 DEF PollStopPending
<1>15. CASE PollClosed
  BY <1>15 DEF PollClosed
<1>16. CASE PollOpen
  BY <1>16 DEF PollOpen
<1>17. CASE QuiesceBusy
  BY <1>17 DEF QuiesceBusy, FlushOutOnce
<1>18. CASE QuiesceClear
  BY <1>18 DEF QuiesceClear, FlushOutOnce
<1>19. CASE StageInitial
  BY <1>19 DEF StageInitial, ApplyPending, NothingStaged, SoftExpired,
    QueueLineCoding, MailboxBusy
<1>20. CASE RequestStart
  BY <1>20 DEF RequestStart
<1>21. CASE PortIsReady
  BY <1>21 DEF PortIsReady
<1>22. CASE ApplyLive
  BY <1>22 DEF ApplyLive, ApplyPending, NothingStaged, SoftExpired,
    QueueLineCoding, MailboxBusy
<1>23. CASE Admit
  BY <1>23 DEF Admit
<1>24. CASE TxBlockedCheck
  BY <1>24 DEF TxBlockedCheck
<1>25. CASE FillTx
  BY <1>25 DEF FillTx
<1>26. CASE DrainRx
  BY <1>26 DEF DrainRx
<1>27. CASE CompleteStop
  BY <1>27 DEF CompleteStop
<1>28. CASE AcceptStart
  BY <1>28 DEF AcceptStart
<1>29. CASE UNCHANGED vars
  BY <1>29 DEF vars
<1>30. QED BY <1>1, <1>2, <1>3, <1>4, <1>5, <1>6, <1>7, <1>8, <1>9, <1>10,
    <1>11, <1>12, <1>13, <1>14, <1>15, <1>16, <1>17, <1>18, <1>19, <1>20,
    <1>21, <1>22, <1>23, <1>24, <1>25, <1>26, <1>27, <1>28, <1>29
    DEF Next, Host, UsbCore, Worker, Time

(* A stop that is acknowledged: the worker returns to the top of its loop, stops
   the backend and completes the stop. *)
LEMMA QuiescedStopCompletes == Live => (StopQuiesced ~> ~StopPending)
<1>1. LiveInv /\ [Next]_vars /\ StopQuiesced => StopQuiesced' \/ ~StopPending'
  BY StopMoves DEF LiveInv, IInv, TypeOK
<1>2. [Next]_vars /\ StopQuiesced /\ wrkPc = "life"
        => (wrkPc = "life")' \/ (wrkPc = "deinit")'
  BY Program, OnlyProgramMoves DEF LifecycleCheck
<1>3. StopQuiesced /\ wrkPc = "life" /\ <<Worker>>_vars => (wrkPc = "deinit")'
  BY Program DEF LifecycleCheck
<1>4. [Next]_vars /\ wrkPc = "deinit"
        => (wrkPc = "deinit")' \/ (wrkPc = "stopped")'
  BY ProgramStep DEF After, WrkPcs
<1>5. wrkPc = "deinit" /\ <<Worker>>_vars => (wrkPc = "stopped")'
  BY ProgramActs DEF After, WrkPcs
<1>6. [Next]_vars /\ wrkPc = "stopped" => (wrkPc = "stopped")' \/ ~StopPending'
  BY Program, OnlyProgramMoves DEF CompleteStop, StopPending
<1>7. wrkPc = "stopped" /\ <<Worker>>_vars => ~StopPending'
  BY Program DEF CompleteStop, StopPending
<1>8. CoresNeverBlock => ENABLED <<Worker>>_vars
  BY DEF CoresNeverBlock
<1>9. Live
        => (StopQuiesced /\ wrkPc = "life" ~> wrkPc = "deinit" \/ ~StopPending)
  BY <1>1, <1>2, <1>3, <1>8, PTL DEF Live, Fairness, CoreFairness
<1>10. Live => (wrkPc = "deinit" ~> wrkPc = "stopped")
  BY <1>4, <1>5, <1>8, PTL DEF Live, Fairness, CoreFairness
<1>11. Live => (wrkPc = "stopped" ~> ~StopPending)
  BY <1>6, <1>7, <1>8, PTL DEF Live, Fairness, CoreFairness
<1>12. Live
        => (StopQuiesced ~> (StopQuiesced /\ wrkPc = "life") \/ ~StopPending)
  BY <1>1, WorkerLoops, PTL DEF Live
<1>13. QED BY <1>9, <1>10, <1>11, <1>12, PTL

(* The host is quiet, and for ever a stop waits for its acknowledgement. *)
Waiting == Live /\ [][NoRequest]_vars /\ []Unacknowledged

(* It does not wait for ever: the port is polled again and again, and each poll
   asks the IN FIFO to clear. *)
LEMMA StopIsAcknowledged == ~Waiting
<1> DEFINE At(p) == usbPc = p
           Same == gen' = gen /\ mounts' = mounts
<1>1. [NoRequest]_vars => Same
  BY DEF NoRequest, vars, usbVars, lockVars
<1>2. CoresNeverBlock => /\ ~At("task") => ENABLED <<UsbCore>>_vars
                         /\ At("quiesce") => ENABLED <<QuiesceClear>>_vars
  BY DEF CoresNeverBlock
<1>3. LiveInv /\ Unacknowledged /\ CoresNeverBlock => ENABLED <<UsbCore>>_vars
  BY DEF LiveInv, MountInv, Unacknowledged, CoresNeverBlock
<1>4. LiveInv /\ <<UsbCore>>_vars => usbPc' # usbPc
  BY UsbMoves DEF LiveInv, IInv, TypeOK
<1>5. LiveInv /\ Unacknowledged /\ Unacknowledged' /\ [Next]_vars /\ Same =>
        \/ usbPc' = usbPc /\ usbPc \in DOMAIN AcknowledgePath
        \/ usbPc \in DOMAIN AcknowledgePath /\ usbPc' \in AcknowledgePath[usbPc]
  BY AcknowledgeStep
<1>6. Unacknowledged /\ <<QuiesceClear>>_vars => ~Unacknowledged'
  BY DEF QuiesceClear, Unacknowledged, StopPending, StopQuiesced
<1> HIDE DEF Same
<1>7. Waiting => (At("poll") ~> At("quiesce"))
  <2>1. LiveInv /\ Unacknowledged /\ Unacknowledged' /\ [Next]_vars /\ Same
          /\ At("poll")
          => At("poll")' \/ At("quiesce")'
    BY <1>5 DEF AcknowledgePath
  <2>2. LiveInv /\ At("poll") /\ <<UsbCore>>_vars => ~At("poll")'
    BY <1>4
  <2> HIDE DEF At
  <2>3. QED BY <1>1, <1>3, <2>1, <2>2, PTL DEF Waiting, Live, Fairness,
      CoreFairness
<1>8. Waiting => (At("resetQuiesce") ~> At("quiesce"))
  <2>1. LiveInv /\ Unacknowledged /\ Unacknowledged' /\ [Next]_vars /\ Same
          /\ At("resetQuiesce")
          => At("resetQuiesce")' \/ FALSE
    BY <1>5 DEF AcknowledgePath
  <2>2. LiveInv /\ At("resetQuiesce") /\ <<UsbCore>>_vars
          => ~At("resetQuiesce")'
    BY <1>4
  <2> HIDE DEF At
  <2>3. QED BY <1>1, <1>3, <2>1, <2>2, PTL DEF Waiting, Live, Fairness,
      CoreFairness
<1>9. Waiting => (At("reset") ~> At("quiesce"))
  <2>1. LiveInv /\ Unacknowledged /\ Unacknowledged' /\ [Next]_vars /\ Same
          /\ At("reset")
          => At("reset")' \/ At("resetQuiesce")'
    BY <1>5 DEF AcknowledgePath
  <2>2. LiveInv /\ At("reset") /\ <<UsbCore>>_vars => ~At("reset")'
    BY <1>4
  <2> HIDE DEF At
  <2>3. QED BY <1>1, <1>3, <2>1, <2>2, <1>8, PTL DEF Waiting, Live, Fairness,
      CoreFairness
<1>10. Waiting => (At("close") ~> At("quiesce"))
  <2>1. LiveInv /\ Unacknowledged /\ Unacknowledged' /\ [Next]_vars /\ Same
          /\ At("close")
          => At("close")' \/ FALSE
    BY <1>5 DEF AcknowledgePath
  <2>2. LiveInv /\ At("close") /\ <<UsbCore>>_vars => ~At("close")'
    BY <1>4
  <2> HIDE DEF At
  <2>3. QED BY <1>1, <1>3, <2>1, <2>2, PTL DEF Waiting, Live, Fairness,
      CoreFairness
<1>11. Waiting => (At("task") ~> At("quiesce"))
  <2>1. LiveInv /\ Unacknowledged /\ Unacknowledged' /\ [Next]_vars /\ Same
          /\ At("task")
          => At("task")' \/ (At("poll") \/ At("reset") \/ At("close"))'
    BY <1>5 DEF AcknowledgePath
  <2>2. LiveInv /\ At("task") /\ <<UsbCore>>_vars => ~At("task")'
    BY <1>4
  <2> HIDE DEF At
  <2>3. QED BY <1>1, <1>3, <2>1, <2>2, <1>7, <1>9, <1>10, PTL DEF Waiting,
      Live, Fairness, CoreFairness
<1>12. Waiting => (At("resetHost") ~> At("quiesce"))
  <2>1. LiveInv /\ Unacknowledged /\ Unacknowledged' /\ [Next]_vars /\ Same
          /\ At("resetHost")
          => At("resetHost")' \/ At("task")'
    BY <1>5 DEF AcknowledgePath
  <2>2. LiveInv /\ At("resetHost") /\ <<UsbCore>>_vars => ~At("resetHost")'
    BY <1>4
  <2> HIDE DEF At
  <2>3. QED BY <1>1, <1>3, <2>1, <2>2, <1>11, PTL DEF Waiting, Live, Fairness,
      CoreFairness
<1>13. LiveInv /\ Unacknowledged
        => At("quiesce") \/ At("poll") \/ At("resetQuiesce") \/ At("reset")
        \/ At("close") \/ At("task") \/ At("resetHost")
  BY DEF LiveInv, IInv, TypeOK, UsbTypeOK, UsbPcs, UsbCoreInv, Bridging,
      Unacknowledged
<1> HIDE DEF At
<1>14. Waiting => []<>At("quiesce")
  BY <1>7, <1>8, <1>9, <1>10, <1>11, <1>12, <1>13, PTL DEF Waiting, Live
<1>15. QED BY <1>2, <1>6, <1>14, PTL DEF Waiting, Live, Fairness, ClearFairness

(* From any point on a pending stop ends. *)
LEMMA StopsEnd == Live /\ [][NoRequest]_vars => []<>~StopPending
<1>1. Unacknowledged <=> StopPending /\ ~StopQuiesced
  BY DEF Unacknowledged
<1>2. StopQuiesced => StopPending
  BY DEF StopQuiesced, StopPending
<1>3. QED BY <1>1, <1>2, QuiescedStopCompletes, StopIsAcknowledged, LiveStays,
        PTL DEF Waiting

(* A requested stop completes, once the host is quiet. *)
THEOREM StopsComplete ==
  FairSpec /\ []CoresNeverBlock /\ HostSettles => StopCompletes
<1>1. QED BY StopsEnd, FairLive, LiveStays, PTL DEF StopCompletes, HostSettles
-----------------------------------------------------------------------------
(* A request is staged by the host only, and moves from there to the mailbox. *)
LEMMA RequestMoves ==
  ASSUME UsbTypeOK, LockTypeOK, [Next]_vars
  PROVE  /\ ~req.pending /\ req'.pending => gen' # gen
         /\ ~mbox.occupied /\ mbox'.occupied => req.pending /\ ~req'.pending
<1> USE DEF UsbTypeOK, LockTypeOK, NoMail, usbVars, lockVars, wrkVars, beVars,
        history, vars
<1>1. CASE HostByte \/ DtrOpen \/ RejectLineCoding \/ BusReset \/ MountCb \/
               UmountCb \/ CloseStop \/ ResetStop \/ ResetQuiesce \/
               LeaveTask \/ PollStopPending \/ PollClosed \/ PollOpen \/
               QuiesceBusy \/ QuiesceClear \/ RequestStart \/ PortIsReady \/
               Admit \/ TxBlockedCheck \/ FillTx \/ DrainRx \/
               LifecycleCheck \/ Deinit \/ AcceptStart \/ Restart \/
               StartFinish \/ PublishStart \/ NothingToTake \/ MatchInfo \/
               FinishMailboxControl \/ DeferApply \/ CheckPending \/
               ServiceTimeout \/ ServiceWait \/ ServiceApply \/ Applied \/
               ApplyDeferred \/ ApplyTimedOut \/ ApplyKillsBackend \/
               FinishApplied \/ MarkDead \/ FinishDead \/ SkipIo \/ PollIo \/
               WireDrains \/ ApplyDeadlinePasses
  <2>1. UNCHANGED <<mbox, req>>
    BY <1>1 DEF HostByte, DtrOpen, RejectLineCoding, BusReset, MountCb,
      UmountCb, CloseStop, ResetStop, ResetQuiesce, LeaveTask,
      PollStopPending, PollClosed, PollOpen, QuiesceBusy, QuiesceClear,
      RequestStart, PortIsReady, Admit, TxBlockedCheck, FillTx, DrainRx,
      LifecycleCheck, Deinit, AcceptStart, Restart, StartFinish, PublishStart,
      NothingToTake, MatchInfo, FinishMailboxControl, DeferApply,
      CheckPending, ServiceTimeout, ServiceWait, ServiceApply, Applied,
      ApplyDeferred, ApplyTimedOut, ApplyKillsBackend, FinishApplied,
      MarkDead, FinishDead, SkipIo, PollIo, WireDrains, ApplyDeadlinePasses
  <2>2. QED BY <2>1
<1>2. CASE DtrClose
  BY <1>2 DEF DtrClose, CancelRequest, ResetSoftPending
<1>3. CASE (\E f \in Formats : ArmSoftPending(f))
  BY <1>3 DEF ArmSoftPending
<1>4. CASE ResetHost
  BY <1>4 DEF ResetHost, CancelRequest, ResetSoftPending
<1>5. CASE StageInitial
  BY <1>5 DEF StageInitial, ApplyPending, NothingStaged, SoftExpired,
    QueueLineCoding, MailboxBusy
<1>6. CASE ApplyLive
  BY <1>6 DEF ApplyLive, ApplyPending, NothingStaged, SoftExpired,
    QueueLineCoding, MailboxBusy
<1>7. CASE CompleteStop
  BY <1>7 DEF CompleteStop
<1>8. CASE StartTake
  BY <1>8 DEF StartTake
<1>9. CASE TakeMailbox
  BY <1>9 DEF TakeMailbox
<1>10. CASE SoftDeadlinePasses
  BY <1>10 DEF SoftDeadlinePasses
<1>11. CASE UNCHANGED vars
  BY <1>11 DEF vars
<1>12. QED BY <1>1, <1>2, <1>3, <1>4, <1>5, <1>6, <1>7, <1>8, <1>9, <1>10,
    <1>11
    DEF Next, Host, UsbCore, Worker, Time

(* While an apply is deferred its deadline runs; only a newer request sets it
   anew. *)
LEMMA WindowMoves ==
  ASSUME WorkerTypeOK, BoundaryInv, [Next]_vars, pend.pending, pend'.pending,
         wrkPc # "code"
  PROVE  \/ pend'.deadline = pend.deadline
         \/ pend.deadline = "armed" /\ pend'.deadline = "expired"
<1> USE DEF WorkerTypeOK, BoundaryInv, NoPend, usbVars, lockVars, wrkVars,
        beVars, history, vars
<1>1. CASE HostByte \/ DtrClose \/ DtrOpen \/
               (\E f \in Formats : ArmSoftPending(f)) \/ RejectLineCoding \/
               BusReset \/ MountCb \/ UmountCb \/ CloseStop \/ ResetStop \/
               ResetQuiesce \/ ResetHost \/ LeaveTask \/ PollStopPending \/
               PollClosed \/ PollOpen \/ QuiesceBusy \/ QuiesceClear \/
               StageInitial \/ RequestStart \/ PortIsReady \/ ApplyLive \/
               Admit \/ TxBlockedCheck \/ FillTx \/ DrainRx \/
               LifecycleCheck \/ Deinit \/ AcceptStart \/ Restart \/
               PublishStart \/ NothingToTake \/ MatchInfo \/ CheckPending \/
               ServiceWait \/ ServiceApply \/ Applied \/ ApplyDeferred \/
               ApplyKillsBackend \/ MarkDead \/ SkipIo \/ PollIo \/
               WireDrains \/ SoftDeadlinePasses
  <2>1. UNCHANGED <<pend>>
    BY <1>1 DEF HostByte, DtrClose, DtrOpen, ArmSoftPending, RejectLineCoding,
      BusReset, MountCb, UmountCb, CloseStop, ResetStop, ResetQuiesce,
      ResetHost, LeaveTask, PollStopPending, PollClosed, PollOpen,
      QuiesceBusy, QuiesceClear, StageInitial, RequestStart, PortIsReady,
      ApplyLive, Admit, TxBlockedCheck, FillTx, DrainRx, LifecycleCheck,
      Deinit, AcceptStart, Restart, PublishStart, NothingToTake, MatchInfo,
      CheckPending, ServiceWait, ServiceApply, Applied, ApplyDeferred,
      ApplyKillsBackend, MarkDead, SkipIo, PollIo, WireDrains,
      SoftDeadlinePasses
  <2>2. QED BY <2>1
<1>2. CASE CompleteStop
  BY <1>2 DEF CompleteStop
<1>3. CASE StartTake
  BY <1>3 DEF StartTake
<1>4. CASE StartFinish
  BY <1>4 DEF StartFinish, FinishWorkerControl
<1>5. CASE TakeMailbox
  BY <1>5 DEF TakeMailbox
<1>6. CASE FinishMailboxControl
  BY <1>6 DEF FinishMailboxControl
<1>7. CASE DeferApply
  BY <1>7 DEF DeferApply, LineCodingMatches
<1>8. CASE ServiceTimeout
  BY <1>8 DEF ServiceTimeout, FinishWorkerControl
<1>9. CASE ApplyTimedOut
  BY <1>9 DEF ApplyTimedOut, FinishWorkerControl
<1>10. CASE FinishApplied
  BY <1>10 DEF FinishApplied, FinishWorkerControl
<1>11. CASE FinishDead
  BY <1>11 DEF FinishDead, FinishWorkerControl
<1>12. CASE ApplyDeadlinePasses
  BY <1>12 DEF ApplyDeadlinePasses
<1>13. CASE UNCHANGED vars
  BY <1>13 DEF vars
<1>14. QED BY <1>1, <1>2, <1>3, <1>4, <1>5, <1>6, <1>7, <1>8, <1>9, <1>10,
    <1>11, <1>12, <1>13
    DEF Next, Host, UsbCore, Worker, Time

(* The host is quiet, no stop is pending, and for ever an apply is deferred. *)
Deferred == Live /\ [][NoRequest]_vars /\ [](~StopPending) /\ [](pend.pending)

(* It is not deferred for ever: the mailbox is emptied for the last time, then
   the deadline passes, and the worker, which comes round, gives up. *)
LEMMA DeferralEnds == ~Deferred
<1> DEFINE At(p) == wrkPc = p
           Held == pend.pending
           Staged == req.pending
           Mail == mbox.occupied
           Armed == pend.deadline = "armed"
           Expired == pend.deadline = "expired"
           Ready == READY \in flags
           Same == gen' = gen /\ mounts' = mounts
<1>1. CoresNeverBlock => /\ ENABLED <<Worker>>_vars
                         /\ Held /\ Armed
                              => ENABLED <<ApplyDeadlinePasses>>_vars
  BY DEF CoresNeverBlock
<1>2. [NoRequest]_vars => Same
  BY DEF NoRequest, vars, usbVars, lockVars
<1>3. LiveInv /\ Held /\ ~StopPending =>
        /\ ~At("take") /\ ~At("publish") /\ ~At("deinit") /\ ~At("stopped")
        /\ Ready \/ At("restart") \/ At("finish") \/ At("deadFinish")
        /\ Armed \/ Expired \/ At("code") \/ At("match") \/ At("restart")
             \/ At("finish")
  BY DEF LiveInv, IInv, TypeOK, WorkerTypeOK, Deadlines, BoundaryInv,
      WorkerInv, DeadlineInv,
     StopQuiesced, StopPending
<1>4. Deferred => []Held
  BY PTL DEF Deferred
<1>5. Deferred => []~At("finish")
  <2>1. At("finish") /\ Worker => ~Held'
    BY Program DEF StartFinish, FinishWorkerControl, NoPend
  <2>2. [Next]_vars /\ At("finish") => At("finish")' \/ ~Held'
    BY <2>1, OnlyProgramMoves
  <2>3. At("finish") /\ <<Worker>>_vars => ~Held'
    BY <2>1
  <2> HIDE DEF At, Held
  <2>4. QED BY <1>1, <1>4, <2>2, <2>3, PTL DEF Deferred, Live, Fairness,
      CoreFairness
<1>6. Deferred => []~At("match")
  <2>1. At("match") /\ Worker => ~Held'
    BY Program DEF FinishMailboxControl, NoPend
  <2>2. [Next]_vars /\ At("match") => At("match")' \/ ~Held'
    BY <2>1, OnlyProgramMoves
  <2>3. At("match") /\ <<Worker>>_vars => ~Held'
    BY <2>1
  <2> HIDE DEF At, Held
  <2>4. QED BY <1>1, <1>4, <2>2, <2>3, PTL DEF Deferred, Live, Fairness,
      CoreFairness
<1>7. Deferred => []~At("applied")
  <2>1. At("applied") /\ Worker => ~Held'
    BY Program DEF FinishApplied, FinishWorkerControl, NoPend
  <2>2. [Next]_vars /\ At("applied") => At("applied")' \/ ~Held'
    BY <2>1, OnlyProgramMoves
  <2>3. At("applied") /\ <<Worker>>_vars => ~Held'
    BY <2>1
  <2> HIDE DEF At, Held
  <2>4. QED BY <1>1, <1>4, <2>2, <2>3, PTL DEF Deferred, Live, Fairness,
      CoreFairness
<1>8. Deferred => []~At("deadFinish")
  <2>1. At("deadFinish") /\ Worker => ~Held'
    BY Program DEF FinishDead, FinishWorkerControl, NoPend
  <2>2. [Next]_vars /\ At("deadFinish") => At("deadFinish")' \/ ~Held'
    BY <2>1, OnlyProgramMoves
  <2>3. At("deadFinish") /\ <<Worker>>_vars => ~Held'
    BY <2>1
  <2> HIDE DEF At, Held
  <2>4. QED BY <1>1, <1>4, <2>2, <2>3, PTL DEF Deferred, Live, Fairness,
      CoreFairness
<1>9. Deferred => []~At("dead")
  <2>1. [Next]_vars /\ At("dead") => At("dead")' \/ At("deadFinish")'
    BY ProgramStep DEF After, WrkPcs
  <2>2. At("dead") /\ <<Worker>>_vars => At("deadFinish")'
    BY ProgramActs DEF After, WrkPcs
  <2> HIDE DEF At, Held
  <2>3. QED BY <1>1, <1>3, <1>4, <2>1, <2>2, <1>5, <1>6, <1>7, <1>8,
      PTL DEF Deferred, Live, Fairness, CoreFairness
<1>10. Deferred => []~At("restart")
  <2>1. [Next]_vars /\ At("restart")
          => At("restart")' \/ (At("finish") \/ At("publish"))'
    BY ProgramStep DEF After, WrkPcs
  <2>2. At("restart") /\ <<Worker>>_vars => (At("finish") \/ At("publish"))'
    BY ProgramActs DEF After, WrkPcs
  <2> HIDE DEF At, Held
  <2>3. QED BY <1>1, <1>3, <1>4, <2>1, <2>2, <1>5, <1>6, <1>7, <1>8, <1>9,
      PTL DEF Deferred, Live, Fairness, CoreFairness
<1>11. Deferred => <>[]~At("code")
  <2>1. LiveInv /\ [Next]_vars /\ Same /\ ~Staged => ~Staged'
    BY RequestMoves DEF LiveInv, IInv, TypeOK
  <2>2. LiveInv /\ [Next]_vars /\ ~Mail => ~Mail' \/ (Staged /\ ~Staged')
    BY RequestMoves DEF LiveInv, IInv, TypeOK
  <2>3. [Next]_vars /\ ~At("code") => ~At("code")' \/ (Mail /\ ~Mail')
    <3>1. SUFFICES ASSUME [Next]_vars, ~At("code"), wrkPc' = "code"
                   PROVE  Mail /\ ~Mail'
      OBVIOUS
    <3>2. Worker /\ wrkPc = "control"
      BY <3>1, OnlyProgramMoves, ProgramMoves DEF After, WrkPcs
    <3>3. QED BY <3>1, <3>2, Program DEF TakeMailbox, NothingToTake, NoMail
  <2>4. [Next]_vars /\ At("code") => At("code")' \/ (At("match") \/ At("pend"))'
    BY ProgramStep DEF After, WrkPcs
  <2>5. At("code") /\ <<Worker>>_vars => (At("match") \/ At("pend"))'
    BY ProgramActs DEF After, WrkPcs
  <2>6. ~(At("code") /\ (At("match") \/ At("pend")))
    OBVIOUS
  <2> HIDE DEF At, Held, Staged, Mail, Same
  <2>7. QED BY <1>1, <1>2, <2>1, <2>2, <2>3, <2>4, <2>5, <2>6,
      PTL DEF Deferred, Live, Fairness, CoreFairness
<1>12. Deferred => <>[]Expired
  <2>1. LiveInv /\ Held /\ Held' /\ ~At("code") /\ [Next]_vars
          => (Expired => Expired') /\ (Armed => Armed' \/ Expired')
    BY WindowMoves DEF LiveInv, IInv, TypeOK
  <2>2. <<ApplyDeadlinePasses>>_vars => Expired'
    BY DEF ApplyDeadlinePasses
  <2> HIDE DEF At, Held, Armed, Expired, Ready
  <2>3. QED BY <1>1, <1>3, <1>4, <2>1, <2>2, <1>5, <1>6, <1>7, <1>8, <1>9,
      <1>10, <1>11, PTL DEF Deferred, Live, Fairness, TimerFairness
<1>13. Deferred => (At("pend") ~> At("service"))
  <2>1. Held /\ Ready /\ At("pend") /\ Worker => At("service")'
    BY Program DEF CheckPending
  <2>2. Held /\ Ready /\ At("pend") /\ [Next]_vars
          => At("pend")' \/ At("service")'
    BY <2>1, OnlyProgramMoves
  <2>3. Held /\ Ready /\ At("pend") /\ <<Worker>>_vars => At("service")'
    BY <2>1
  <2> HIDE DEF At, Held, Armed, Expired, Ready
  <2>4. QED BY <1>1, <1>3, <1>4, <2>2, <2>3, <1>5, <1>6, <1>7, <1>8, <1>9,
      <1>10, PTL DEF Deferred, Live, Fairness, CoreFairness
<1>14. Deferred => <>[]~At("service")
  <2>1. Expired /\ At("service") /\ Worker => ~Held'
    BY Program DEF ServiceTimeout, ServiceWait, ServiceApply,
        FinishWorkerControl, NoPend
  <2>2. Expired /\ At("service") /\ [Next]_vars => At("service")' \/ ~Held'
    BY <2>1, OnlyProgramMoves
  <2>3. Expired /\ At("service") /\ <<Worker>>_vars => ~Held'
    BY <2>1
  <2> HIDE DEF At, Held, Expired
  <2>4. QED BY <1>1, <1>4, <2>2, <2>3, <1>12, PTL DEF Deferred, Live, Fairness,
      CoreFairness
<1>15. Deferred => (At("control") ~> At("code") \/ At("pend"))
  <2>1. [Next]_vars /\ At("control")
          => At("control")' \/ (At("code") \/ At("pend"))'
    BY ProgramStep DEF After, WrkPcs
  <2>2. At("control") /\ <<Worker>>_vars => (At("code") \/ At("pend"))'
    BY ProgramActs DEF After, WrkPcs
  <2> HIDE DEF At, Held, Armed, Expired, Ready
  <2>3. QED BY <1>1, <1>3, <1>4, <2>1, <2>2, PTL DEF Deferred, Live, Fairness,
      CoreFairness
<1>16. Deferred => (At("start") ~> At("code") \/ At("pend"))
  <2>1. [Next]_vars /\ At("start")
          => At("start")' \/ (At("take") \/ At("control"))'
    BY ProgramStep DEF After, WrkPcs
  <2>2. At("start") /\ <<Worker>>_vars => (At("take") \/ At("control"))'
    BY ProgramActs DEF After, WrkPcs
  <2> HIDE DEF At, Held, Armed, Expired, Ready
  <2>3. QED BY <1>1, <1>3, <1>4, <2>1, <2>2, <1>15, PTL DEF Deferred, Live,
      Fairness, CoreFairness
<1>17. Deferred => (At("life") ~> At("code") \/ At("pend"))
  <2>1. [Next]_vars /\ At("life")
          => At("life")' \/ (At("deinit") \/ At("start") \/ At("control"))'
    BY ProgramStep DEF After, WrkPcs
  <2>2. At("life") /\ <<Worker>>_vars
          => (At("deinit") \/ At("start") \/ At("control"))'
    BY ProgramActs DEF After, WrkPcs
  <2> HIDE DEF At, Held, Armed, Expired, Ready
  <2>3. QED BY <1>1, <1>3, <1>4, <2>1, <2>2, <1>15, <1>16, PTL DEF Deferred,
      Live, Fairness, CoreFairness
<1>18. Deferred => []<>At("life")
  BY WorkerLoops, PTL DEF Deferred
<1> HIDE DEF At, Held, Staged, Mail, Armed, Expired, Ready, Same
<1>19. QED BY <1>18, <1>11, <1>13, <1>14, <1>17, PTL

(* No new stop without a request: once the host is quiet the last stop has
   completed for good. *)
LEMMA StopsStay == Live /\ [][NoRequest]_vars => <>[]~StopPending
<1>1. [NoRequest]_vars => gen' = gen
  BY DEF NoRequest, vars, usbVars, lockVars
<1>2. LiveInv /\ [Next]_vars /\ gen' = gen /\ ~StopPending => ~StopPending'
  BY StopMoves DEF LiveInv, IInv, TypeOK
<1>3. QED BY <1>1, <1>2, StopsEnd, PTL DEF Live

(* A deferred apply is resolved, once the host is quiet. *)
THEOREM AppliesResolve ==
  FairSpec /\ []CoresNeverBlock /\ HostSettles => ApplyResolves
<1> DEFINE Held == pend.pending
<1>1. Deferred <=> Live /\ [][NoRequest]_vars /\ [](~StopPending) /\ []Held
  BY PTL DEF Deferred
<1>2. ApplyResolves <=> (Held ~> ~Held)
  BY PTL DEF ApplyResolves
<1> HIDE DEF Held
<1>3. Live /\ [][NoRequest]_vars => []<>~Held
  BY <1>1, DeferralEnds, StopsStay, LiveStays, PTL DEF Live
<1>4. QED BY <1>2, <1>3, FairLive, LiveStays, PTL DEF HostSettles
-----------------------------------------------------------------------------
(* While a port that is opened has no outcome yet, no stop is pending and the
   host is quiet: where the USB core may go next. *)
OpenPath ==
  [task |-> {"poll", "close"}, poll |-> {"stage", "ready"},
   stage |-> {"task", "start"}, start |-> {"ready"}, ready |-> {"task"},
   quiesce |-> {"task"},
   close |-> {}, reset |-> {}, resetQuiesce |-> {"resetHost"}, resetHost |-> {},
   apply |-> {"admit", "bridge"}, admit |-> {"bridge", "task"},
   bridge |-> {"fill", "drain"}, fill |-> {"drain"}, drain |-> {"task"}]

Unresolved == opened /\ mounted /\ flags \cap {READY, INIT_FAILED} = {}

(* An opened port is polled and asks for its start, or waits for its outcome. *)
LEMMA OpenStep ==
  ASSUME LiveInv, Unresolved, Unresolved', ~StopPending, [Next]_vars,
         gen' = gen, mounts' = mounts
  PROVE  usbPc' = usbPc \/ usbPc' \in OpenPath[usbPc]
<1> USE DEF Unresolved, OpenPath, usbVars, lockVars, wrkVars, beVars, history,
        vars
<1>0. LockTypeOK /\ UsbTypeOK
  BY DEF LiveInv, IInv, TypeOK
<1> USE <1>0 DEF LockTypeOK, UsbTypeOK
<1>1. CASE HostByte \/ LifecycleCheck \/ Deinit \/ CompleteStop \/
               AcceptStart \/ StartTake \/ Restart \/ StartFinish \/
               PublishStart \/ TakeMailbox \/ NothingToTake \/ MatchInfo \/
               FinishMailboxControl \/ DeferApply \/ CheckPending \/
               ServiceTimeout \/ ServiceWait \/ ServiceApply \/ Applied \/
               ApplyDeferred \/ ApplyTimedOut \/ ApplyKillsBackend \/
               FinishApplied \/ MarkDead \/ FinishDead \/ SkipIo \/ PollIo \/
               WireDrains \/ SoftDeadlinePasses \/ ApplyDeadlinePasses
  <2>1. UNCHANGED <<gen, mounted, mounts, opened, usbPc>>
    BY <1>1 DEF HostByte, LifecycleCheck, Deinit, CompleteStop, AcceptStart,
      StartTake, Restart, StartFinish, PublishStart, TakeMailbox,
      NothingToTake, MatchInfo, FinishMailboxControl, DeferApply,
      CheckPending, ServiceTimeout, ServiceWait, ServiceApply, Applied,
      ApplyDeferred, ApplyTimedOut, ApplyKillsBackend, FinishApplied,
      MarkDead, FinishDead, SkipIo, PollIo, WireDrains, SoftDeadlinePasses,
      ApplyDeadlinePasses
  <2>2. QED BY <2>1
<1>2. CASE DtrClose
  BY <1>2 DEF DtrClose, CancelRequest, ResetSoftPending
<1>3. CASE DtrOpen
  BY <1>3 DEF DtrOpen
<1>4. CASE (\E f \in Formats : ArmSoftPending(f))
  BY <1>4 DEF ArmSoftPending
<1>5. CASE RejectLineCoding
  BY <1>5 DEF RejectLineCoding
<1>6. CASE BusReset
  BY <1>6 DEF BusReset
<1>7. CASE MountCb
  BY <1>7 DEF MountCb
<1>8. CASE UmountCb
  BY <1>8 DEF UmountCb
<1>9. CASE CloseStop
  BY <1>9 DEF CloseStop, RequestStop
<1>10. CASE ResetStop
  BY <1>10 DEF ResetStop, RequestStop
<1>11. CASE ResetQuiesce
  BY <1>11 DEF ResetQuiesce
<1>12. CASE ResetHost
  BY <1>12 DEF ResetHost, CancelRequest, ResetSoftPending
<1>13. CASE LeaveTask
  BY <1>13 DEF LeaveTask
<1>14. CASE PollStopPending
  BY <1>14 DEF PollStopPending
<1>15. CASE PollClosed
  BY <1>15 DEF PollClosed
<1>16. CASE PollOpen
  BY <1>16 DEF PollOpen
<1>17. CASE QuiesceBusy
  BY <1>17 DEF QuiesceBusy, FlushOutOnce
<1>18. CASE QuiesceClear
  BY <1>18 DEF QuiesceClear, FlushOutOnce
<1>19. CASE StageInitial
  BY <1>19 DEF StageInitial, ApplyPending, NothingStaged, SoftExpired,
    QueueLineCoding, MailboxBusy
<1>20. CASE RequestStart
  BY <1>20 DEF RequestStart
<1>21. CASE PortIsReady
  BY <1>21 DEF PortIsReady
<1>22. CASE ApplyLive
  BY <1>22 DEF ApplyLive, ApplyPending, NothingStaged, SoftExpired,
    QueueLineCoding, MailboxBusy
<1>23. CASE Admit
  BY <1>23 DEF Admit
<1>24. CASE TxBlockedCheck
  BY <1>24 DEF TxBlockedCheck
<1>25. CASE FillTx
  BY <1>25 DEF FillTx
<1>26. CASE DrainRx
  BY <1>26 DEF DrainRx
<1>27. CASE UNCHANGED vars
  BY <1>27 DEF vars
<1>28. QED BY <1>1, <1>2, <1>3, <1>4, <1>5, <1>6, <1>7, <1>8, <1>9, <1>10,
    <1>11, <1>12, <1>13, <1>14, <1>15, <1>16, <1>17, <1>18, <1>19, <1>20,
    <1>21, <1>22, <1>23, <1>24, <1>25, <1>26, <1>27
    DEF Next, Host, UsbCore, Worker, Time

(* A port asks for its start once. *)
LEMMA AskingStep ==
  ASSUME admission # "START_PENDING", opened, opened', [Next]_vars
  PROVE  admission' # "START_PENDING" \/ usbPc' = "close"
<1> USE DEF usbVars, lockVars, wrkVars, beVars, history, vars
<1>1. CASE HostByte \/ (\E f \in Formats : ArmSoftPending(f)) \/
               RejectLineCoding \/ BusReset \/ MountCb \/ UmountCb \/
               CloseStop \/ ResetStop \/ ResetQuiesce \/ LeaveTask \/
               PollStopPending \/ PollClosed \/ PollOpen \/ QuiesceBusy \/
               QuiesceClear \/ StageInitial \/ PortIsReady \/ ApplyLive \/
               TxBlockedCheck \/ FillTx \/ DrainRx \/ LifecycleCheck \/
               Deinit \/ CompleteStop \/ AcceptStart \/ StartTake \/
               Restart \/ StartFinish \/ PublishStart \/ TakeMailbox \/
               NothingToTake \/ MatchInfo \/ FinishMailboxControl \/
               DeferApply \/ CheckPending \/ ServiceTimeout \/ ServiceWait \/
               ServiceApply \/ Applied \/ ApplyDeferred \/ ApplyTimedOut \/
               ApplyKillsBackend \/ FinishApplied \/ MarkDead \/ FinishDead \/
               SkipIo \/ PollIo \/ WireDrains \/ SoftDeadlinePasses \/
               ApplyDeadlinePasses
  <2>1. UNCHANGED <<admission>>
    BY <1>1 DEF HostByte, ArmSoftPending, RejectLineCoding, BusReset, MountCb,
      UmountCb, CloseStop, ResetStop, ResetQuiesce, LeaveTask,
      PollStopPending, PollClosed, PollOpen, QuiesceBusy, QuiesceClear,
      StageInitial, PortIsReady, ApplyLive, TxBlockedCheck, FillTx, DrainRx,
      LifecycleCheck, Deinit, CompleteStop, AcceptStart, StartTake, Restart,
      StartFinish, PublishStart, TakeMailbox, NothingToTake, MatchInfo,
      FinishMailboxControl, DeferApply, CheckPending, ServiceTimeout,
      ServiceWait, ServiceApply, Applied, ApplyDeferred, ApplyTimedOut,
      ApplyKillsBackend, FinishApplied, MarkDead, FinishDead, SkipIo, PollIo,
      WireDrains, SoftDeadlinePasses, ApplyDeadlinePasses
  <2>2. QED BY <2>1
<1>2. CASE DtrClose
  BY <1>2 DEF DtrClose, CancelRequest, ResetSoftPending
<1>3. CASE DtrOpen
  BY <1>3 DEF DtrOpen
<1>4. CASE ResetHost
  BY <1>4 DEF ResetHost, CancelRequest, ResetSoftPending
<1>5. CASE RequestStart
  BY <1>5 DEF RequestStart
<1>6. CASE Admit
  BY <1>6 DEF Admit
<1>7. CASE UNCHANGED vars
  BY <1>7 DEF vars
<1>8. QED BY <1>1, <1>2, <1>3, <1>4, <1>5, <1>6, <1>7
    DEF Next, Host, UsbCore, Worker, Time

(* Only the USB core queues a start. *)
LEMMA QueueStep ==
  ASSUME "start_pending" \notin lifecycle, [Next]_vars
  PROVE  "start_pending" \notin lifecycle' \/ usbPc = "start"
<1> USE DEF usbVars, lockVars, wrkVars, beVars, history, vars
<1>1. CASE HostByte \/ DtrClose \/ DtrOpen \/
               (\E f \in Formats : ArmSoftPending(f)) \/ RejectLineCoding \/
               BusReset \/ MountCb \/ UmountCb \/ ResetHost \/ LeaveTask \/
               PollStopPending \/ PollClosed \/ PollOpen \/ QuiesceBusy \/
               StageInitial \/ PortIsReady \/ ApplyLive \/ Admit \/
               TxBlockedCheck \/ FillTx \/ DrainRx \/ LifecycleCheck \/
               Deinit \/ StartTake \/ Restart \/ StartFinish \/
               PublishStart \/ TakeMailbox \/ NothingToTake \/ MatchInfo \/
               FinishMailboxControl \/ DeferApply \/ CheckPending \/
               ServiceTimeout \/ ServiceWait \/ ServiceApply \/ Applied \/
               ApplyDeferred \/ ApplyTimedOut \/ ApplyKillsBackend \/
               FinishApplied \/ MarkDead \/ FinishDead \/ SkipIo \/ PollIo \/
               WireDrains \/ SoftDeadlinePasses \/ ApplyDeadlinePasses
  <2>1. UNCHANGED <<lifecycle>>
    BY <1>1 DEF HostByte, DtrClose, DtrOpen, ArmSoftPending, RejectLineCoding,
      BusReset, MountCb, UmountCb, ResetHost, LeaveTask, PollStopPending,
      PollClosed, PollOpen, QuiesceBusy, StageInitial, PortIsReady, ApplyLive,
      Admit, TxBlockedCheck, FillTx, DrainRx, LifecycleCheck, Deinit,
      StartTake, Restart, StartFinish, PublishStart, TakeMailbox,
      NothingToTake, MatchInfo, FinishMailboxControl, DeferApply,
      CheckPending, ServiceTimeout, ServiceWait, ServiceApply, Applied,
      ApplyDeferred, ApplyTimedOut, ApplyKillsBackend, FinishApplied,
      MarkDead, FinishDead, SkipIo, PollIo, WireDrains, SoftDeadlinePasses,
      ApplyDeadlinePasses
  <2>2. QED BY <2>1
<1>2. CASE CloseStop
  BY <1>2 DEF CloseStop, RequestStop
<1>3. CASE ResetStop
  BY <1>3 DEF ResetStop, RequestStop
<1>4. CASE ResetQuiesce
  BY <1>4 DEF ResetQuiesce
<1>5. CASE QuiesceClear
  BY <1>5 DEF QuiesceClear, FlushOutOnce
<1>6. CASE RequestStart
  BY <1>6 DEF RequestStart
<1>7. CASE CompleteStop
  BY <1>7 DEF CompleteStop
<1>8. CASE AcceptStart
  BY <1>8 DEF AcceptStart
<1>9. CASE UNCHANGED vars
  BY <1>9 DEF vars
<1>10. QED BY <1>1, <1>2, <1>3, <1>4, <1>5, <1>6, <1>7, <1>8, <1>9
    DEF Next, Host, UsbCore, Worker, Time

(* Before the start is asked for, a staged request stays and its window runs. *)
LEMMA StagedStep ==
  ASSUME UsbTypeOK, LockTypeOK, AdmissionInv, [Next]_vars, gen' = gen,
         req.pending, req.deadline # "nil", admission = "START_PENDING", opened'
  PROVE  \/ usbPc' \in {"start", "close"}
         \/ /\ req'.pending
            /\ \/ req'.deadline = req.deadline
               \/ req.deadline = "armed" /\ req'.deadline = "expired"
<1> USE DEF UsbTypeOK, LockTypeOK, AdmissionInv, usbVars, lockVars, wrkVars,
        beVars, history, vars
<1>1. CASE HostByte \/ DtrOpen \/ RejectLineCoding \/ BusReset \/
               LifecycleCheck \/ Deinit \/ CompleteStop \/ AcceptStart \/
               StartTake \/ Restart \/ StartFinish \/ PublishStart \/
               TakeMailbox \/ NothingToTake \/ MatchInfo \/
               FinishMailboxControl \/ DeferApply \/ CheckPending \/
               ServiceTimeout \/ ServiceWait \/ ServiceApply \/ Applied \/
               ApplyDeferred \/ ApplyTimedOut \/ ApplyKillsBackend \/
               FinishApplied \/ MarkDead \/ FinishDead \/ SkipIo \/ PollIo \/
               WireDrains \/ ApplyDeadlinePasses
  <2>1. UNCHANGED <<req, usbPc>>
    BY <1>1 DEF HostByte, DtrOpen, RejectLineCoding, BusReset, LifecycleCheck,
      Deinit, CompleteStop, AcceptStart, StartTake, Restart, StartFinish,
      PublishStart, TakeMailbox, NothingToTake, MatchInfo,
      FinishMailboxControl, DeferApply, CheckPending, ServiceTimeout,
      ServiceWait, ServiceApply, Applied, ApplyDeferred, ApplyTimedOut,
      ApplyKillsBackend, FinishApplied, MarkDead, FinishDead, SkipIo, PollIo,
      WireDrains, ApplyDeadlinePasses
  <2>2. QED BY <2>1
<1>2. CASE DtrClose
  BY <1>2 DEF DtrClose, CancelRequest, ResetSoftPending
<1>3. CASE (\E f \in Formats : ArmSoftPending(f))
  BY <1>3 DEF ArmSoftPending
<1>4. CASE MountCb
  BY <1>4 DEF MountCb
<1>5. CASE UmountCb
  BY <1>5 DEF UmountCb
<1>6. CASE CloseStop
  BY <1>6 DEF CloseStop, RequestStop
<1>7. CASE ResetStop
  BY <1>7 DEF ResetStop, RequestStop
<1>8. CASE ResetQuiesce
  BY <1>8 DEF ResetQuiesce
<1>9. CASE ResetHost
  BY <1>9 DEF ResetHost, CancelRequest, ResetSoftPending
<1>10. CASE LeaveTask
  BY <1>10 DEF LeaveTask
<1>11. CASE PollStopPending
  BY <1>11 DEF PollStopPending
<1>12. CASE PollClosed
  BY <1>12 DEF PollClosed
<1>13. CASE PollOpen
  BY <1>13 DEF PollOpen
<1>14. CASE QuiesceBusy
  BY <1>14 DEF QuiesceBusy, FlushOutOnce
<1>15. CASE QuiesceClear
  BY <1>15 DEF QuiesceClear, FlushOutOnce
<1>16. CASE StageInitial
  BY <1>16 DEF StageInitial, ApplyPending, NothingStaged, SoftExpired,
    QueueLineCoding, MailboxBusy
<1>17. CASE RequestStart
  BY <1>17 DEF RequestStart
<1>18. CASE PortIsReady
  BY <1>18 DEF PortIsReady
<1>19. CASE ApplyLive
  BY <1>19 DEF ApplyLive, ApplyPending, NothingStaged, SoftExpired,
    QueueLineCoding, MailboxBusy
<1>20. CASE Admit
  BY <1>20 DEF Admit
<1>21. CASE TxBlockedCheck
  BY <1>21 DEF TxBlockedCheck
<1>22. CASE FillTx
  BY <1>22 DEF FillTx
<1>23. CASE DrainRx
  BY <1>23 DEF DrainRx
<1>24. CASE SoftDeadlinePasses
  BY <1>24 DEF SoftDeadlinePasses
<1>25. CASE UNCHANGED vars
  BY <1>25 DEF vars
<1>26. QED BY <1>1, <1>2, <1>3, <1>4, <1>5, <1>6, <1>7, <1>8, <1>9, <1>10,
    <1>11, <1>12, <1>13, <1>14, <1>15, <1>16, <1>17, <1>18, <1>19, <1>20,
    <1>21, <1>22, <1>23, <1>24, <1>25
    DEF Next, Host, UsbCore, Worker, Time

(* The USB core asks for the start unless a request is staged, the mailbox is
   occupied and the window of the request is open. *)
LEMMA StageMoves ==
  ASSUME UsbTypeOK, UsbCore, usbPc = "stage"
  PROVE  \/ usbPc' = "start"
         \/ req'.pending /\ req.deadline # "expired" /\ req'.deadline # "nil"
<1> USE DEF UsbTypeOK
<1>1. CASE CloseStop
  BY <1>1 DEF CloseStop
<1>2. CASE ResetStop
  BY <1>2 DEF ResetStop
<1>3. CASE ResetQuiesce
  BY <1>3 DEF ResetQuiesce
<1>4. CASE ResetHost
  BY <1>4 DEF ResetHost
<1>5. CASE LeaveTask
  BY <1>5 DEF LeaveTask
<1>6. CASE PollStopPending
  BY <1>6 DEF PollStopPending
<1>7. CASE PollClosed
  BY <1>7 DEF PollClosed
<1>8. CASE PollOpen
  BY <1>8 DEF PollOpen
<1>9. CASE QuiesceBusy
  BY <1>9 DEF QuiesceBusy
<1>10. CASE QuiesceClear
  BY <1>10 DEF QuiesceClear
<1>11. CASE StageInitial
  BY <1>11 DEF StageInitial, ApplyPending, NothingStaged, SoftExpired,
    QueueLineCoding, MailboxBusy
<1>12. CASE RequestStart
  BY <1>12 DEF RequestStart
<1>13. CASE PortIsReady
  BY <1>13 DEF PortIsReady
<1>14. CASE ApplyLive
  BY <1>14 DEF ApplyLive
<1>15. CASE Admit
  BY <1>15 DEF Admit
<1>16. CASE TxBlockedCheck
  BY <1>16 DEF TxBlockedCheck
<1>17. CASE FillTx
  BY <1>17 DEF FillTx
<1>18. CASE DrainRx
  BY <1>18 DEF DrainRx
<1>19. QED BY <1>1, <1>2, <1>3, <1>4, <1>5, <1>6, <1>7, <1>8, <1>9, <1>10,
    <1>11, <1>12, <1>13, <1>14, <1>15, <1>16, <1>17, <1>18 DEF UsbCore
(* The host is quiet, no stop is pending, and for ever an opened port has no
   outcome. *)
Opening == Live /\ [][NoRequest]_vars /\ [](~StopPending) /\ []Unresolved

LEMMA UsbCoreRuns ==
  /\ LiveInv /\ Unresolved /\ CoresNeverBlock => ENABLED <<UsbCore>>_vars
  /\ LiveInv /\ <<UsbCore>>_vars => usbPc' # usbPc
  /\ [NoRequest]_vars => gen' = gen /\ mounts' = mounts
  /\ [NoRequest]_vars /\ LiveInv /\ Unresolved /\ Unresolved' /\ ~StopPending
       /\ [Next]_vars
       => usbPc' = usbPc \/ usbPc' \in OpenPath[usbPc]
<1>1. [NoRequest]_vars => gen' = gen /\ mounts' = mounts
  BY DEF NoRequest, vars, usbVars, lockVars
<1>2. LiveInv /\ Unresolved /\ CoresNeverBlock => ENABLED <<UsbCore>>_vars
  BY DEF Unresolved, CoresNeverBlock
<1>3. LiveInv /\ <<UsbCore>>_vars => usbPc' # usbPc
  BY UsbMoves DEF LiveInv, IInv, TypeOK
<1>4. QED BY <1>1, <1>2, <1>3, OpenStep

(* Neither a close nor a reset is half done. *)
LEMMA NoReset == Opening => []~(usbPc \in Resetting \cup {"close"})
<1> DEFINE At(p) == usbPc = p
<1>1. Opening => []~At("close")
  <2>1. LiveInv /\ Unresolved /\ Unresolved' /\ ~StopPending /\ [Next]_vars
          /\ [NoRequest]_vars
          /\ At("close") => At("close")' \/ FALSE
    BY UsbCoreRuns DEF OpenPath
  <2>2. LiveInv /\ At("close") /\ <<UsbCore>>_vars => ~At("close")'
    BY UsbCoreRuns
  <2> HIDE DEF At
  <2>3. QED BY UsbCoreRuns, <2>1, <2>2, PTL DEF Opening, Live, Fairness,
      CoreFairness
<1>2. Opening => []~At("reset")
  <2>1. LiveInv /\ Unresolved /\ Unresolved' /\ ~StopPending /\ [Next]_vars
          /\ [NoRequest]_vars
          /\ At("reset") => At("reset")' \/ FALSE
    BY UsbCoreRuns DEF OpenPath
  <2>2. LiveInv /\ At("reset") /\ <<UsbCore>>_vars => ~At("reset")'
    BY UsbCoreRuns
  <2> HIDE DEF At
  <2>3. QED BY UsbCoreRuns, <2>1, <2>2, PTL DEF Opening, Live, Fairness,
      CoreFairness
<1>3. Opening => []~At("resetHost")
  <2>1. LiveInv /\ Unresolved /\ Unresolved' /\ ~StopPending /\ [Next]_vars
          /\ [NoRequest]_vars
          /\ At("resetHost") => At("resetHost")' \/ FALSE
    BY UsbCoreRuns DEF OpenPath
  <2>2. LiveInv /\ At("resetHost") /\ <<UsbCore>>_vars => ~At("resetHost")'
    BY UsbCoreRuns
  <2> HIDE DEF At
  <2>3. QED BY UsbCoreRuns, <2>1, <2>2, PTL DEF Opening, Live, Fairness,
      CoreFairness
<1>4. Opening => []~At("resetQuiesce")
  <2>1. LiveInv /\ Unresolved /\ Unresolved' /\ ~StopPending /\ [Next]_vars
          /\ [NoRequest]_vars
          /\ At("resetQuiesce") => At("resetQuiesce")' \/ At("resetHost")'
    BY UsbCoreRuns DEF OpenPath
  <2>2. LiveInv /\ At("resetQuiesce") /\ <<UsbCore>>_vars
          => ~At("resetQuiesce")'
    BY UsbCoreRuns
  <2> HIDE DEF At
  <2>3. QED BY UsbCoreRuns, <2>1, <2>2, <1>3, PTL DEF Opening, Live, Fairness,
      CoreFairness
<1>5. usbPc \in Resetting \cup {"close"}
        <=> At("close") \/ At("reset") \/ At("resetHost") \/ At("resetQuiesce")
  BY DEF Resetting
<1> HIDE DEF At
<1>6. QED BY <1>1, <1>2, <1>3, <1>4, <1>5, PTL

(* Away from tud_task only the USB core moves the USB core. *)
LEMMA OnlyUsbMoves ==
  ASSUME [Next]_vars, ~UsbCore, usbPc # "task"
  PROVE  usbPc' = usbPc
<1> USE DEF usbVars, lockVars, wrkVars, beVars, history, vars
<1>1. CASE HostByte \/ DtrClose \/ DtrOpen \/
               (\E f \in Formats : ArmSoftPending(f)) \/ RejectLineCoding \/
               BusReset \/ MountCb \/ UmountCb \/ LifecycleCheck \/ Deinit \/
               CompleteStop \/ AcceptStart \/ StartTake \/ Restart \/
               StartFinish \/ PublishStart \/ TakeMailbox \/ NothingToTake \/
               MatchInfo \/ FinishMailboxControl \/ DeferApply \/
               CheckPending \/ ServiceTimeout \/ ServiceWait \/
               ServiceApply \/ Applied \/ ApplyDeferred \/ ApplyTimedOut \/
               ApplyKillsBackend \/ FinishApplied \/ MarkDead \/ FinishDead \/
               SkipIo \/ PollIo \/ WireDrains \/ SoftDeadlinePasses \/
               ApplyDeadlinePasses
  BY <1>1 DEF HostByte, DtrClose, DtrOpen, ArmSoftPending, RejectLineCoding,
    BusReset, MountCb, UmountCb, LifecycleCheck, Deinit, CompleteStop,
    AcceptStart, StartTake, Restart, StartFinish, PublishStart, TakeMailbox,
    NothingToTake, MatchInfo, FinishMailboxControl, DeferApply, CheckPending,
    ServiceTimeout, ServiceWait, ServiceApply, Applied, ApplyDeferred,
    ApplyTimedOut, ApplyKillsBackend, FinishApplied, MarkDead, FinishDead,
    SkipIo, PollIo, WireDrains, SoftDeadlinePasses, ApplyDeadlinePasses
<1>2. CASE UNCHANGED vars
  BY <1>2 DEF vars
<1>3. QED BY <1>1, <1>2 DEF Next, Host, UsbCore, Worker, Time

(* A port that was opened asks for its start: it is polled again and again, and
   a staged request that finds no room in the mailbox ends with its window. *)
LEMMA StartIsAsked == Opening => <>[](admission # "START_PENDING")
<1> DEFINE At(p) == usbPc = p
           Asks == admission = "START_PENDING"
           Window == req.pending /\ req.deadline # "nil"
           Armed == req.deadline = "armed"
           Expired == req.deadline = "expired"
           InReset == usbPc \in Resetting \cup {"close"}
           Asking == Opening /\ []Asks
<1>1. Opening => []~InReset
  BY NoReset, PTL
<1>2. LiveInv /\ Unresolved /\ Unresolved' /\ [Next]_vars /\ ~Asks
        => ~Asks' \/ InReset'
  BY AskingStep DEF Unresolved
<1>3. LiveInv /\ Asks => /\ ~At("ready")
                       /\ \/ At("task") \/ At("poll") \/ At("stage")
                            \/ At("start")
                          \/ At("quiesce") \/ InReset
  BY DEF LiveInv, IInv, TypeOK, UsbTypeOK, UsbPcs, AdmissionInv, Bridging,
      Resetting
<1>4. LiveInv /\ Window => Armed \/ Expired
  BY DEF LiveInv, IInv, TypeOK, UsbTypeOK, Deadlines
<1>5. CoresNeverBlock /\ Window /\ Armed => ENABLED <<SoftDeadlinePasses>>_vars
  BY DEF CoresNeverBlock
<1>6. Asking => []~At("start")
  <2>1. LiveInv /\ Unresolved /\ Unresolved' /\ ~StopPending /\ [Next]_vars
          /\ [NoRequest]_vars
          /\ At("start") => At("start")' \/ At("ready")'
    BY UsbCoreRuns DEF OpenPath
  <2>2. LiveInv /\ At("start") /\ <<UsbCore>>_vars => ~At("start")'
    BY UsbCoreRuns
  <2> HIDE DEF At, Asks, Window, Armed, Expired, InReset
  <2>3. QED BY UsbCoreRuns, <1>1, <1>3, <2>1, <2>2, PTL DEF Asking, Opening,
      Live, Fairness, CoreFairness
<1>7. Asking => (At("poll") ~> At("stage"))
  <2>1. LiveInv /\ Unresolved /\ Unresolved' /\ ~StopPending /\ [Next]_vars
          /\ [NoRequest]_vars
          /\ At("poll") => At("poll")' \/ (At("stage") \/ At("ready"))'
    BY UsbCoreRuns DEF OpenPath
  <2>2. LiveInv /\ At("poll") /\ <<UsbCore>>_vars => ~At("poll")'
    BY UsbCoreRuns
  <2> HIDE DEF At, Asks, Window, Armed, Expired, InReset
  <2>3. QED BY UsbCoreRuns, <1>1, <1>3, <2>1, <2>2, PTL DEF Asking, Opening,
      Live, Fairness, CoreFairness
<1>8. Asking => (At("task") ~> At("stage"))
  <2>1. LiveInv /\ Unresolved /\ Unresolved' /\ ~StopPending /\ [Next]_vars
          /\ [NoRequest]_vars
          /\ At("task") => At("task")' \/ (At("poll") \/ InReset)'
    BY UsbCoreRuns DEF OpenPath, Resetting
  <2>2. LiveInv /\ At("task") /\ <<UsbCore>>_vars => ~At("task")'
    BY UsbCoreRuns
  <2> HIDE DEF At, Asks, Window, Armed, Expired, InReset
  <2>3. QED BY UsbCoreRuns, <1>1, <1>3, <1>7, <2>1, <2>2, PTL DEF Asking,
      Opening, Live, Fairness, CoreFairness
<1>9. Asking => (At("quiesce") ~> At("stage"))
  <2>1. LiveInv /\ Unresolved /\ Unresolved' /\ ~StopPending /\ [Next]_vars
          /\ [NoRequest]_vars
          /\ At("quiesce") => At("quiesce")' \/ At("task")'
    BY UsbCoreRuns DEF OpenPath
  <2>2. LiveInv /\ At("quiesce") /\ <<UsbCore>>_vars => ~At("quiesce")'
    BY UsbCoreRuns
  <2> HIDE DEF At, Asks, Window, Armed, Expired, InReset
  <2>3. QED BY UsbCoreRuns, <1>1, <1>3, <1>8, <2>1, <2>2, PTL DEF Asking,
      Opening, Live, Fairness, CoreFairness
<1>10. Asking => []<>At("stage")
  <2> HIDE DEF At, Asks, Window, Armed, Expired, InReset
  <2>1. QED BY <1>1, <1>3, <1>6, <1>7, <1>8, <1>9, PTL DEF Asking, Opening, Live
<1>11. LiveInv /\ At("stage") /\ UsbCore
        => At("start")' \/ (~Expired /\ Window')
  BY StageMoves DEF LiveInv, IInv, TypeOK
<1>12. LiveInv /\ At("stage") /\ [Next]_vars
        => At("stage")' \/ At("start")' \/ (~Expired /\ Window')
  BY <1>11, OnlyUsbMoves
<1>13. LiveInv /\ Unresolved' /\ Asks /\ [Next]_vars /\ [NoRequest]_vars
        /\ Window
         => \/ At("start")' \/ InReset'
            \/ Window' /\ (Expired => Expired') /\ (Armed => Armed' \/ Expired')
  BY StagedStep, UsbCoreRuns DEF LiveInv, IInv, TypeOK, Unresolved
<1>14. <<SoftDeadlinePasses>>_vars => Expired'
  BY DEF SoftDeadlinePasses
<1>15. LiveInv /\ At("stage") /\ <<UsbCore>>_vars => ~At("stage")'
  BY UsbCoreRuns
<1>16. Asking => <>[]Window
  <2> HIDE DEF At, Asks, Window, Armed, Expired, InReset
  <2>1. QED BY UsbCoreRuns, <1>1, <1>6, <1>10, <1>12, <1>13, <1>15,
      PTL DEF Asking, Opening, Live, Fairness, CoreFairness
<1>17. Asking => <>[]Expired
  <2> HIDE DEF At, Asks, Window, Armed, Expired, InReset
  <2>1. QED BY <1>1, <1>4, <1>5, <1>6, <1>13, <1>14, <1>16, PTL DEF Asking,
      Opening, Live, Fairness, TimerFairness
<1>18. ~Asking
  <2> HIDE DEF At, Asks, Window, Armed, Expired, InReset
  <2>1. QED BY UsbCoreRuns, <1>6, <1>10, <1>12, <1>15, <1>17, PTL DEF Asking,
      Opening, Live, Fairness, CoreFairness
<1>19. Asks <=> ~(admission # "START_PENDING")
  OBVIOUS
<1> HIDE DEF At, Asks, Window, Armed, Expired, InReset
<1>20. QED BY <1>1, <1>2, <1>18, <1>19, PTL DEF Asking, Opening, Live

(* A start that was asked for ends: the worker takes it and publishes its
   outcome. *)
LEMMA OpeningEnds == ~Opening
<1> DEFINE Asked == admission # "START_PENDING"
           Queued == "start_pending" \in lifecycle
           Top == wrkPc = "life"
           AtStart == wrkPc = "start"
           Busy == wrkPc \in Starting
           InReset == usbPc \in Resetting \cup {"close"}
<1>1. Opening => []~InReset
  BY NoReset, PTL
<1>2. Opening => <>[]Asked
  BY StartIsAsked, PTL
<1>3. Opening => []<>Top
  BY WorkerLoops, PTL DEF Opening
<1>4. LiveInv /\ Unresolved /\ ~StopPending /\ ~InReset /\ Asked
        => Queued \/ Busy
  BY DEF LiveInv, AdmissionInv, Unresolved, Resetting
<1>5. LiveInv /\ Asked /\ [Next]_vars /\ ~Queued => ~Queued'
  BY QueueStep DEF LiveInv, IInv, UsbCoreInv
<1>6. ~StopPending /\ Queued /\ Top /\ Worker => AtStart'
  BY Program DEF LifecycleCheck, StopQuiesced, StopPending
<1>7. ~StopPending /\ Queued /\ AtStart /\ Worker => ~Queued'
  BY Program DEF AcceptStart
<1>8. ~StopPending /\ Queued /\ Top /\ [Next]_vars => Top' \/ AtStart'
  BY <1>6, OnlyProgramMoves
<1>9. ~StopPending /\ Queued /\ AtStart /\ [Next]_vars => AtStart' \/ ~Queued'
  BY <1>7, OnlyProgramMoves
<1>10. ~StopPending /\ Queued /\ Top /\ <<Worker>>_vars => AtStart'
  BY <1>6
<1>11. ~StopPending /\ Queued /\ AtStart /\ <<Worker>>_vars => ~Queued'
  BY <1>7
<1>12. ~(Top /\ Busy)
  BY DEF Starting
<1>13. CoresNeverBlock => ENABLED <<Worker>>_vars
  BY DEF CoresNeverBlock
<1> HIDE DEF Asked, Queued, Top, AtStart, Busy, InReset
<1>14. Opening => []<>(~Queued)
  BY <1>3, <1>8, <1>9, <1>10, <1>11, <1>13, PTL DEF Opening, Live, Fairness,
      CoreFairness
<1>15. Opening => <>[](~Queued)
  BY <1>2, <1>5, <1>14, PTL DEF Opening, Live
<1>16. QED BY <1>1, <1>2, <1>3, <1>4, <1>12, <1>15, PTL DEF Opening, Live

(* An opened port becomes ready or reports a failure, once the host is quiet. *)
THEOREM OpensResolve ==
  FairSpec /\ []CoresNeverBlock /\ HostSettles => OpenResolves
<1> DEFINE Open == opened /\ mounted
           Resolved == flags \cap {READY, INIT_FAILED} # {} \/ ~opened
                \/ ~mounted
<1>1. OpenResolves <=> (Open ~> Resolved)
  BY PTL DEF OpenResolves
<1>2. Unresolved <=> ~Resolved
  BY DEF Unresolved
<1> HIDE DEF Open, Resolved
<1>3. Live /\ [][NoRequest]_vars => []<>Resolved
  BY <1>2, OpeningEnds, StopsStay, LiveStays, PTL DEF Opening, Live
<1>4. QED BY <1>1, <1>3, FairLive, LiveStays, PTL DEF HostSettles

-----------------------------------------------------------------------------
(* The port implements PortService *)

(* Whoever fails the newest request has given it up, and nobody else held it:
   owners are ordered by generation. *)
LEMMA FailureStep ==
  ASSUME TypeOK, GenInv, OrderInv, FormatInv, BoundaryInv, RequestInv,
         FailureInv, [Next]_vars
  PROVE  FailureInv'
<1> USE DEF TypeOK, UsbTypeOK, LockTypeOK, WorkerTypeOK, GenInv, OrderInv,
        BoundaryInv, RequestInv, SoftMirrorsRequest, FailureInv, WorkHolds,
        Applying, READY, INIT_FAILED, CONTROL_PENDING, CONTROL_ERROR,
        ReleasePending, CompletionError, NoOwner, NoMail, NoPend, Idle,
        StopPending, StopQuiesced, usbVars, lockVars, wrkVars, beVars, history, vars
<1>1. CASE HostByte \/ WireDrains
  BY <1>1 DEF HostByte, WireDrains
<1>2. CASE DtrClose
  BY <1>2 DEF DtrClose, CancelRequest, ResetSoftPending
<1>3. CASE DtrOpen
  BY <1>3 DEF DtrOpen
<1>4. CASE (\E f \in Formats : ArmSoftPending(f))
  BY <1>4 DEF ArmSoftPending
<1>5. CASE RejectLineCoding
  BY <1>5 DEF RejectLineCoding
<1>6. CASE BusReset
  BY <1>6 DEF BusReset
<1>7. CASE MountCb
  BY <1>7 DEF MountCb
<1>8. CASE UmountCb
  BY <1>8 DEF UmountCb
<1>9. CASE CloseStop
  BY <1>9 DEF CloseStop, RequestStop
<1>10. CASE ResetStop
  BY <1>10 DEF ResetStop, RequestStop
<1>11. CASE ResetQuiesce
  BY <1>11 DEF ResetQuiesce
<1>12. CASE ResetHost
  BY <1>12 DEF ResetHost, CancelRequest, ResetSoftPending
<1>13. CASE LeaveTask
  BY <1>13 DEF LeaveTask
<1>14. CASE PollStopPending
  BY <1>14 DEF PollStopPending
<1>15. CASE PollClosed
  BY <1>15 DEF PollClosed
<1>16. CASE PollOpen
  BY <1>16 DEF PollOpen
<1>17. CASE QuiesceBusy
  BY <1>17 DEF QuiesceBusy, FlushOutOnce
<1>18. CASE QuiesceClear
  BY <1>18 DEF QuiesceClear, FlushOutOnce
<1>19. CASE StageInitial
  <2>1. CASE NothingStaged
    BY <1>19, <2>1 DEF StageInitial, NothingStaged
  <2>2. CASE SoftExpired
    BY <1>19, <2>2 DEF StageInitial, SoftExpired
  <2>3. CASE QueueLineCoding
    BY <1>19, <2>3 DEF StageInitial, QueueLineCoding
  <2>4. CASE MailboxBusy
    BY <1>19, <2>4 DEF StageInitial, MailboxBusy
  <2>5. QED BY <1>19, <2>1, <2>2, <2>3, <2>4 DEF StageInitial, ApplyPending
<1>20. CASE RequestStart
  BY <1>20 DEF RequestStart
<1>21. CASE PortIsReady
  BY <1>21 DEF PortIsReady
<1>22. CASE ApplyLive
  <2>1. CASE NothingStaged
    BY <1>22, <2>1 DEF ApplyLive, NothingStaged
  <2>2. CASE SoftExpired
    BY <1>22, <2>2 DEF ApplyLive, SoftExpired
  <2>3. CASE QueueLineCoding
    BY <1>22, <2>3 DEF ApplyLive, QueueLineCoding
  <2>4. CASE MailboxBusy
    BY <1>22, <2>4 DEF ApplyLive, MailboxBusy
  <2>5. QED BY <1>22, <2>1, <2>2, <2>3, <2>4 DEF ApplyLive, ApplyPending
<1>23. CASE Admit
  BY <1>23 DEF Admit
<1>24. CASE TxBlockedCheck
  BY <1>24 DEF TxBlockedCheck
<1>25. CASE FillTx
  BY <1>25 DEF FillTx
<1>26. CASE DrainRx
  BY <1>26 DEF DrainRx
<1>27. CASE LifecycleCheck
  BY <1>27 DEF LifecycleCheck
<1>28. CASE Deinit
  BY <1>28 DEF Deinit
<1>29. CASE CompleteStop
  BY <1>29 DEF CompleteStop
<1>30. CASE AcceptStart
  BY <1>30 DEF AcceptStart
<1>31. CASE StartTake
  BY <1>31 DEF StartTake
<1>32. CASE Restart
  BY <1>32 DEF Restart
<1>33. CASE StartFinish
  BY <1>33 DEF StartFinish, FinishWorkerControl, FormatInv
<1>34. CASE PublishStart
  BY <1>34 DEF PublishStart
<1>35. CASE TakeMailbox
  BY <1>35 DEF TakeMailbox
<1>36. CASE NothingToTake
  BY <1>36 DEF NothingToTake
<1>37. CASE MatchInfo
  BY <1>37 DEF MatchInfo
<1>38. CASE FinishMailboxControl
  BY <1>38 DEF FinishMailboxControl
<1>39. CASE DeferApply
  BY <1>39 DEF DeferApply
<1>40. CASE CheckPending
  BY <1>40 DEF CheckPending
<1>41. CASE ServiceTimeout
  BY <1>41 DEF ServiceTimeout, FinishWorkerControl
<1>42. CASE ServiceWait
  BY <1>42 DEF ServiceWait
<1>43. CASE ServiceApply
  BY <1>43 DEF ServiceApply
<1>44. CASE Applied
  BY <1>44 DEF Applied
<1>45. CASE ApplyDeferred
  BY <1>45 DEF ApplyDeferred
<1>46. CASE ApplyTimedOut
  BY <1>46 DEF ApplyTimedOut, FinishWorkerControl
<1>47. CASE ApplyKillsBackend
  BY <1>47 DEF ApplyKillsBackend
<1>48. CASE FinishApplied
  BY <1>48 DEF FinishApplied, FinishWorkerControl
<1>49. CASE MarkDead
  BY <1>49 DEF MarkDead
<1>50. CASE FinishDead
  BY <1>50 DEF FinishDead, FinishWorkerControl
<1>51. CASE SkipIo
  BY <1>51 DEF SkipIo
<1>52. CASE PollIo
  BY <1>52 DEF PollIo
<1>53. CASE SoftDeadlinePasses
  BY <1>53 DEF SoftDeadlinePasses
<1>54. CASE ApplyDeadlinePasses
  BY <1>54 DEF ApplyDeadlinePasses
<1>55. CASE UNCHANGED vars
  BY <1>55 DEF vars
<1>56. QED BY <1>1, <1>2, <1>3, <1>4, <1>5, <1>6, <1>7, <1>8, <1>9, <1>10,
    <1>11, <1>12, <1>13, <1>14, <1>15, <1>16, <1>17, <1>18, <1>19, <1>20,
    <1>21, <1>22, <1>23, <1>24, <1>25, <1>26, <1>27, <1>28, <1>29, <1>30,
    <1>31, <1>32, <1>33, <1>34, <1>35, <1>36, <1>37, <1>38, <1>39, <1>40,
    <1>41, <1>42, <1>43, <1>44, <1>45, <1>46, <1>47, <1>48, <1>49, <1>50,
    <1>51, <1>52, <1>53, <1>54, <1>55
    DEF Next, Host, UsbCore, Worker, Time

(* A fill begins on a running backend, and only a close or a request that was
   accepted before it could take the backend away. *)
LEMMA FillStep ==
  ASSUME TypeOK, UsbCoreInv, WorkerInv, BoundaryInv, FillInv, [Next]_vars
  PROVE  FillInv'
<1> USE DEF UsbCoreInv, WorkerInv, BoundaryInv, FillInv, Bridging, Starting,
        Applying, StopPending, StopQuiesced, usbVars, lockVars, wrkVars, beVars,
        history, vars
<1>1. CASE HostByte \/ DtrClose \/ DtrOpen \/
           (\E f \in Formats : ArmSoftPending(f)) \/ RejectLineCoding \/
           BusReset \/ MountCb \/ UmountCb \/ CloseStop \/ ResetStop \/
           ResetQuiesce \/ ResetHost \/ LeaveTask \/ PollStopPending \/
           PollClosed \/ PollOpen \/ QuiesceBusy \/ QuiesceClear \/
           StageInitial \/ RequestStart \/ PortIsReady \/ ApplyLive \/ Admit \/
           FillTx \/ DrainRx \/ LifecycleCheck \/ CompleteStop \/ AcceptStart
           \/ StartTake \/ StartFinish \/ PublishStart \/ TakeMailbox \/
           NothingToTake \/ MatchInfo \/ FinishMailboxControl \/ DeferApply \/
           CheckPending \/ ServiceTimeout \/ ServiceWait \/ ServiceApply \/
           Applied \/ ApplyDeferred \/ ApplyTimedOut \/ FinishApplied \/
           MarkDead \/ FinishDead \/ SkipIo \/ PollIo \/ WireDrains \/
           SoftDeadlinePasses \/ ApplyDeadlinePasses
  <2>1. UNCHANGED up /\ (usbPc' = usbPc \/ usbPc' # "fill")
    BY <1>1 DEF HostByte, DtrClose, DtrOpen, ArmSoftPending, RejectLineCoding, BusReset,
      MountCb, UmountCb, CloseStop, ResetStop, ResetQuiesce, ResetHost,
      LeaveTask, PollStopPending, PollClosed, PollOpen, QuiesceBusy,
      QuiesceClear, StageInitial, RequestStart, PortIsReady, ApplyLive, Admit,
      FillTx, DrainRx, LifecycleCheck, CompleteStop, AcceptStart, StartTake,
      StartFinish, PublishStart, TakeMailbox, NothingToTake, MatchInfo,
      FinishMailboxControl, DeferApply, CheckPending, ServiceTimeout,
      ServiceWait, ServiceApply, Applied, ApplyDeferred, ApplyTimedOut,
      FinishApplied, MarkDead, FinishDead, SkipIo, PollIo, WireDrains,
      SoftDeadlinePasses, ApplyDeadlinePasses
  <2>2. QED BY <2>1
<1>2. CASE TxBlockedCheck
  BY <1>2 DEF TxBlockedCheck
<1>3. CASE Deinit
  BY <1>3 DEF Deinit
<1>4. CASE Restart
  BY <1>4 DEF Restart
<1>5. CASE ApplyKillsBackend
  BY <1>5 DEF ApplyKillsBackend
<1>6. CASE UNCHANGED vars
  BY <1>6 DEF vars
<1>7. QED BY <1>1, <1>2, <1>3, <1>4, <1>5, <1>6
    DEF Next, Host, UsbCore, Worker, Time

LEMMA ServiceInductive == Spec => []ServiceInv
<1>1. Init => ServiceInv
  BY InvInit DEF Init, ServiceInv, FailureInv, FillInv
<1>2. ServiceInv /\ [Next]_vars => ServiceInv'
  BY InvStep, FailureStep, FillStep DEF ServiceInv, IInv
<1>3. QED BY <1>1, <1>2, PTL DEF Spec

(* What a port that is ready, not busy and without a failure runs in. *)
LEMMA ServiceHonest == IInv => Service!Honest
<1> SUFFICES ASSUME IInv, READY \in flags, CONTROL_PENDING \notin flags,
                    CONTROL_ERROR \notin flags, want # NoFormat
             PROVE  want = fmt
  BY DEF Service!Honest
<1>1. ~soft /\ ~mbox.occupied /\ ~pend.pending
  BY DEF IInv, PendingCoversOwners
<1>2. ~WorkHolds /\ wrkPc # "applied"
  BY <1>1 DEF IInv, BoundaryInv, WorkHolds, Applying
<1>3. info = want
  BY <1>1, <1>2 DEF IInv, LatestInv
<1>4. QED BY <1>2, <1>3 DEF IInv, FormatInv

ServiceStep == [Service!Next]_(Service!vars)

(* The host sees of a step only what it changes of these. *)
LEMMA UnseenStep ==
  ASSUME UNCHANGED <<opened, up, want, fmt, prod, wire>>,
         StopPending' = StopPending,
         (READY \in flags') = (READY \in flags),
         (CONTROL_PENDING \in flags') = (CONTROL_PENDING \in flags),
         (CONTROL_ERROR \in flags') = (CONTROL_ERROR \in flags)
  PROVE  ServiceStep
BY DEF ServiceStep, Service!vars, Service!control, Service!bytes

(* The worker, or the expiry of a window, answers a request. *)
LEMMA AnswerStep ==
  ASSUME UNCHANGED <<opened, lifecycle, up, want, fmt, prod, wire>>,
         CONTROL_PENDING \in flags, CONTROL_ERROR \in flags => CONTROL_ERROR \in flags',
         (READY \in flags') = (READY \in flags), Service!Honest'
  PROVE  ServiceStep
<1>1. Service!Answer
  BY DEF Service!Answer, Service!bytes, StopPending
<1>2. QED BY <1>1 DEF ServiceStep, Service!Next

(* Most steps are about who holds what, which the host does not see. *)
LEMMA QuietStep ==
  ASSUME \/ HostByte \/ BusReset \/ MountCb \/ UmountCb \/ LeaveTask \/
           PollStopPending \/ PollClosed \/ PollOpen \/ QuiesceBusy \/
           PortIsReady \/ Admit \/ TxBlockedCheck \/ DrainRx \/ LifecycleCheck
           \/ StartTake \/ TakeMailbox \/ NothingToTake \/ MatchInfo \/
           CheckPending \/ ServiceWait \/ ServiceApply \/ ApplyDeferred \/
           SkipIo \/ PollIo \/ SoftDeadlinePasses \/ ApplyDeadlinePasses
         \/ UNCHANGED vars
  PROVE  ServiceStep
<1>1. UNCHANGED <<opened, lifecycle, flags, up, want, fmt, prod, wire>>
  BY DEF HostByte, BusReset, MountCb, UmountCb, LeaveTask, PollStopPending,
      PollClosed, PollOpen, QuiesceBusy, PortIsReady, Admit, TxBlockedCheck,
      DrainRx, LifecycleCheck, StartTake, TakeMailbox, NothingToTake,
      MatchInfo, CheckPending, ServiceWait, ServiceApply, ApplyDeferred,
      SkipIo, PollIo, SoftDeadlinePasses, ApplyDeadlinePasses, usbVars, lockVars, wrkVars, beVars, history, vars
<1>2. QED BY <1>1, UnseenStep DEF StopPending

(* The host's request is dropped; who else holds one keeps the port busy. *)
LEMMA WithdrawService ==
  ASSUME flags' \in {flags, flags \ {CONTROL_PENDING}}, want' = NoFormat,
         opened' = opened \/ (opened' = FALSE /\ READY \notin flags),
         UNCHANGED <<lifecycle, beVars>>
  PROVE  ServiceStep
<1> USE DEF READY, CONTROL_PENDING, CONTROL_ERROR
<1>1. /\ (READY \in flags') = (READY \in flags)
      /\ (CONTROL_ERROR \in flags') = (CONTROL_ERROR \in flags)
      /\ CONTROL_PENDING \in flags' => CONTROL_PENDING \in flags
  OBVIOUS
<1>2. StopPending' = StopPending /\ UNCHANGED <<up, fmt, prod, wire>>
  BY DEF StopPending, beVars
<1>3. Service!Withdraw
  BY <1>1, <1>2 DEF Service!Withdraw, Service!bytes
<1> QED BY <1>3 DEF ServiceStep, Service!Next

(* What the host does, and what its core does at once. *)
LEMMA HostService ==
  ASSUME ServiceInv, Host PROVE ServiceStep
<1>1. CASE HostByte \/ BusReset \/ MountCb \/ UmountCb
  BY <1>1, QuietStep
<1>2. CASE DtrClose
  <2>1. flags' \in {flags, flags \ {CONTROL_PENDING}}
    BY <1>2 DEF DtrClose, ResetSoftPending, ReleasePending
  <2>2. UNCHANGED <<opened, lifecycle, beVars>> /\ want' = NoFormat
    BY <1>2 DEF DtrClose
  <2> QED BY <2>1, <2>2, WithdrawService
<1>3. CASE DtrOpen
  <2>1. Service!Open
    BY <1>3 DEF DtrOpen, lockVars, wrkVars, beVars, history, StopPending,
       Service!Open, Service!control, Service!bytes
  <2> QED BY <2>1 DEF ServiceStep, Service!Next
<1>4. ASSUME NEW f \in Formats, ArmSoftPending(f) PROVE ServiceStep
  <2>1. Service!Ask(f)
    BY <1>4 DEF ArmSoftPending, wrkVars, beVars, READY, CONTROL_PENDING,
       CONTROL_ERROR, StopPending, Service!Ask, Service!bytes
  <2> QED BY <2>1 DEF ServiceStep, Service!Next
<1>5. CASE RejectLineCoding
  <2>1. Service!Refuse
    BY <1>5 DEF RejectLineCoding, usbVars, wrkVars, beVars, READY, CONTROL_PENDING,
       CONTROL_ERROR, StopPending, Service!Refuse, Service!bytes
  <2> QED BY <2>1 DEF ServiceStep, Service!Next
<1> QED BY <1>1, <1>2, <1>3, <1>4, <1>5 DEF Host

(* A close, or the close that a bus reset stands for. *)
LEMMA CloseService ==
  ASSUME ServiceInv, RequestStop, opened' \in {opened, FALSE},
         UNCHANGED beVars
  PROVE  ServiceStep
<1>1. /\ (READY \in flags') = FALSE
      /\ (CONTROL_ERROR \in flags') = FALSE
      /\ (CONTROL_PENDING \in flags') = TRUE
  BY DEF RequestStop, READY, INIT_FAILED, CONTROL_PENDING, CONTROL_ERROR
<1>2. StopPending' = TRUE
  BY DEF RequestStop, StopPending
<1>3. want' = NoFormat /\ UNCHANGED <<up, fmt, prod, wire>>
  BY DEF RequestStop, beVars
<1>4. Service!Close
  BY <1>1, <1>2, <1>3 DEF Service!Close, Service!bytes
<1> QED BY <1>4 DEF ServiceStep, Service!Next

(* The request that core 0 holds is queued, waits or runs out of its window. *)
LEMMA StagedService ==
  ASSUME ServiceInv, Service!Honest', ApplyPending, opened' = opened,
         usbPc \in {"stage", "apply"}, UNCHANGED <<lifecycle, beVars, history>>
  PROVE  ServiceStep
<1> USE DEF READY, CONTROL_PENDING, CONTROL_ERROR
<1>1. req.pending => CONTROL_PENDING \in flags
  BY DEF ServiceInv, IInv, RequestInv, SoftMirrorsRequest, PendingCoversOwners
<1>2. CASE NothingStaged \/ MailboxBusy
  BY <1>2, UnseenStep DEF NothingStaged, MailboxBusy, StopPending, beVars, history
<1>3. CASE SoftExpired
  BY <1>1, <1>3, AnswerStep DEF SoftExpired, ReleasePending, CompletionError, beVars,
     history
<1>4. CASE QueueLineCoding
  BY <1>1, <1>4, UnseenStep DEF QueueLineCoding, StopPending, beVars, history
<1> QED BY <1>2, <1>3, <1>4 DEF ApplyPending

LEMMA UsbService ==
  ASSUME ServiceInv, Service!Honest', UsbCore PROVE ServiceStep
<1>1. CASE LeaveTask \/ PollStopPending \/ PollClosed \/ PollOpen \/
           QuiesceBusy \/ PortIsReady \/ Admit \/ TxBlockedCheck \/ DrainRx
  BY <1>1, QuietStep
<1>2. CASE CloseStop
  BY <1>2, CloseService DEF CloseStop
<1>3. CASE ResetStop
  <2>1. CASE opened
    BY <1>3, <2>1, CloseService DEF ResetStop
  <2>2. CASE ~opened
    BY <1>3, <2>2, UnseenStep DEF ResetStop, StopPending, beVars, history
  <2> QED BY <2>1, <2>2
<1>4. CASE ResetQuiesce
  BY <1>4, UnseenStep DEF ResetQuiesce, StopPending, beVars, history
<1>5. CASE ResetHost
  <2>1. READY \notin flags
    BY <1>5 DEF ResetHost, ServiceInv, IInv, UsbCoreInv, Inactive
  <2>2. flags' \in {flags, flags \ {CONTROL_PENDING}}
    BY <1>5 DEF ResetHost, ResetSoftPending, ReleasePending
  <2>3. opened' = FALSE /\ UNCHANGED <<lifecycle, beVars>> /\ want' = NoFormat
    BY <1>5 DEF ResetHost
  <2> QED BY <2>1, <2>2, <2>3, WithdrawService
<1>6. CASE QuiesceClear
  BY <1>6, UnseenStep DEF QuiesceClear, StopPending, beVars, history
<1>7. CASE StageInitial
  BY <1>7, StagedService DEF StageInitial
<1>8. CASE ApplyLive
  BY <1>8, StagedService DEF ApplyLive
<1>9. CASE RequestStart
  BY <1>9, UnseenStep DEF RequestStart, StopPending, beVars, history
<1>10. CASE FillTx
  <2>1. opened /\ up /\ READY \in flags /\ CONTROL_PENDING \notin flags
    BY <1>10 DEF FillTx, ServiceInv, IInv, UsbCoreInv, WorkerInv, FillInv, Bridging,
       PendingHasReason, Starting
  <2>2. PICK k \in 0..out : prod' = prod + k
    BY <1>10 DEF FillTx
  <2>3. prod \in Nat /\ out \in Nat
    BY DEF ServiceInv, IInv, TypeOK, OutTypeOK, BackendTypeOK
  <2>4. CASE k = 0
    BY <1>10, <2>2, <2>3, <2>4, UnseenStep DEF FillTx, StopPending, lockVars, history
  <2>5. CASE k # 0
    <3>1. Service!Accept
      BY <1>10, <2>1, <2>2, <2>3, <2>5 DEF FillTx, StopPending, lockVars, history,
         Service!Accept, Service!control
    <3> QED BY <3>1 DEF ServiceStep, Service!Next
  <2> QED BY <2>4, <2>5
<1> QED BY <1>1, <1>2, <1>3, <1>4, <1>5, <1>6, <1>7, <1>8, <1>9, <1>10 DEF UsbCore

(* The end of a request that the worker registered. *)
LEMMA FinishService ==
  ASSUME ServiceInv, Service!Honest', NEW g, NEW success, NEW lc,
         pend.pending, g = gen /\ success => CONTROL_ERROR \notin flags,
         FinishWorkerControl(g, success, lc), UNCHANGED <<usbVars, lifecycle, beVars, history>>
  PROVE  ServiceStep
<1> USE DEF READY, CONTROL_PENDING, CONTROL_ERROR
<1>1. CONTROL_PENDING \in flags
  BY DEF ServiceInv, IInv, PendingCoversOwners
<1> QED
  BY <1>1, AnswerStep DEF FinishWorkerControl, ReleasePending, CompletionError, usbVars,
     beVars, history

LEMMA WorkerService ==
  ASSUME ServiceInv, Service!Honest', Worker PROVE ServiceStep
<1>1. CASE LifecycleCheck \/ StartTake \/ TakeMailbox \/ NothingToTake \/
           MatchInfo \/ CheckPending \/ ServiceWait \/ ServiceApply \/
           ApplyDeferred \/ SkipIo \/ PollIo
  BY <1>1, QuietStep
<1>2. CASE Deinit
  <2>1. StopPending
    BY <1>2 DEF Deinit, ServiceInv, IInv, WorkerInv, StopQuiesced, StopPending
  <2>2. /\ wire \in Nat /\ cons \in Nat /\ prod \in Nat /\ inflight \in Nat
        /\ wire <= cons /\ cons + inflight <= prod
    BY DEF ServiceInv, IInv, TypeOK, BackendTypeOK, RingOrder
  <2>3. wire' \in wire..prod
    BY <1>2, <2>2 DEF Deinit
  <2>4. Service!Stop
    BY <1>2, <2>1, <2>3 DEF Deinit, usbVars, lockVars, history, StopPending,
       Service!Stop, Service!control
  <2> QED BY <2>4 DEF ServiceStep, Service!Next
<1>3. CASE CompleteStop
  <2>1. StopPending /\ ~up /\ READY \notin flags
    BY <1>3 DEF CompleteStop, ServiceInv, IInv, WorkerInv, StopQuiesced, StopPending
  <2>2. Service!Stopped
    BY <1>3, <2>1 DEF CompleteStop, usbVars, beVars, history, StopPending, READY,
       INIT_FAILED, CONTROL_PENDING, CONTROL_ERROR, Service!Stopped, Service!bytes
  <2> QED BY <2>2 DEF ServiceStep, Service!Next
<1>4. CASE AcceptStart
  BY <1>4, UnseenStep DEF AcceptStart, StopPending, usbVars, beVars, history
<1>5. CASE Restart
  <2>1. ~up /\ READY \notin flags /\ (opened \/ StopPending)
    BY <1>5 DEF Restart, ServiceInv, IInv, WorkerInv, UsbCoreInv, Inactive, Starting
  <2>2. work.lc \in Formats
    BY DEF ServiceInv, IInv, TypeOK, WorkerTypeOK
  <2>3. Service!Start
    BY <1>5, <2>1, <2>2 DEF Restart, usbVars, lockVars, history, StopPending,
       Service!Start, Service!control
  <2> QED BY <2>3 DEF ServiceStep, Service!Next
<1>6. CASE StartFinish
  <2>1. work.taken /\ pend.pending
    BY <1>6 DEF StartFinish, ServiceInv, IInv, FormatInv, BoundaryInv
  <2>2. work.gen = gen => CONTROL_ERROR \notin flags
    BY <1>6, <2>1 DEF StartFinish, ServiceInv, FailureInv, WorkHolds, IInv, TypeOK,
       LockTypeOK
  <2> QED BY <1>6, <2>1, <2>2, FinishService DEF StartFinish
<1>7. CASE PublishStart
  <2>1. READY \notin flags
    BY <1>7 DEF PublishStart, ServiceInv, IInv, WorkerInv, Starting
  <2>2. CASE READY \in flags'
    <3>1. work.ok /\ ~StopPending
      BY <1>7, <2>1, <2>2 DEF PublishStart, StopPending, READY, INIT_FAILED
    <3>2. up /\ opened
      BY <1>7, <3>1 DEF PublishStart, ServiceInv, IInv, WorkerInv, UsbCoreInv,
         Inactive, Starting
    <3>3. Service!Ready
      BY <1>7, <2>2, <3>1, <3>2 DEF PublishStart, usbVars, beVars, history,
         StopPending, READY, INIT_FAILED, CONTROL_PENDING, CONTROL_ERROR,
         Service!Ready, Service!control, Service!bytes
    <3> QED BY <3>3 DEF ServiceStep, Service!Next
  <2>3. CASE READY \notin flags'
    BY <1>7, <2>1, <2>3, UnseenStep DEF PublishStart, usbVars, beVars, history,
       StopPending, READY, INIT_FAILED, CONTROL_PENDING, CONTROL_ERROR
  <2> QED BY <2>2, <2>3
<1>8. CASE FinishMailboxControl
  <2>1. pend.pending /\ WorkHolds
    BY <1>8 DEF FinishMailboxControl, ServiceInv, IInv, BoundaryInv, WorkHolds
  <2>2. /\ CONTROL_PENDING \in flags
        /\ CONTROL_ERROR \in flags => work.gen # gen /\ pend.gen # gen
    BY <2>1 DEF ServiceInv, FailureInv, IInv, PendingCoversOwners, TypeOK, LockTypeOK
  <2> QED
    BY <1>8, <2>2, AnswerStep DEF FinishMailboxControl, ReleasePending,
       CompletionError, READY, CONTROL_PENDING, CONTROL_ERROR, usbVars, beVars, history
<1>9. CASE DeferApply
  <2>1. pend.pending /\ WorkHolds
    BY <1>9 DEF DeferApply, ServiceInv, IInv, BoundaryInv, WorkHolds
  <2>2. /\ CONTROL_PENDING \in flags
        /\ CONTROL_ERROR \in flags => work.gen # gen
    BY <2>1 DEF ServiceInv, FailureInv, IInv, PendingCoversOwners, TypeOK, LockTypeOK
  <2> QED
    BY <1>9, <2>2, UnseenStep DEF DeferApply, READY, CONTROL_PENDING, CONTROL_ERROR,
       StopPending, usbVars, beVars, history
<1>10. CASE ServiceTimeout \/ ApplyTimedOut \/ FinishDead
  <2>1. pend.pending /\ FinishWorkerControl(pend.gen, FALSE, pend.lc)
    BY <1>10 DEF ServiceTimeout, ApplyTimedOut, FinishDead, ServiceInv, IInv,
       BoundaryInv, Applying
  <2> QED
    BY <1>10, <2>1, FinishService DEF ServiceTimeout, ApplyTimedOut, FinishDead
<1>11. CASE FinishApplied
  <2>1. pend.pending /\ (pend.gen = gen => CONTROL_ERROR \notin flags)
    BY <1>11 DEF FinishApplied, ServiceInv, FailureInv, IInv, BoundaryInv, Applying,
       TypeOK, LockTypeOK
  <2> QED BY <1>11, <2>1, FinishService DEF FinishApplied
<1>12. CASE Applied \/ ApplyKillsBackend
  <2>1. wrkPc = "apply" /\ TxIdle
    BY <1>12 DEF Applied, ApplyKillsBackend
  <2>2. /\ up /\ pend.pending /\ CONTROL_PENDING \in flags
        /\ wire = prod /\ pend.lc \in Formats
    BY <2>1 DEF TxIdle, ServiceInv, IInv, WorkerInv, BoundaryInv, Applying,
       PendingCoversOwners, TypeOK, WorkerTypeOK
  <2>3. CASE Applied
    <3>1. Service!Change
      BY <2>2, <2>3 DEF Applied, usbVars, lockVars, history, StopPending,
         Service!Change, Service!control, Service!bytes
    <3> QED BY <3>1 DEF ServiceStep, Service!Next
  <2>4. CASE ApplyKillsBackend
    <3>1. Service!Die
      BY <2>2, <2>4 DEF ApplyKillsBackend, usbVars, lockVars, history, StopPending,
         Service!Die, Service!control, Service!bytes
    <3> QED BY <3>1 DEF ServiceStep, Service!Next
  <2> QED BY <1>12, <2>3, <2>4
<1>13. CASE MarkDead
  <2>1. ~up
    BY <1>13 DEF MarkDead, ServiceInv, IInv, WorkerInv
  <2>2. Service!Lost
    BY <1>13, <2>1 DEF MarkDead, usbVars, beVars, history, StopPending, READY,
       INIT_FAILED, CONTROL_PENDING, CONTROL_ERROR, Service!Lost, Service!control,
       Service!bytes
  <2> QED BY <2>2 DEF ServiceStep, Service!Next
<1> QED BY <1>1, <1>2, <1>3, <1>4, <1>5, <1>6, <1>7, <1>8, <1>9, <1>10, <1>11,
           <1>12, <1>13 DEF Worker

(* The line, and the two windows. *)
LEMMA LineService ==
  ASSUME ServiceInv, WireDrains PROVE ServiceStep
<1>1. /\ wire \in Nat /\ cons \in Nat /\ prod \in Nat /\ inflight \in Nat
      /\ cons + inflight <= prod
  BY DEF ServiceInv, IInv, TypeOK, BackendTypeOK, RingOrder
<1>2. wire' \in (wire + 1)..prod
  BY <1>1 DEF WireDrains
<1>3. Service!Send
  BY <1>2 DEF WireDrains, usbVars, lockVars, history, StopPending, Service!Send,
     Service!control
<1> QED BY <1>3 DEF ServiceStep, Service!Next

(* Two cores, a mailbox, generations and deadlines: to the host they are one
   port that does what PortService promises, for every set of formats and
   without bounds on requests, closes and bytes. *)
THEOREM PortImplementsService == Spec => ImplementsService
<1>1. Init => Service!Init
  BY DEF Init, StopPending, Service!Init
<1>2. ServiceInv /\ Service!Honest' /\ [Next]_vars => [Service!Next]_(Service!vars)
  <2> SUFFICES ASSUME ServiceInv, Service!Honest', [Next]_vars PROVE ServiceStep
    BY DEF ServiceStep
  <2>1. CASE Time \/ UNCHANGED vars
    BY <2>1, QuietStep DEF Time
  <2> QED BY <2>1, HostService, UsbService, WorkerService, LineService DEF Next
<1>3. ServiceInv => Service!Honest
  BY ServiceHonest DEF ServiceInv
<1>4. QED
  BY <1>1, <1>2, <1>3, ServiceInductive, PTL DEF Spec, ImplementsService, Service!Spec

=============================================================================
