---------------------------- MODULE TxPathProofs ----------------------------
(* The transmit path keeps its promises for every ring, FIFO, budget and     *)
(* threshold: TxInv below is inductive, and with it every step of TxPath is  *)
(* a step of TxStream or leaves its variables alone.                         *)
(*                                                                           *)
(* Why an invariant: what goes out next is decided in four places at once    *)
(* (cursors, reservation, channel, FIFO), each of which counts on the        *)
(* others.  TxInv says that all of them count the same bytes.                *)
EXTENDS TxPath, SequenceTheorems, TLAPS

(* The ring holds what was accepted, in order, and what is being copied in   *)
(* lies behind it.                                                           *)
RingInv ==
  /\ consumer <= producer /\ Occupancy + copied <= Size
  /\ base + producer = Len(asked)
  /\ \A c \in consumer..(producer + copied - 1) : cell[Slot(c)] = base + c + 1

(* The span under the host's pen is free and does not wrap.                  *)
FillInv ==
  /\ fpc # "idle" => /\ ~pending
                     /\ Slot(producer) + spanIn <= Size
                     /\ Occupancy + spanIn <= Size
  /\ fpc = "commit" => copied \in 1..spanIn
  /\ fpc # "commit" => copied = 0

(* A launch is covered by its reservation, and the channel is in it.         *)
LaunchInv ==
  /\ active =>
       /\ inFlight \in 1..spanOut /\ inFlight <= Occupancy
       /\ Slot(consumer) + inFlight <= Size
       /\ dmaLeft <= inFlight /\ dmaAt = Slot(consumer) + (inFlight - dmaLeft)
  /\ ~active => inFlight = 0 /\ dmaLeft = 0
  /\ wpc \in {"launch", "commit"} => ~active
  /\ wpc = "launch" => consumer # producer
  /\ chunk <= Occupancy /\ chunk <= spanOut
  /\ wpc # "commit" => chunk = 0

(* The transmitter holds the bytes handed over last.                         *)
WireInv ==
  /\ Len(fifo) <= Handover
  /\ \A i \in 1..Len(fifo) : fifo[i] = Handover - Len(fifo) + i
  /\ shifter # 0 => shifter = Handover - Len(fifo)
  /\ started # "none" => shifter # 0 /\ started = format

(* A request that is tried finds the ring empty and keeps it so.             *)
RequestInv ==
  /\ pending => boundary = producer
  /\ wpc \in {"apply", "empty", "probe", "settle"} =>
       pending /\ consumer = boundary
  /\ wpc \in {"empty", "probe"} => backend = "pio"
  /\ wpc = "probe" => fifo = <<>>
  /\ wpc = "settle" => fifo = <<>> /\ shifter = 0

(* Nothing is launched between the two looks at TXSTALL.                     *)
ProbeInv ==
  backend = "pio" /\ waiting =>
    /\ ~active /\ wpc # "commit"
    /\ stalled => fifo = <<>> /\ shifter = 0

TxInv == /\ TypeOK /\ RingInv /\ FillInv /\ LaunchInv /\ WireInv
         /\ RequestInv /\ ProbeInv /\ BacklogBounded
-----------------------------------------------------------------------------
(* Positions in the storage.                                                 *)

LEMMA DivMod ==
  ASSUME NEW s \in Nat \ {0}, NEW a \in Nat
  PROVE  /\ a % s \in 0..(s - 1) /\ a \div s \in Nat
         /\ a = s * (a \div s) + (a % s)
  BY Z3

LEMMA DivModUnique ==
  ASSUME NEW s \in Nat \ {0}, NEW q \in Int, NEW p \in Int,
         NEW r \in 0..(s - 1), NEW t \in 0..(s - 1), s * q + r = s * p + t
  PROVE  r = t
<1>1. s * (q - p) = t - r
  BY Z3
<1>2. q - p = 0
  <2>1. CASE q - p >= 1
    <3>1. s * (q - p) >= s
      BY <2>1, Z3
    <3> QED
      BY <3>1, <1>1, Z3
  <2>2. CASE q - p <= -1
    <3>1. s * (q - p) <= -s
      BY <2>2, Z3
    <3> QED
      BY <3>1, <1>1, Z3
  <2> QED
    BY <2>1, <2>2
<1> QED
  BY <1>1, <1>2, Z3

(* Up to the end of the storage consecutive bytes have consecutive cells.    *)
LEMMA SlotShift ==
  ASSUME NEW a \in Nat, NEW j \in Nat, Slot(a) + j < Size
  PROVE  Slot(a + j) = Slot(a) + j
<1> DEFINE r == a % Size
           q == a \div Size
           t == (a + j) % Size
           p == (a + j) \div Size
<1>1. Size \in Nat \ {0} /\ a + j \in Nat
  BY TxAssumption
<1>2. r \in 0..(Size - 1) /\ q \in Nat /\ a = Size * q + r
  BY <1>1, DivMod
<1>3. t \in 0..(Size - 1) /\ p \in Nat /\ a + j = Size * p + t
  BY <1>1, DivMod
<1>4. r + j < Size
  BY DEF Slot
<1> HIDE DEF r, q, t, p
<1>5. Size * q + (r + j) = Size * p + t
  BY <1>1, <1>2, <1>3
<1>6. r + j \in 0..(Size - 1) /\ q \in Int /\ p \in Int
  BY <1>1, <1>2, <1>3, <1>4
<1>7. r + j = t
  BY <1>1, <1>5, <1>6, <1>3, DivModUnique
<1> QED
  BY <1>7 DEF r, t, Slot

(* Bytes less than a whole ring apart have different cells.                  *)
LEMMA SlotDistinct ==
  ASSUME NEW a \in Nat, NEW b \in Nat, a < b, b < a + Size
  PROVE  Slot(a) # Slot(b)
<1> DEFINE r == a % Size
           q == a \div Size
           t == b % Size
           p == b \div Size
<1>1. Size \in Nat \ {0}
  BY TxAssumption
<1>2. r \in 0..(Size - 1) /\ q \in Nat /\ a = Size * q + r
  BY <1>1, DivMod
<1>3. t \in 0..(Size - 1) /\ p \in Nat /\ b = Size * p + t
  BY <1>1, DivMod
<1> HIDE DEF r, q, t, p
<1>4. ASSUME r = t PROVE FALSE
  <2>1. b - a \in 0..(Size - 1) /\ 0 \in 0..(Size - 1)
    BY <1>1
  <2>2. Size * p + 0 = Size * q + (b - a)
    BY <1>1, <1>2, <1>3, <1>4
  <2>3. b - a = 0
    BY <1>1, <2>1, <2>2, <1>2, <1>3, DivModUnique
  <2> QED
    BY <2>3
<1> QED
  BY <1>4 DEF r, t, Slot

LEMMA SlotRange ==
  ASSUME NEW a \in Nat
  PROVE  Slot(a) \in 0..(Size - 1) /\ Size \in Nat \ {0}
  BY TxAssumption, DivMod DEF Slot

(* A span takes something of what is there, and does not wrap.               *)
LEMMA SpanBounds ==
  ASSUME NEW a \in Nat, NEW n \in Nat
  PROVE  /\ Span(a, n) \in 0..n /\ Slot(a) + Span(a, n) <= Size
         /\ n > 0 => Span(a, n) > 0
  BY SlotRange DEF Span, Least

(* A launch takes something of the span, within its budget.                  *)
LEMMA LaunchBounds ==
  ASSUME TypeOK, NEW n \in Nat
  PROVE  /\ Launch(n) \in 0..n /\ Launch(n) <= Budget[format]
         /\ n > 0 => Launch(n) > 0
  BY TxAssumption DEF TypeOK, Launch, Least

(* What the transmitter is given next is the next byte that was accepted.    *)
LEMMA StoredBytes ==
  ASSUME TypeOK, RingInv, copied \in Nat,
         NEW j \in Nat, j < Occupancy, Slot(consumer) + j < Size
  PROVE  Stored(Slot(consumer) + j) = base + consumer + j + 1
<1>1. consumer \in Nat /\ Slot(consumer) + j = Slot(consumer + j)
  BY SlotShift DEF TypeOK
<1>2. consumer + j \in consumer..(producer + copied - 1)
  BY <1>1 DEF Occupancy, TypeOK
<1>3. cell[Slot(consumer + j)] = base + (consumer + j) + 1
  BY <1>2 DEF RingInv
<1> QED
  BY <1>1, <1>3 DEF Stored, TypeOK

(* Storage holds bytes, wherever it is read.                                 *)
LEMMA StoredType ==
  ASSUME TypeOK, NEW i \in Nat
  PROVE  Stored(i) \in Nat
  BY TxAssumption DEF TypeOK, Stored

(* While a request is tried the path is at rest up to the transmitter.       *)
LEMMA RestWhileTried ==
  ASSUME TxInv, wpc \in {"apply", "empty", "probe", "settle"}
  PROVE  /\ pending /\ consumer = producer /\ fpc = "idle"
         /\ ~active /\ inFlight = 0 /\ dmaLeft = 0 /\ chunk = 0
  BY DEF TxInv, TypeOK, RequestInv, LaunchInv, FillInv, Occupancy

(* A finished launch is given back whole.                                    *)
LEMMA Completion ==
  ASSUME TxInv, PollCompletion
  PROVE  \/ /\ active /\ dmaLeft = 0
            /\ consumer' = consumer + inFlight /\ spanOut' = 0
            /\ inFlight' = 0 /\ active' = FALSE
         \/ UNCHANGED <<consumer, spanOut, inFlight, active>>
  BY DEF TxInv, TypeOK, LaunchInv, PollCompletion, CommitConsumed
-----------------------------------------------------------------------------
(* Every step keeps the invariant.  First core 0.                            *)

LEMMA FillReserveKeeps ==
  ASSUME TxInv, FillReserve
  PROVE  TxInv'
<1>1. /\ producer \in Nat /\ consumer \in Nat /\ Size \in Nat
      /\ Size - Occupancy \in Nat
  BY TxAssumption DEF TxInv, TypeOK, FillReserve, Occupancy
<1>2. PICK n \in 0..(Size - Occupancy) :
             spanIn' = n /\ n \in Nat /\ Slot(producer) + n <= Size
  <2> DEFINE span == Span(producer, Size - Occupancy)
  <2>1. span \in 0..(Size - Occupancy) /\ Slot(producer) + span <= Size
    BY <1>1, SpanBounds
  <2>2. span \in Nat /\ spanIn' = span
    BY <1>1, <2>1 DEF FillReserve
  <2> HIDE DEF span
  <2> QED
    BY <2>1, <2>2
<1>3. TypeOK'
  BY <1>1, <1>2 DEF TxInv, TypeOK, FillReserve, ringVars, launchVars, reqVars,
                    wireVars, history
<1>4. FillInv'
  <2>1. /\ fpc' = "copy" /\ copied' = 0 /\ ~pending'
        /\ producer' = producer /\ Occupancy' = Occupancy
    BY DEF TxInv, FillInv, FillReserve, Occupancy, ringVars, reqVars
  <2>2. Occupancy + n <= Size
    BY <1>1, <1>2 DEF Occupancy
  <2> QED
    BY <2>1, <2>2, <1>2 DEF FillInv, Slot
<1>5. RingInv' /\ LaunchInv'
  BY DEF TxInv, RingInv, LaunchInv, FillReserve, Occupancy, Slot, ringVars,
         launchVars, wireVars, history
<1>6. WireInv' /\ BacklogBounded'
  BY DEF TxInv, WireInv, BacklogBounded, FillReserve, Handover, Handed,
         ringVars, launchVars, wireVars
<1>7. RequestInv' /\ ProbeInv'
  BY DEF TxInv, RequestInv, ProbeInv, FillReserve, ringVars, launchVars,
         reqVars, wireVars
<1> QED
  BY <1>3, <1>4, <1>5, <1>6, <1>7 DEF TxInv

(* The copy touches none of the cells that still hold a byte.                *)
LEMMA FillCopyKeeps ==
  ASSUME NEW k \in 1..Size, TxInv, FillCopy(k)
  PROVE  TxInv'
<1>1. /\ producer \in Nat /\ consumer \in Nat /\ base \in Nat
      /\ k \in Nat /\ Size \in Nat \ {0} /\ k <= spanIn /\ spanIn \in Nat
      /\ cell \in [0..(Size - 1) -> Nat]
  BY TxAssumption DEF TxInv, TypeOK, FillCopy
<1>2. Slot(producer) \in 0..(Size - 1)
  BY <1>1, SlotRange
<1>3. /\ copied = 0 /\ copied' = k /\ consumer <= producer
      /\ producer - consumer + spanIn <= Size /\ Slot(producer) + spanIn <= Size
  BY DEF TxInv, RingInv, FillInv, FillCopy, Occupancy
<1>4. /\ producer \in Nat /\ consumer \in Nat /\ base \in Nat
      /\ k \in Nat /\ Size \in Nat \ {0} /\ copied = 0 /\ copied' = k
      /\ k <= spanIn /\ spanIn \in Nat
      /\ consumer <= producer /\ producer - consumer + k <= Size
      /\ Slot(producer) + k <= Size /\ Slot(producer) \in 0..(Size - 1)
      /\ cell \in [0..(Size - 1) -> Nat]
  BY <1>1, <1>2, <1>3
<1>5. /\ \A i \in 0..(Size - 1) :
            cell'[i] = IF Slot(producer) <= i /\ i < Slot(producer) + k
                       THEN base + producer + (i - Slot(producer)) + 1
                       ELSE cell[i]
      /\ cell' \in [0..(Size - 1) -> Nat]
  <2> DEFINE byte(i) == IF Slot(producer) <= i /\ i < Slot(producer) + k
                        THEN base + producer + (i - Slot(producer)) + 1
                        ELSE cell[i]
  <2>1. \A i \in 0..(Size - 1) : byte(i) \in Nat
    BY <1>4
  <2>2. cell' = [i \in 0..(Size - 1) |-> byte(i)]
    BY DEF FillCopy
  <2> HIDE DEF byte
  <2>3. /\ cell' \in [0..(Size - 1) -> Nat]
        /\ \A i \in 0..(Size - 1) : cell'[i] = byte(i)
    BY <2>1, <2>2
  <2> QED
    BY <2>3 DEF byte
<1>6. TypeOK'
  BY <1>4, <1>5 DEF TxInv, TypeOK, FillCopy, launchVars, reqVars, wireVars,
                    history
<1>7. RingInv'
  <2>1. /\ consumer <= producer /\ producer - consumer + k <= Size
        /\ base + producer = Len(asked)
        /\ UNCHANGED <<producer, consumer, base, asked>>
    BY <1>4 DEF TxInv, RingInv, FillCopy, history
  <2>2. ASSUME NEW c \in consumer..(producer + k - 1)
        PROVE  cell'[Slot(c)] = base + c + 1
    <3>0. c \in Nat
      BY <1>4
    <3>1. c \in Nat /\ Slot(c) \in 0..(Size - 1)
      BY <3>0, SlotRange
    <3>2. CASE c >= producer
      <4>1. c - producer \in Nat /\ c - producer < k
        BY <1>4, <3>1, <3>2
      <4>2. Slot(producer + (c - producer)) = Slot(producer) + (c - producer)
        BY <1>4, <4>1, SlotShift
      <4>3. Slot(c) = Slot(producer) + (c - producer)
        BY <4>2, <1>4, <3>1
      <4>4. Slot(producer) <= Slot(c) /\ Slot(c) < Slot(producer) + k
        BY <4>1, <4>3, <1>4, <3>1
      <4>5. cell'[Slot(c)] = base + producer + (Slot(c) - Slot(producer)) + 1
        BY <4>4, <1>5, <3>1
      <4> QED
        BY <4>3, <4>5, <1>4, <3>1
    <3>3. CASE c < producer
      <4>1. cell[Slot(c)] = base + c + 1
        BY <1>4, <3>1, <3>3 DEF TxInv, RingInv
      <4>2. ASSUME Slot(producer) <= Slot(c), Slot(c) < Slot(producer) + k
            PROVE  FALSE
        <5> DEFINE j == Slot(c) - Slot(producer)
        <5>1. j \in Nat /\ j < k /\ Slot(producer) + j < Size
          BY <4>2, <1>4, <3>1
        <5>2. Slot(producer + j) = Slot(producer) + j
          BY <5>1, <1>4, SlotShift
        <5>3. Slot(producer + j) = Slot(c)
          BY <5>2, <1>4, <3>1
        <5> HIDE DEF j
        <5>4. c < producer + j /\ producer + j \in Nat
          BY <5>1, <1>1, <3>1, <3>3
        <5>5. c >= consumer
          BY <1>1, <3>1
        <5>6. producer + j < c + Size
          BY <5>1, <5>5, <1>1, <1>4, <3>1
        <5> QED
          BY <5>3, <5>4, <5>6, <3>1, SlotDistinct
      <4> QED
        BY <4>1, <4>2, <1>5, <3>1
    <3> QED
      BY <3>2, <3>3, <3>1, <1>4
  <2> QED
    BY <2>1, <2>2, <1>4 DEF RingInv, Occupancy, Slot
<1>8. FillInv'
  BY <1>4 DEF TxInv, TypeOK, FillInv, FillCopy, Occupancy, Slot, reqVars
<1>9. LaunchInv' /\ RequestInv' /\ ProbeInv'
  BY DEF TxInv, LaunchInv, RequestInv, ProbeInv, FillCopy, Occupancy, Slot,
         launchVars, reqVars, wireVars
<1>10. WireInv' /\ BacklogBounded'
  BY DEF TxInv, WireInv, BacklogBounded, FillCopy, Handover, Handed,
         launchVars, wireVars
<1> QED
  BY <1>6, <1>7, <1>8, <1>9, <1>10 DEF TxInv

(* What a commit accepts, as a sequence.                                     *)
LEMMA AcceptedFormats ==
  ASSUME TypeOK, NEW k \in Nat
  PROVE  /\ asked \o [i \in 1..k |-> format] \in Seq(Formats)
         /\ Len(asked \o [i \in 1..k |-> format]) = Len(asked) + k
<1> DEFINE new == [i \in 1..k |-> format]
<1>1. new \in Seq(Formats) /\ Len(new) = k
  BY DEF TypeOK
<1> HIDE DEF new
<1>2. asked \o new \in Seq(Formats) /\ Len(asked \o new) = Len(asked) + Len(new)
  BY <1>1, ConcatProperties DEF TypeOK
<1> QED
  BY <1>1, <1>2 DEF new

LEMMA FillCommitKeeps ==
  ASSUME TxInv, FillCommit
  PROVE  TxInv'
<1>1. /\ copied \in Nat /\ producer \in Nat /\ consumer \in Nat /\ base \in Nat
      /\ ~pending /\ copied' = 0 /\ producer' = producer + copied
  BY DEF TxInv, TypeOK, FillInv, FillCommit
<1>2. asked' \in Seq(Formats) /\ Len(asked') = Len(asked) + copied
  BY <1>1, AcceptedFormats DEF TxInv, FillCommit
<1>3. TypeOK'
  BY <1>1, <1>2 DEF TxInv, TypeOK, FillCommit, launchVars, reqVars, wireVars
<1>4. RingInv' /\ FillInv'
  <2>1. /\ consumer' = consumer /\ base' = base /\ cell' = cell
        /\ fpc' = "idle" /\ consumer <= producer
        /\ producer - consumer + copied <= Size /\ base + producer = Len(asked)
    BY DEF TxInv, RingInv, FillCommit, Occupancy
  <2>2. \A c \in consumer..(producer + copied - 1) : cell[Slot(c)] = base + c + 1
    BY DEF TxInv, RingInv
  <2>3. /\ consumer' <= producer' /\ producer' - consumer' + copied' <= Size
        /\ base' + producer' = Len(asked')
        /\ producer' + copied' - 1 = producer + copied - 1
    <3>1. Size \in Nat
      BY TxAssumption
    <3> QED
      BY <1>1, <1>2, <2>1, <3>1
  <2> QED
    BY <1>1, <2>1, <2>2, <2>3 DEF RingInv, FillInv, Occupancy, Slot
<1>5. LaunchInv' /\ RequestInv' /\ ProbeInv'
  BY <1>1 DEF TxInv, TypeOK, LaunchInv, RequestInv, ProbeInv, FillCommit,
              Occupancy, Slot, launchVars, reqVars, wireVars
<1>6. WireInv' /\ BacklogBounded'
  BY DEF TxInv, WireInv, BacklogBounded, FillCommit, Handover, Handed,
         launchVars, wireVars
<1> QED
  BY <1>3, <1>4, <1>5, <1>6 DEF TxInv

LEMMA RequestKeeps ==
  ASSUME TxInv, NEW f \in Formats, Request(f)
  PROVE  TxInv'
<1>1. TypeOK'
  BY DEF TxInv, TypeOK, Request, ringVars, fillVars, launchVars, wireVars,
         history
<1>2. RingInv' /\ LaunchInv' /\ WireInv' /\ BacklogBounded'
  BY DEF TxInv, RingInv, LaunchInv, WireInv, BacklogBounded, Request, Occupancy,
         Slot, Handover, Handed, ringVars, fillVars, launchVars, wireVars,
         history
<1>3. FillInv' /\ RequestInv' /\ ProbeInv'
  BY DEF TxInv, FillInv, RequestInv, ProbeInv, Request, ringVars, fillVars,
         launchVars, wireVars
<1> QED
  BY <1>1, <1>2, <1>3 DEF TxInv
-----------------------------------------------------------------------------
(* The worker.                                                               *)

(* Where only the worker's place and the request change.                     *)
LEMMA LookingKeeps ==
  ASSUME TxInv, Service \/ GiveUp \/ ApplyFifo \/ ApplyHw \/ ApplyDefer
                \/ LaunchBlocked
  PROVE  TxInv'
<1>1. /\ UNCHANGED <<backend, ringVars, fillVars, launchVars, restarts, wireVars,
                     history, wanted, boundary, changes>>
      /\ pending' \in BOOLEAN /\ (pending' => pending) /\ wpc # "commit"
  <2>1. pending \in BOOLEAN
    BY DEF TxInv, TypeOK
  <2>2. CASE GiveUp
    BY <2>1, <2>2 DEF GiveUp
  <2>3. CASE Service \/ ApplyFifo \/ ApplyHw \/ ApplyDefer \/ LaunchBlocked
    BY <2>1, <2>3 DEF Service, ApplyFifo, ApplyHw, ApplyDefer, LaunchBlocked,
                      reqVars
  <2> QED
    BY <2>2, <2>3
<1>2. \/ wpc' \in {"service", "poll"}
      \/ wpc' = "apply" /\ pending' /\ consumer = boundary
      \/ wpc' = "probe" /\ backend = "pio" /\ fifo = <<>>
         /\ pending' /\ consumer = boundary
      \/ wpc' = "settle" /\ fifo = <<>> /\ shifter = 0
         /\ pending' /\ consumer = boundary
  BY DEF TxInv, RequestInv, Service, GiveUp, ApplyFifo, ApplyHw, ApplyDefer,
         LaunchBlocked, BoundaryDrained, HwBusy, reqVars
<1>3. wpc' # "launch" /\ wpc' # "commit"
  BY <1>2
<1>4. TypeOK'
  BY <1>1, <1>2 DEF TxInv, TypeOK, ringVars, fillVars, launchVars, wireVars,
                    history
<1>5. RingInv' /\ FillInv'
  BY <1>1 DEF TxInv, RingInv, FillInv, Occupancy, Slot, ringVars, fillVars,
              history
<1>6. LaunchInv'
  BY <1>1, <1>3 DEF TxInv, LaunchInv, Occupancy, Slot, ringVars, launchVars,
                    wireVars
<1>7. WireInv' /\ BacklogBounded'
  BY <1>1 DEF TxInv, WireInv, BacklogBounded, Handover, Handed, ringVars,
              launchVars, wireVars
<1>8. RequestInv'
  BY <1>1, <1>2 DEF TxInv, RequestInv, ringVars, wireVars
<1>9. ProbeInv'
  BY <1>1, <1>3 DEF TxInv, ProbeInv, launchVars, wireVars
<1> QED
  BY <1>4, <1>5, <1>6, <1>7, <1>8, <1>9 DEF TxInv

(* A request is tried with nothing in the ring, so nothing completes here.   *)
LEMMA ApplyPioKeeps ==
  ASSUME TxInv, ApplyPio
  PROVE  TxInv'
<1>1. /\ ~active /\ wpc' = "empty" /\ backend = "pio"
      /\ UNCHANGED <<backend, ringVars, fillVars, launchVars, reqVars, restarts,
                     wireVars, history>>
  <2>1. ~active
    BY RestWhileTried DEF ApplyPio
  <2> QED
    BY <2>1 DEF TxInv, TypeOK, ApplyPio, PollCompletion, ringVars, launchVars
<1>2. pending /\ consumer = boundary
  BY DEF TxInv, RequestInv, ApplyPio
<1>3. TypeOK'
  BY <1>1 DEF TxInv, TypeOK, ringVars, fillVars, launchVars, reqVars, wireVars,
              history
<1>4. RingInv' /\ FillInv' /\ LaunchInv'
  BY <1>1 DEF TxInv, RingInv, FillInv, LaunchInv, ApplyPio, Occupancy, Slot,
              ringVars, fillVars, launchVars, reqVars, wireVars, history
<1>5. WireInv' /\ BacklogBounded'
  BY <1>1 DEF TxInv, WireInv, BacklogBounded, Handover, Handed, ringVars,
              launchVars, wireVars
<1>6. RequestInv' /\ ProbeInv'
  BY <1>1, <1>2 DEF TxInv, RequestInv, ProbeInv, ringVars, launchVars, reqVars,
                    wireVars
<1> QED
  BY <1>3, <1>4, <1>5, <1>6 DEF TxInv

(* A flag that is found set a second time was set since the first.           *)
LEMMA ProbeStallKeeps ==
  ASSUME TxInv, ProbeStall
  PROVE  TxInv'
<1>1. ~active /\ backend = "pio" /\ pending /\ consumer = boundary
  BY RestWhileTried DEF TxInv, RequestInv, ProbeStall
<1>2. TypeOK'
  BY DEF TxInv, TypeOK, ProbeStall, ringVars, fillVars, reqVars, history
<1>3. RingInv' /\ FillInv' /\ LaunchInv'
  BY DEF TxInv, RingInv, FillInv, LaunchInv, ProbeStall, Occupancy, Slot,
         ringVars, fillVars, reqVars, history
<1>4. WireInv' /\ BacklogBounded'
  BY DEF TxInv, WireInv, BacklogBounded, ProbeStall, Handover, Handed, ringVars
<1>5. RequestInv'
  BY <1>1 DEF TxInv, TypeOK, RequestInv, ProbeInv, ProbeStall, ringVars, reqVars
<1>6. ProbeInv'
  BY <1>1 DEF TxInv, TypeOK, ProbeInv, ProbeStall
<1> QED
  BY <1>2, <1>3, <1>4, <1>5, <1>6 DEF TxInv

(* Nothing is there to be lost when the transmitter is set up anew.          *)
LEMMA ApplyKeeps ==
  ASSUME TxInv, Apply
  PROVE  TxInv'
<1>1. /\ ~active /\ inFlight = 0 /\ dmaLeft = 0 /\ chunk = 0 /\ fpc = "idle"
  BY RestWhileTried DEF Apply
<1>2. /\ dmaLeft' = 0 /\ inFlight' = 0 /\ active' = FALSE /\ fifo' = <<>>
      /\ shifter' = 0 /\ started' = "none" /\ format' = wanted
      /\ pending' = FALSE /\ wpc' = "poll" /\ waiting' \in BOOLEAN
      /\ UNCHANGED <<backend, ringVars, fillVars, spanOut, chunk, wanted,
                     boundary, changes, restarts, dmaAt, stalled, history>>
  BY <1>1 DEF TxInv, TypeOK, Apply, SetFormat
<1>3. TypeOK'
  <2>1. fifo' \in Seq(Nat) /\ started' \in Formats \cup {"none"}
    BY <1>2
  <2> QED
    BY <1>2, <2>1 DEF TxInv, TypeOK, ringVars, fillVars, history
<1>4. RingInv' /\ FillInv'
  BY <1>1, <1>2 DEF TxInv, RingInv, FillInv, Occupancy, Slot, ringVars,
                    fillVars, history
<1>5. LaunchInv' /\ RequestInv'
  BY <1>1, <1>2 DEF TxInv, LaunchInv, RequestInv, Occupancy, Slot, ringVars
<1>6. WireInv'
  <2>1. Handover' \in Nat
    BY <1>1, <1>2 DEF TxInv, TypeOK, Handover, Handed, ringVars
  <2> QED
    BY <1>2, <2>1 DEF WireInv
<1>7. ProbeInv' /\ BacklogBounded'
  BY <1>2, TxAssumption DEF TxInv, TypeOK, ProbeInv, BacklogBounded
<1> QED
  BY <1>3, <1>4, <1>5, <1>6, <1>7 DEF TxInv

LEMMA PollKeeps ==
  ASSUME TxInv, Poll
  PROVE  TxInv'
<1>1. /\ wpc' \in {"launch", "service"} /\ wpc = "poll" /\ chunk = 0
      /\ wpc' = "launch" => ~active' /\ producer # consumer'
      /\ UNCHANGED <<backend, cell, producer, base, fillVars, chunk, waiting,
                     reqVars, restarts, wireVars, history>>
  BY DEF TxInv, LaunchInv, Poll
<1>2. /\ producer \in Nat /\ consumer \in Nat /\ base \in Nat /\ inFlight \in Nat
      /\ copied \in Nat /\ consumer <= producer
  BY DEF TxInv, TypeOK, RingInv
<1>3. CASE UNCHANGED <<consumer, spanOut, inFlight, active>>
  <2>1. TypeOK'
    BY <1>1, <1>3 DEF TxInv, TypeOK, fillVars, reqVars, wireVars, history
  <2>2. RingInv' /\ FillInv' /\ LaunchInv'
    BY <1>1, <1>3 DEF TxInv, RingInv, FillInv, LaunchInv, Occupancy, Slot,
                      fillVars, reqVars, wireVars, history
  <2>3. WireInv' /\ BacklogBounded'
    BY <1>1, <1>3 DEF TxInv, WireInv, BacklogBounded, Handover, Handed, wireVars
  <2>4. RequestInv' /\ ProbeInv'
    BY <1>1, <1>3 DEF TxInv, RequestInv, ProbeInv, reqVars, wireVars
  <2> QED
    BY <2>1, <2>2, <2>3, <2>4 DEF TxInv
<1>4. CASE /\ active /\ dmaLeft = 0
           /\ consumer' = consumer + inFlight /\ spanOut' = 0
           /\ inFlight' = 0 /\ active' = FALSE
  <2>1. inFlight <= producer - consumer
    BY <1>4 DEF TxInv, LaunchInv, Occupancy
  <2>2. TypeOK'
    <3>1. consumer' \in Nat /\ spanOut' \in Nat /\ inFlight' \in Nat
      BY <1>2, <1>4
    <3> QED
      BY <1>1, <1>4, <3>1
         DEF TxInv, TypeOK, fillVars, reqVars, wireVars, history
  <2>3. RingInv' /\ FillInv'
    <3> DEFINE next == consumer + inFlight
    <3>1. /\ next \in Nat /\ consumer <= next /\ next <= producer
          /\ producer - next <= producer - consumer
      BY <1>2, <2>1
    <3>2. /\ base + producer = Len(asked)
          /\ producer - consumer + copied <= Size
          /\ \A c \in consumer..(producer + copied - 1) :
               cell[Slot(c)] = base + c + 1
      BY DEF TxInv, RingInv, Occupancy
    <3>3. Size \in Nat /\ spanIn \in Nat
      BY TxAssumption DEF TxInv, TypeOK
    <3>4. consumer' = next
      BY <1>4
    <3> HIDE DEF next
    <3>5. producer - next + copied <= Size
      BY <1>2, <3>1, <3>2, <3>3
    <3>6. \A c \in next..(producer + copied - 1) : cell[Slot(c)] = base + c + 1
      BY <1>2, <3>1, <3>2
    <3>7. RingInv'
      BY <1>1, <3>1, <3>2, <3>4, <3>5, <3>6
         DEF RingInv, Occupancy, Slot, fillVars, history
    <3>8. fpc # "idle" => producer - next + spanIn <= Size
      BY <1>2, <3>1, <3>3 DEF TxInv, FillInv, Occupancy
    <3>9. FillInv'
      BY <1>1, <3>4, <3>8 DEF TxInv, FillInv, Occupancy, Slot, fillVars, reqVars
    <3> QED
      BY <3>7, <3>9
  <2>4. LaunchInv'
    BY <1>1, <1>2, <1>4, <2>1 DEF TxInv, LaunchInv, Occupancy, wireVars
  <2>5. WireInv' /\ BacklogBounded'
    <3>1. Handover' = Handover
      BY <1>1, <1>2, <1>4 DEF Handover, Handed, wireVars
    <3> QED
      BY <1>1, <3>1 DEF TxInv, WireInv, BacklogBounded, wireVars
  <2>6. RequestInv' /\ ProbeInv'
    BY <1>1, <1>4 DEF TxInv, RequestInv, ProbeInv, reqVars, wireVars
  <2> QED
    BY <2>2, <2>3, <2>4, <2>5, <2>6 DEF TxInv
<1> QED
  BY <1>3, <1>4, Completion DEF Poll

(* A channel is started on a part of the ring that holds accepted bytes.     *)
LEMMA StartDmaKeeps ==
  ASSUME TxInv, StartDma
  PROVE  TxInv'
<1> DEFINE span == Span(consumer, Occupancy)
<1>1. /\ consumer \in Nat /\ producer \in Nat /\ Occupancy \in Nat
      /\ Occupancy > 0
  BY DEF TxInv, TypeOK, RingInv, LaunchInv, StartDma, Occupancy
<1>2. /\ span \in 1..Occupancy /\ Slot(consumer) + span <= Size
      /\ Slot(consumer) \in Nat /\ Size \in Nat
  BY <1>1, SpanBounds, SlotRange
<1>3. span \in Nat
  BY <1>1, <1>2
<1>4. PICK n \in 1..span : n = Launch(span) /\ n <= Budget[format]
  BY <1>1, <1>2, <1>3, LaunchBounds DEF TxInv
<1>5. /\ n \in Nat /\ n <= Occupancy /\ Slot(consumer) + n <= Size /\ n - n = 0
  BY <1>1, <1>2, <1>3, <1>4
<1>6. /\ spanOut' = span /\ inFlight' = n /\ dmaLeft' = n
      /\ dmaAt' = Slot(consumer) /\ active' = TRUE /\ waiting' = FALSE
      /\ wpc' = "service" /\ wpc = "launch"
      /\ UNCHANGED <<backend, ringVars, fillVars, chunk, reqVars, restarts,
                     fifo, shifter, started, stalled, format, history>>
  BY <1>4 DEF StartDma, ProbeRestarts
<1> HIDE DEF span
<1>7. /\ ~active /\ inFlight = 0 /\ dmaLeft = 0 /\ chunk = 0 /\ fifo = <<>>
  BY DEF TxInv, TypeOK, LaunchInv, StartDma, Clear, HwBusy
<1>8. TypeOK'
  BY <1>2, <1>3, <1>5, <1>6 DEF TxInv, TypeOK, ringVars, fillVars, reqVars,
                                history
<1>9. RingInv' /\ FillInv'
  BY <1>6 DEF TxInv, RingInv, FillInv, Occupancy, Slot, ringVars, fillVars,
              reqVars, history
<1>10. LaunchInv'
  <2>1. /\ consumer' = consumer /\ Occupancy' = Occupancy /\ chunk' = 0
        /\ Slot(consumer)' = Slot(consumer)
    BY <1>6, <1>7 DEF Occupancy, Slot, ringVars
  <2>2. Slot(consumer) + (n - n) = Slot(consumer)
    BY <1>2, <1>5
  <2> QED
    BY <1>1, <1>3, <1>4, <1>5, <1>6, <2>1, <2>2 DEF LaunchInv
<1>11. WireInv' /\ BacklogBounded'
  <2>1. Handover' = Handover
    BY <1>5, <1>6, <1>7 DEF Handover, Handed, ringVars
  <2>2. WireInv'
    BY <1>6, <2>1 DEF TxInv, WireInv
  <2>3. Len(fifo) + n <= Budget[format]
    BY <1>4, <1>5, <1>7
  <2> QED
    BY <1>6, <2>2, <2>3 DEF BacklogBounded
<1>12. RequestInv' /\ ProbeInv'
  BY <1>6 DEF TxInv, RequestInv, ProbeInv, ringVars, reqVars
<1> QED
  BY <1>8, <1>9, <1>10, <1>11, <1>12 DEF TxInv

(* What is put into the FIFO is what comes next in the ring.                 *)
LEMMA DrainPutKeeps ==
  ASSUME TxInv, DrainPut
  PROVE  TxInv'
<1> DEFINE span == Span(consumer, Occupancy)
           room == Least(span, Depth - Len(fifo))
           count == Launch(room)
           bytes == [i \in 1..count |-> Stored(Slot(consumer) + i - 1)]
<1>1. /\ consumer \in Nat /\ producer \in Nat /\ base \in Nat /\ copied \in Nat
      /\ Occupancy \in Nat /\ Depth \in Nat /\ Size \in Nat
  BY TxAssumption DEF TxInv, TypeOK, RingInv, DrainPut, Occupancy
<1>2. /\ ~active /\ inFlight = 0 /\ dmaLeft = 0 /\ chunk = 0 /\ fifo = <<>>
  BY DEF TxInv, TypeOK, LaunchInv, DrainPut, Clear, HwBusy
<1>3. span \in 0..Occupancy /\ span \in Nat /\ Slot(consumer) + span <= Size
  BY <1>1, SpanBounds
<1>4. room \in 0..span /\ room \in Nat
  <2>1. Depth - Len(fifo) \in Nat
    BY <1>1, <1>2
  <2> HIDE DEF span
  <2> QED
    BY <1>3, <2>1 DEF Least
<1>5. count \in 0..room /\ count <= Budget[format]
  <2> HIDE DEF span, room
  <2> QED
    BY <1>4, LaunchBounds DEF TxInv
<1>6. /\ spanOut' = span /\ chunk' = count /\ fifo' = fifo \o bytes
      /\ waiting' = FALSE /\ wpc' = "commit" /\ wpc = "launch"
      /\ UNCHANGED <<backend, ringVars, fillVars, active, inFlight, reqVars,
                     restarts, dmaAt, dmaLeft, shifter, started, stalled,
                     format, history>>
  BY DEF DrainPut, ProbeRestarts
<1>7. bytes \in [1..count -> Nat]
      /\ \A i \in 1..count : bytes[i] = base + consumer + i
  <2> HIDE DEF span, room, count
  <2>1. count \in Nat /\ Slot(consumer) \in Nat /\ count <= Occupancy
        /\ Slot(consumer) + count <= Size
    BY <1>1, <1>3, <1>4, <1>5, SlotRange
  <2>2. ASSUME NEW i \in 1..count
        PROVE  Stored(Slot(consumer) + i - 1) = base + consumer + i
    <3>1. i - 1 \in Nat /\ i - 1 < Occupancy /\ Slot(consumer) + (i - 1) < Size
      BY <2>1, <1>1
    <3>2. Stored(Slot(consumer) + (i - 1)) = base + consumer + (i - 1) + 1
      BY <3>1, <1>1, StoredBytes DEF TxInv
    <3>3. Slot(consumer) + (i - 1) = Slot(consumer) + i - 1
          /\ base + consumer + (i - 1) + 1 = base + consumer + i
      BY <2>1, <1>1
    <3> QED
      BY <3>2, <3>3
  <2> QED
    BY <2>1, <2>2, <1>1
<1> HIDE DEF span, room, count, bytes
<1>8. count \in Nat /\ count <= span /\ count <= Occupancy
  BY <1>1, <1>3, <1>4, <1>5
<1>9. /\ fifo' \in Seq(Nat) /\ Len(fifo') = count
      /\ \A i \in 1..count : fifo'[i] = base + consumer + i
  <2>1. bytes \in Seq(Nat) /\ Len(bytes) = count
    BY <1>7, <1>8
  <2>2. fifo \o bytes = bytes
    BY <1>2, <2>1
  <2> QED
    BY <1>6, <1>7, <2>1, <2>2
<1>10. TypeOK'
  BY <1>3, <1>6, <1>8, <1>9 DEF TxInv, TypeOK, ringVars, fillVars, reqVars,
                                history
<1>11. RingInv' /\ FillInv'
  BY <1>6 DEF TxInv, RingInv, FillInv, Occupancy, Slot, ringVars, fillVars,
              reqVars, history
<1>12. LaunchInv'
  <2>1. Occupancy' = Occupancy
    BY <1>6 DEF Occupancy, ringVars
  <2> QED
    BY <1>2, <1>6, <1>8, <2>1 DEF LaunchInv
<1>13. WireInv'
  <2>1. Handover' = base + consumer + count /\ base + consumer + count \in Nat
        /\ base + consumer + count - count = base + consumer
        /\ count <= base + consumer + count
    BY <1>1, <1>2, <1>6, <1>8 DEF Handover, Handed, ringVars
  <2>2. Handover = base + consumer /\ Len(fifo) = 0
    BY <1>1, <1>2 DEF Handover, Handed
  <2>3. /\ shifter # 0 => shifter = base + consumer
        /\ started # "none" => shifter # 0 /\ started = format
    BY <1>1, <2>2 DEF TxInv, WireInv
  <2> DEFINE now == base + consumer + count
  <2>4. now - count = base + consumer /\ count <= now
    BY <1>1, <1>8
  <2>5. now = Handover'
    BY <2>1
  <2>6. count = Len(fifo')
    BY <1>9
  <2> HIDE DEF now
  <2>7. \A i \in 1..count : fifo'[i] = now - count + i
    BY <1>9, <2>4
  <2> QED
    BY <1>6, <2>3, <2>4, <2>5, <2>6, <2>7 DEF WireInv
<1>14. BacklogBounded'
  <2>1. count + 0 = count
    BY <1>8
  <2> QED
    BY <1>2, <1>5, <1>6, <1>9, <2>1 DEF BacklogBounded
<1>15. RequestInv' /\ ProbeInv'
  BY <1>2, <1>6 DEF TxInv, RequestInv, ProbeInv, DrainPut, ringVars, reqVars
<1> QED
  BY <1>10, <1>11, <1>12, <1>13, <1>14, <1>15 DEF TxInv

LEMMA DrainCommitKeeps ==
  ASSUME TxInv, DrainCommit
  PROVE  TxInv'
<1> DEFINE next == consumer + chunk
<1>1. /\ producer \in Nat /\ consumer \in Nat /\ base \in Nat /\ chunk \in Nat
      /\ copied \in Nat /\ Size \in Nat /\ spanIn \in Nat
      /\ consumer <= producer /\ chunk <= producer - consumer
      /\ ~active /\ inFlight = 0 /\ dmaLeft = 0 /\ wpc = "commit"
  BY TxAssumption DEF TxInv, TypeOK, RingInv, LaunchInv, DrainCommit, Occupancy
<1>2. /\ consumer' = next /\ spanOut' = 0 /\ chunk' = 0 /\ wpc' = "service"
      /\ UNCHANGED <<backend, cell, producer, base, fillVars, active, inFlight,
                     waiting, reqVars, restarts, wireVars, history>>
  BY DEF TxInv, LaunchInv, DrainCommit, CommitConsumed
<1>3. /\ next \in Nat /\ consumer <= next /\ next <= producer
      /\ producer - next <= producer - consumer /\ producer - next \in Nat
  BY <1>1
<1>4. base + next + 0 = base + consumer + chunk
  BY <1>1
<1> HIDE DEF next
<1>5. TypeOK'
  BY <1>2, <1>3 DEF TxInv, TypeOK, fillVars, reqVars, wireVars, history
<1>6. RingInv'
  <2>1. /\ base + producer = Len(asked)
        /\ producer - consumer + copied <= Size
        /\ \A c \in consumer..(producer + copied - 1) :
             cell[Slot(c)] = base + c + 1
    BY DEF TxInv, RingInv, Occupancy
  <2>2. producer - next + copied <= Size
    BY <1>1, <1>3, <2>1
  <2>3. \A c \in next..(producer + copied - 1) : cell[Slot(c)] = base + c + 1
    BY <1>1, <1>3, <2>1
  <2> QED
    BY <1>2, <1>3, <2>1, <2>2, <2>3
       DEF RingInv, Occupancy, Slot, fillVars, history
<1>7. FillInv'
  <2>1. fpc # "idle" => producer - next + spanIn <= Size
    BY <1>1, <1>3 DEF TxInv, FillInv, Occupancy
  <2> QED
    BY <1>2, <2>1 DEF TxInv, FillInv, Occupancy, Slot, fillVars, reqVars
<1>8. LaunchInv'
  BY <1>1, <1>2, <1>3 DEF LaunchInv, Occupancy, wireVars
<1>9. WireInv' /\ BacklogBounded'
  <2>1. Handover' = Handover
    BY <1>1, <1>2, <1>4 DEF Handover, Handed, wireVars
  <2> QED
    BY <1>2, <2>1 DEF TxInv, WireInv, BacklogBounded, wireVars
<1>10. RequestInv' /\ ProbeInv'
  BY <1>1, <1>2 DEF TxInv, RequestInv, ProbeInv, reqVars, wireVars
<1> QED
  BY <1>5, <1>6, <1>7, <1>8, <1>9, <1>10 DEF TxInv

(* A restart drops everything that is left, and forgets it everywhere.       *)
LEMMA RestartKeeps ==
  ASSUME TxInv, NEW f \in Formats, Restart(f)
  PROVE  TxInv'
<1>1. /\ producer \in Nat /\ base \in Nat /\ copied = 0 /\ chunk = 0
      /\ base + producer = Len(asked) /\ Size \in Nat
  BY TxAssumption DEF TxInv, TypeOK, RingInv, FillInv, LaunchInv, Restart
<1>2. /\ base' = base + producer /\ producer' = 0 /\ consumer' = 0
      /\ active' = FALSE /\ inFlight' = 0 /\ spanOut' = 0 /\ waiting' = FALSE
      /\ dmaLeft' = 0 /\ format' = f /\ fifo' = <<>> /\ shifter' = 0
      /\ started' = "none" /\ pending' = FALSE /\ restarts' = restarts + 1
      /\ wpc = "service" /\ fpc = "idle"
      /\ UNCHANGED <<backend, cell, fillVars, wpc, chunk, wanted, boundary,
                     changes, dmaAt, stalled, history>>
  BY DEF Restart, SetFormat
<1>3. TypeOK'
  <2>1. /\ base' \in Nat /\ restarts' \in Nat /\ fifo' \in Seq(Nat)
        /\ started' \in Formats \cup {"none"}
    BY <1>1, <1>2 DEF TxInv, TypeOK
  <2> QED
    BY <1>2, <2>1 DEF TxInv, TypeOK, fillVars, history
<1>4. RingInv'
  <2>1. Len(asked') = base + producer + 0 /\ base' + producer' = base + producer
    BY <1>1, <1>2 DEF history
  <2>2. /\ copied' = 0 /\ Occupancy' = 0 /\ 0 + 0 <= Size
        /\ consumer'..(producer' + copied' - 1) = {}
    BY <1>1, <1>2 DEF fillVars, Occupancy
  <2> QED
    BY <1>1, <1>2, <2>1, <2>2 DEF RingInv
<1>5. FillInv' /\ RequestInv' /\ ProbeInv'
  BY <1>1, <1>2 DEF TxInv, FillInv, RequestInv, ProbeInv, fillVars
<1>6. LaunchInv' /\ WireInv' /\ BacklogBounded'
  <2>1. /\ chunk' = 0 /\ Occupancy' = 0 /\ Handover' \in Nat /\ Len(fifo') = 0
        /\ Budget[format'] \in Nat
    BY <1>1, <1>2, TxAssumption DEF Occupancy, Handover, Handed
  <2> QED
    BY <1>2, <2>1 DEF LaunchInv, WireInv, BacklogBounded
<1> QED
  BY <1>3, <1>4, <1>5, <1>6 DEF TxInv
-----------------------------------------------------------------------------
(* DMA channel and transmitter.                                              *)

(* The channel moves the byte that follows those in the FIFO.                *)
LEMMA DmaMoveKeeps ==
  ASSUME TxInv, DmaMove
  PROVE  TxInv'
<1> DEFINE moved == inFlight - dmaLeft
           byte  == Stored(dmaAt)
<1>1. /\ consumer \in Nat /\ producer \in Nat /\ base \in Nat /\ copied \in Nat
      /\ inFlight \in Nat /\ dmaLeft \in Nat /\ dmaLeft > 0 /\ dmaAt \in Nat
      /\ fifo \in Seq(Nat) /\ Len(fifo) \in Nat
  BY DEF TxInv, TypeOK, DmaMove
<1>2. /\ active /\ inFlight <= Occupancy /\ dmaLeft <= inFlight /\ chunk = 0
      /\ Slot(consumer) + inFlight <= Size /\ dmaAt = Slot(consumer) + moved
      /\ wpc \notin {"launch", "commit"} /\ inFlight \in 1..spanOut
  BY <1>1 DEF TxInv, LaunchInv
<1>3. /\ fifo' = Append(fifo, byte) /\ dmaAt' = dmaAt + 1
      /\ dmaLeft' = dmaLeft - 1
      /\ UNCHANGED <<backend, ringVars, fillVars, wpc, launchVars, reqVars,
                     restarts, shifter, started, stalled, format, history>>
  BY DEF DmaMove
<1>4. wpc \notin {"apply", "empty", "probe", "settle"}
  BY <1>2, RestWhileTried
<1>5. moved \in Nat /\ moved < inFlight /\ moved < Occupancy
      /\ Slot(consumer) + moved < Size /\ Slot(consumer) \in Nat
  BY <1>1, <1>2, SlotRange DEF Occupancy
<1>6. byte = base + consumer + moved + 1 /\ byte \in Nat
  <2> HIDE DEF moved
  <2> QED
    BY <1>1, <1>2, <1>5, StoredBytes DEF TxInv
<1> HIDE DEF byte
<1>7. /\ fifo' \in Seq(Nat) /\ Len(fifo') = Len(fifo) + 1
      /\ \A i \in 1..Len(fifo) : fifo'[i] = fifo[i]
      /\ fifo'[Len(fifo) + 1] = byte
  BY <1>1, <1>3, <1>6, AppendProperties
<1>8. TypeOK'
  <2>1. dmaAt + 1 \in Nat /\ dmaLeft - 1 \in Nat
    BY <1>1
  <2> QED
    BY <1>3, <1>7, <2>1 DEF TxInv, TypeOK, ringVars, fillVars, launchVars,
                            reqVars, history
<1>9. RingInv' /\ FillInv'
  BY <1>3 DEF TxInv, RingInv, FillInv, Occupancy, Slot, ringVars, fillVars,
              reqVars, history
<1>10. LaunchInv'
  <2>1. /\ dmaLeft - 1 <= inFlight
        /\ dmaAt + 1 = Slot(consumer) + (inFlight - (dmaLeft - 1))
    BY <1>1, <1>2, <1>5
  <2> QED
    BY <1>2, <1>3, <2>1
       DEF TxInv, LaunchInv, Occupancy, Slot, ringVars, launchVars
<1>11. WireInv'
  <2>1. /\ Handover = base + consumer + moved /\ Handover \in Nat
        /\ Handover - Len(fifo) = Handover + 1 - (Len(fifo) + 1)
    BY <1>1, <1>2, <1>5 DEF Handover, Handed
  <2>2. Handover' = Handover + 1
    <3>1. base + consumer + (0 + (inFlight - (dmaLeft - 1)))
            = base + consumer + moved + 1
      BY <1>1
    <3> QED
      BY <1>2, <1>3, <2>1, <3>1 DEF Handover, Handed, ringVars, launchVars
  <2>3. Handover' - Len(fifo') = Handover - Len(fifo)
    BY <1>7, <2>1, <2>2
  <2>4. Len(fifo') <= Handover'
    BY <1>1, <1>7, <2>1, <2>2 DEF TxInv, WireInv
  <2>5. ASSUME NEW i \in 1..(Len(fifo) + 1)
        PROVE  fifo'[i] = Handover - Len(fifo) + i
    <3>1. CASE i <= Len(fifo)
      BY <1>1, <1>7, <3>1 DEF TxInv, WireInv
    <3>2. CASE i = Len(fifo) + 1
      BY <1>1, <1>6, <1>7, <2>1, <3>2
    <3> QED
      BY <1>1, <3>1, <3>2
  <2>6. /\ shifter # 0 => shifter = Handover - Len(fifo)
        /\ started # "none" => shifter # 0 /\ started = format
    BY DEF TxInv, WireInv
  <2> QED
    BY <1>3, <1>7, <2>3, <2>4, <2>5, <2>6 DEF WireInv
<1>12. BacklogBounded'
  <2>1. Len(fifo) + 1 + (dmaLeft - 1) = Len(fifo) + dmaLeft
    BY <1>1
  <2> QED
    BY <1>3, <1>7, <2>1 DEF TxInv, BacklogBounded
<1>13. RequestInv' /\ ProbeInv'
  BY <1>2, <1>3, <1>4 DEF TxInv, RequestInv, ProbeInv, ringVars, launchVars,
                          reqVars
<1> QED
  BY <1>8, <1>9, <1>10, <1>11, <1>12, <1>13 DEF TxInv

LEMMA PullKeeps ==
  ASSUME TxInv, Pull
  PROVE  TxInv'
<1>1. /\ fifo \in Seq(Nat) /\ fifo # <<>> /\ shifter = 0 /\ started = "none"
      /\ Handover \in Int /\ dmaLeft \in Nat
  BY DEF TxInv, TypeOK, WireInv, Pull, Handover, Handed
<1>2. /\ Len(fifo) \in Nat \ {0} /\ Head(fifo) = fifo[1] /\ Head(fifo) \in Nat
      /\ Tail(fifo) \in Seq(Nat) /\ Len(Tail(fifo)) = Len(fifo) - 1
      /\ \A i \in 1..(Len(fifo) - 1) : Tail(fifo)[i] = fifo[i + 1]
  BY <1>1, HeadTailProperties
<1>3. /\ shifter' = Head(fifo) /\ fifo' = Tail(fifo)
      /\ UNCHANGED <<backend, ringVars, fillVars, wpc, launchVars, reqVars,
                     restarts, dmaAt, dmaLeft, started, stalled, format,
                     history>>
  BY DEF Pull
<1>4. TypeOK'
  BY <1>2, <1>3 DEF TxInv, TypeOK, ringVars, fillVars, launchVars, reqVars,
                    history
<1>5. RingInv' /\ FillInv'
  BY <1>3 DEF TxInv, RingInv, FillInv, Occupancy, Slot, ringVars, fillVars,
              reqVars, history
<1>6. LaunchInv' /\ RequestInv' /\ ProbeInv'
  BY <1>1, <1>3 DEF TxInv, LaunchInv, RequestInv, ProbeInv, Occupancy, Slot,
                    ringVars, launchVars, reqVars
<1>7. WireInv'
  <2>1. /\ Len(fifo) <= Handover
        /\ \A i \in 1..Len(fifo) : fifo[i] = Handover - Len(fifo) + i
    BY DEF TxInv, WireInv
  <2>2. Handover' = Handover
    BY <1>3 DEF Handover, Handed, ringVars, launchVars
  <2>3. /\ Len(fifo) - 1 <= Handover
        /\ Head(fifo) = Handover - (Len(fifo) - 1) /\ Head(fifo) # 0
    BY <1>1, <1>2, <2>1
  <2>4. \A i \in 1..(Len(fifo) - 1) :
          Tail(fifo)[i] = Handover - (Len(fifo) - 1) + i
    BY <1>1, <1>2, <2>1
  <2> QED
    BY <1>1, <1>2, <1>3, <2>2, <2>3, <2>4 DEF WireInv
<1>8. BacklogBounded'
  <2>1. Budget[format] \in Nat
    BY TxAssumption DEF TxInv, TypeOK
  <2>2. Len(fifo) - 1 + dmaLeft <= Budget[format]
    BY <1>1, <1>2, <2>1 DEF TxInv, BacklogBounded
  <2> QED
    BY <1>2, <1>3, <2>2 DEF BacklogBounded
<1> QED
  BY <1>4, <1>5, <1>6, <1>7, <1>8 DEF TxInv

LEMMA ShiftKeeps ==
  ASSUME TxInv, Stall \/ StartBit \/ StopBit
  PROVE  TxInv'
<1>1. /\ \/ shifter' = shifter /\ line' = line
            /\ started' = started /\ stalled' = TRUE
            /\ shifter = 0 /\ fifo = <<>>
         \/ shifter' = shifter /\ line' = line
            /\ shifter # 0 /\ started' = format /\ stalled' = stalled
         \/ shifter' = 0 /\ started' = "none" /\ stalled' = stalled
            /\ line' = Append(line, [byte |-> shifter, format |-> started])
            /\ started # "none"
      /\ UNCHANGED <<backend, ringVars, fillVars, wpc, launchVars, reqVars,
                     restarts, dmaAt, dmaLeft, fifo, format, asked>>
  <2>1. CASE Stall
    BY <2>1, SMT DEF Stall, history
  <2>2. CASE StartBit
    BY <2>2, SMT DEF StartBit, history
  <2>3. CASE StopBit
    BY <2>3, SMT DEF StopBit
  <2> QED
    BY <2>1, <2>2, <2>3
<1>2. TypeOK'
  <2>1. CASE line' = line /\ shifter' = shifter
    <3>1. /\ started \in Formats \cup {"none"} /\ stalled \in BOOLEAN
          /\ format \in Formats /\ shifter \in Nat
      BY DEF TxInv, TypeOK
    <3>2. started' \in Formats \cup {"none"} /\ stalled' \in BOOLEAN
      BY <1>1, <3>1
    <3> QED
      BY <1>1, <2>1, <3>2
         DEF TxInv, TypeOK, ringVars, fillVars, launchVars, reqVars
  <2>2. CASE /\ started # "none" /\ stalled' = stalled
             /\ shifter' = 0 /\ started' = "none"
             /\ line' = Append(line, [byte |-> shifter, format |-> started])
    <3>1. [byte |-> shifter, format |-> started] \in [byte : Nat, format : Formats]
      BY <2>2 DEF TxInv, TypeOK
    <3>2. line' \in Seq([byte : Nat, format : Formats])
      BY <2>2, <3>1, AppendProperties DEF TxInv, TypeOK
    <3> QED
      BY <1>1, <2>2, <3>2
         DEF TxInv, TypeOK, ringVars, fillVars, launchVars, reqVars
  <2> QED
    BY <1>1, <2>1, <2>2
<1>3. RingInv' /\ FillInv'
  BY <1>1 DEF TxInv, RingInv, FillInv, Occupancy, Slot, ringVars, fillVars,
              reqVars
<1>4. LaunchInv' /\ BacklogBounded'
  BY <1>1 DEF TxInv, LaunchInv, BacklogBounded, Occupancy, Slot, ringVars,
              launchVars
<1>5. WireInv'
  <2>1. Handover' = Handover
    BY <1>1 DEF Handover, Handed, ringVars, launchVars
  <2> QED
    BY <1>1, <2>1 DEF TxInv, WireInv
<1>6. RequestInv' /\ ProbeInv'
  BY <1>1 DEF TxInv, RequestInv, ProbeInv, ringVars, launchVars, reqVars
<1> QED
  BY <1>2, <1>3, <1>4, <1>5, <1>6 DEF TxInv
-----------------------------------------------------------------------------
(* The invariant, and what it says of a run.                                 *)

LEMMA TxInit ==
  Init => TxInv
<1> SUFFICES ASSUME Init
             PROVE  TxInv
  OBVIOUS
<1>1. TypeOK
  <2>1. Size \in Nat \ {0} /\ 0 \in Nat
    BY TxAssumption
  <2> QED
    BY <2>1 DEF Init, TypeOK
<1>2. Occupancy = 0 /\ Handover = 0 /\ Size \in Nat /\ Len(fifo) = 0
      /\ Budget[format] \in Nat /\ Len(asked) = 0
  BY TxAssumption, <1>1 DEF Init, TypeOK, Occupancy, Handover, Handed
<1>3. RingInv /\ FillInv /\ LaunchInv /\ WireInv
  BY <1>2 DEF Init, RingInv, FillInv, LaunchInv, WireInv
<1>4. RequestInv /\ ProbeInv /\ BacklogBounded
  BY <1>2 DEF Init, RequestInv, ProbeInv, BacklogBounded
<1> QED
  BY <1>1, <1>3, <1>4 DEF TxInv

LEMMA TxNext ==
  TxInv /\ [Next]_vars => TxInv'
<1> SUFFICES ASSUME TxInv, [Next]_vars
             PROVE  TxInv'
  OBVIOUS
<1>1. CASE Fill
  BY <1>1, FillReserveKeeps, FillCopyKeeps, FillCommitKeeps DEF Fill
<1>2. CASE Host
  BY <1>2, RequestKeeps, RestartKeeps DEF Host
<1>3. CASE Service \/ GiveUp
  BY <1>3, LookingKeeps
<1>4. CASE ApplyTry
  BY <1>4, LookingKeeps, ApplyPioKeeps, ProbeStallKeeps, ApplyKeeps DEF ApplyTry
<1>5. CASE PollTx
  BY <1>5, PollKeeps, LookingKeeps, StartDmaKeeps, DrainPutKeeps,
     DrainCommitKeeps DEF PollTx
<1>6. CASE DmaMove
  BY <1>6, DmaMoveKeeps
<1>7. CASE Shift \/ StartBit
  BY <1>7, PullKeeps, ShiftKeeps DEF Shift
<1>8. CASE UNCHANGED vars
  BY <1>8 DEF vars, TxInv, TypeOK, RingInv, FillInv, LaunchInv, WireInv,
              RequestInv, ProbeInv, BacklogBounded, Occupancy, Slot, Handover,
              Handed, ringVars, fillVars, launchVars, reqVars, wireVars, history
<1> QED
  BY <1>1, <1>2, <1>3, <1>4, <1>5, <1>6, <1>7, <1>8 DEF Next

(* Type correctness of the transmit path, of either backend.                 *)
THEOREM TxTypeCorrect == Spec => []TypeOK
<1>1. TxInv => TypeOK
  BY DEF TxInv
<1> QED
  BY <1>1, TxInit, TxNext, PTL DEF Spec

(* The sticky TXSTALL flag, found set again after it was cleared, proves     *)
(* that the shift register is empty (prepare_baud_change of the PIO driver). *)
THEOREM ProbeIsHonest == Spec => []ProbeHonest
<1>1. TxInv => ProbeHonest
  BY DEF TxInv, TypeOK, ProbeInv, LaunchInv, ProbeHonest
<1> QED
  BY <1>1, TxInit, TxNext, PTL DEF Spec

(* No more than one launch's budget is ever committed to the transmitter     *)
(* (service_tx and start_tx_dma of the drivers).                             *)
THEOREM BacklogIsBounded == Spec => []BacklogBounded
<1>1. TxInv => BacklogBounded
  BY DEF TxInv
<1> QED
  BY <1>1, TxInit, TxNext, PTL DEF Spec
-----------------------------------------------------------------------------
(* The refinement.                                                           *)

LEMMA GoneByHandover ==
  ASSUME TxInv
  PROVE  /\ Handover \in Int
         /\ Gone = Handover - Len(fifo) - (IF shifter = 0 THEN 0 ELSE 1)
  BY DEF TxInv, TypeOK, Gone, Handover, Handed

(* A step that hands over nothing and ends no frame is a stutter.            *)
LEMMA QuietSteps ==
  ASSUME TxInv,
         \/ FillReserve \/ (\E k \in 1..Size : FillCopy(k))
         \/ (\E f \in Formats : Request(f))
         \/ Service \/ GiveUp \/ ApplyPio \/ ApplyFifo \/ ProbeStall \/ ApplyHw
         \/ ApplyDefer \/ Poll \/ LaunchBlocked \/ StartDma \/ DrainPut
         \/ DrainCommit \/ DmaMove \/ Pull \/ Stall \/ StartBit
  PROVE  UNCHANGED Stream!vars
<1> DEFINE Quiet == UNCHANGED <<format, asked, line>> /\ Gone' = Gone
<1>1. ASSUME \/ FillReserve \/ (\E k \in 1..Size : FillCopy(k))
             \/ (\E f \in Formats : Request(f)) \/ Stall \/ StartBit
      PROVE  Quiet
  BY <1>1 DEF FillReserve, FillCopy, Request, Stall, StartBit, Gone, Handover, Handed,
              ringVars, launchVars, wireVars, history
<1>2. ASSUME \/ Service \/ GiveUp \/ ApplyFifo \/ ProbeStall \/ ApplyHw
             \/ ApplyDefer \/ LaunchBlocked
      PROVE  Quiet
  BY <1>2 DEF Service, GiveUp, ApplyFifo, ProbeStall, ApplyHw, ApplyDefer,
              LaunchBlocked, Gone, Handover, Handed, ringVars, launchVars, wireVars,
              history
<1>3. ASSUME ApplyPio \/ Poll
      PROVE  Quiet
  <2>1. /\ UNCHANGED <<base, chunk, wireVars, history>> /\ PollCompletion
    BY <1>3 DEF ApplyPio, Poll
  <2>2. CASE UNCHANGED <<consumer, spanOut, inFlight, active>>
    BY <2>1, <2>2 DEF Gone, Handover, Handed, wireVars, history
  <2>3. CASE /\ dmaLeft = 0 /\ consumer' = consumer + inFlight /\ inFlight' = 0
    <3>1. /\ base \in Nat /\ consumer \in Nat /\ chunk \in Nat
          /\ inFlight \in Nat
      BY DEF TxInv, TypeOK
    <3>2. Handover' = Handover
      BY <2>1, <2>3, <3>1 DEF Handover, Handed, wireVars
    <3> QED
      BY <2>1, <3>2 DEF Gone, Handover, wireVars, history
  <2> QED
    BY <2>1, <2>2, <2>3, Completion
<1>4. ASSUME StartDma
      PROVE  Quiet
  <2>1. ~active /\ inFlight = 0 /\ dmaLeft = 0
    BY <1>4 DEF TxInv, LaunchInv, StartDma
  <2>2. PICK n \in Nat : inFlight' = n /\ dmaLeft' = n
    BY <1>4, StartDmaKeeps DEF TxInv, TypeOK, StartDma
  <2>3. inFlight' - dmaLeft' = inFlight - dmaLeft
    <3>1. n - n = 0 - 0
      OBVIOUS
    <3> QED
      BY <2>1, <2>2, <3>1
  <2> QED
    BY <1>4, <2>3 DEF StartDma, Gone, Handover, Handed, ringVars, history
<1>5. ASSUME DrainPut
      PROVE  Quiet
  <2>1. PICK n \in Nat : chunk' = n /\ Len(fifo') = n
    <3> DEFINE count == chunk'
    <3>1. chunk' \in Nat /\ fifo = <<>>
      BY <1>5, DrainPutKeeps DEF TxInv, TypeOK, DrainPut, Clear
    <3>2. fifo' = fifo \o [i \in 1..count |-> Stored(Slot(consumer) + i - 1)]
      BY <1>5 DEF DrainPut
    <3> HIDE DEF count
    <3>3. Len(fifo') = count
      BY <3>1, <3>2 DEF count
    <3> QED
      BY <3>1, <3>3 DEF count
  <2>2. ~active /\ inFlight = 0 /\ dmaLeft = 0 /\ chunk = 0 /\ fifo = <<>>
    BY <1>5 DEF TxInv, LaunchInv, DrainPut, Clear
  <2>3. Handover' = Handover + n /\ Handover \in Int
    <3>1. base \in Nat /\ consumer \in Nat
      BY DEF TxInv, TypeOK
    <3>2. base + consumer + (n + (0 - 0)) = base + consumer + (0 + (0 - 0)) + n
      BY <2>1, <3>1
    <3>3. Handover' = base + consumer + (n + (0 - 0))
      BY <1>5, <2>1, <2>2 DEF DrainPut, Handover, Handed, ringVars
    <3> QED
      BY <2>2, <3>1, <3>2, <3>3, GoneByHandover DEF Handover, Handed
  <2>4. Handover + n - n = Handover - 0 /\ Len(fifo) = 0
    BY <2>1, <2>2, <2>3
  <2> QED
    BY <1>5, <2>1, <2>3, <2>4 DEF DrainPut, Gone, history
<1>6. ASSUME DrainCommit
      PROVE  Quiet
  <2>1. consumer' = consumer + chunk /\ chunk' = 0 /\ inFlight = dmaLeft
    BY <1>6 DEF TxInv, LaunchInv, DrainCommit, CommitConsumed
  <2>2. /\ base \in Nat /\ consumer \in Nat /\ chunk \in Nat
        /\ inFlight \in Nat
    BY DEF TxInv, TypeOK
  <2>3. Handover' = Handover
    BY <1>6, <2>1, <2>2 DEF DrainCommit, Handover, Handed, wireVars
  <2> QED
    BY <1>6, <2>3 DEF DrainCommit, Gone, Handover, wireVars, history
<1>7. ASSUME DmaMove
      PROVE  Quiet
  <2>1. /\ fifo \in Seq(Nat) /\ dmaLeft \in Nat /\ Len(fifo) \in Nat
        /\ dmaAt \in Nat
    BY DEF TxInv, TypeOK
  <2>2. Stored(dmaAt) \in Nat
    BY <2>1, StoredType DEF TxInv
  <2>3. Len(fifo') = Len(fifo) + 1
    BY <1>7, <2>1, <2>2, AppendProperties DEF DmaMove
  <2>4. Handover' = Handover + 1 /\ Handover \in Int
    BY <1>7, <2>1
       DEF TxInv, TypeOK, DmaMove, Handover, Handed, ringVars, launchVars
  <2>5. Handover + 1 - (Len(fifo) + 1) = Handover - Len(fifo)
    BY <2>1, <2>4
  <2>6. Gone' = Handover' - Len(fifo') - (IF shifter' = 0 THEN 0 ELSE 1)
    BY DEF Gone, Handover
  <2> QED
    BY <1>7, <2>3, <2>4, <2>5, <2>6, GoneByHandover DEF DmaMove, history
<1>8. ASSUME Pull
      PROVE  Quiet
  <2>1. /\ fifo \in Seq(Nat) /\ fifo # <<>> /\ Len(fifo) \in Nat \ {0}
    BY <1>8 DEF TxInv, TypeOK, Pull
  <2>2. Len(fifo') = Len(fifo) - 1
    BY <1>8, <2>1, HeadTailProperties DEF Pull
  <2>3. shifter = 0 /\ shifter' # 0
    <3>1. Head(fifo) = fifo[1]
      BY <2>1, HeadTailProperties
    <3>2. Len(fifo) <= Handover /\ fifo[1] = Handover - Len(fifo) + 1
      BY <2>1 DEF TxInv, WireInv
    <3>3. Handover \in Int
      BY DEF TxInv, TypeOK, Handover, Handed
    <3> QED
      BY <1>8, <2>1, <3>1, <3>2, <3>3 DEF Pull
  <2>4. Handover' = Handover /\ Handover \in Int
    BY <1>8, GoneByHandover
       DEF Pull, Handover, Handed, ringVars, launchVars
  <2>5. Handover - (Len(fifo) - 1) - 1 = Handover - Len(fifo) - 0
    BY <2>1, <2>4
  <2> QED
    BY <1>8, <2>2, <2>3, <2>4, <2>5 DEF Pull, Gone, history
<1>9. Quiet
  BY <1>1, <1>2, <1>3, <1>4, <1>5, <1>6, <1>7, <1>8
<1> QED
  BY <1>9 DEF Stream!vars

(* What the history of the line says in terms of the ring.                   *)
LEMMA GoneOf ==
  ASSUME TxInv
  PROVE  /\ shifter # 0 => Gone = shifter - 1 /\ Gone < Len(asked)
         /\ shifter = 0 /\ fifo = <<>> /\ consumer = producer => Gone = Len(asked)
<1>1. /\ base \in Nat /\ consumer \in Nat /\ producer \in Nat /\ chunk \in Nat
      /\ inFlight \in Nat /\ dmaLeft \in Nat /\ shifter \in Nat
      /\ Len(fifo) \in Nat /\ base + producer = Len(asked)
  BY DEF TxInv, TypeOK, RingInv
<1>2. chunk + (inFlight - dmaLeft) <= producer - consumer
  <2>1. CASE active
    BY <1>1, <2>1 DEF TxInv, LaunchInv, Occupancy
  <2>2. CASE ~active
    BY <1>1, <2>2 DEF TxInv, LaunchInv, Occupancy
  <2> QED
    BY <2>1, <2>2
<1>3. ASSUME shifter # 0
      PROVE  Gone = shifter - 1 /\ Gone < Len(asked)
  <2>1. shifter = Handover - Len(fifo) /\ Gone = Handover - Len(fifo) - 1
    BY <1>3, GoneByHandover DEF TxInv, WireInv
  <2>2. Handover \in Int /\ Handover <= base + producer
    BY <1>1, <1>2 DEF Handover, Handed
  <2> QED
    BY <1>1, <2>1, <2>2
<1>4. ASSUME shifter = 0, fifo = <<>>, consumer = producer
      PROVE  Gone = Len(asked)
  <2>1. chunk = 0 /\ inFlight = 0 /\ dmaLeft = 0
    BY <1>1, <1>4 DEF TxInv, LaunchInv, Occupancy
  <2> QED
    BY <1>1, <1>4, <2>1 DEF Gone, Handover, Handed
<1> QED
  BY <1>3, <1>4

(* The frame that ends is that of the next byte, in the format in force.     *)
LEMMA StopBitSends ==
  ASSUME TxInv, StopBit
  PROVE  /\ shifter # 0 /\ started = format /\ Gone < Len(asked)
         /\ Gone + 1 = shifter /\ Gone' = Gone + 1
<1>1. shifter # 0 /\ started = format /\ shifter \in Nat
  BY DEF TxInv, TypeOK, WireInv, StopBit
<1>2. Gone = shifter - 1 /\ Gone < Len(asked)
  BY <1>1, GoneOf
<1>3. Gone' = Gone + 1
  <2>1. Handover' = Handover /\ Handover \in Int /\ Len(fifo) \in Nat
    BY GoneByHandover
       DEF TxInv, TypeOK, StopBit, Handover, Handed, ringVars, launchVars
  <2>2. Handover - Len(fifo) - 0 = Handover - Len(fifo) - 1 + 1
    BY <2>1
  <2> QED
    BY <1>1, <2>1, <2>2 DEF StopBit, Gone
<1> QED
  BY <1>1, <1>2, <1>3

LEMMA StreamStep ==
  TxInv /\ [Next]_vars => [Stream!Next]_(Stream!vars)
<1> SUFFICES ASSUME TxInv, [Next]_vars
             PROVE  [Stream!Next]_(Stream!vars)
  OBVIOUS
<1>1. CASE FillCommit
  <2>1. copied \in 1..Size
    <3>1. /\ copied \in 1..spanIn /\ consumer <= producer
          /\ producer - consumer + spanIn <= Size
      BY <1>1 DEF TxInv, FillInv, RingInv, Occupancy, FillCommit
    <3>2. /\ producer \in Nat /\ consumer \in Nat /\ spanIn \in Nat
          /\ Size \in Nat
      BY TxAssumption DEF TxInv, TypeOK
    <3> QED
      BY <3>1, <3>2
  <2>2. Gone' = Gone
    BY <1>1 DEF FillCommit, Gone, Handover, Handed, launchVars, wireVars
  <2>3. Stream!Accept(copied)
    BY <1>1, <2>2 DEF FillCommit, Stream!Accept, wireVars
  <2> QED
    BY <2>1, <2>3 DEF Stream!Next
<1>2. CASE StopBit
  <2>1. /\ shifter # 0 /\ started = format /\ Gone < Len(asked)
        /\ Gone + 1 = shifter /\ Gone' = Gone + 1
    BY <1>2, StopBitSends
  <2>2. Stream!Send
    BY <1>2, <2>1 DEF StopBit, Stream!Send
  <2> QED
    BY <2>2 DEF Stream!Next
<1>3. CASE Apply
  <2>1. consumer = producer /\ fifo = <<>> /\ shifter = 0
    BY <1>3, RestWhileTried DEF TxInv, RequestInv, Apply
  <2>2. Gone = Len(asked)
    BY <2>1, GoneOf
  <2>3. TxInv' /\ consumer' = producer' /\ fifo' = <<>> /\ shifter' = 0
    BY <1>3, <2>1, ApplyKeeps DEF Apply, SetFormat, ringVars
  <2>4. Gone' = Gone
    <3>1. inFlight = 0 /\ dmaLeft = 0
      BY <1>3, RestWhileTried DEF Apply
    <3> QED
      BY <1>3, <2>1, <3>1 DEF TxInv, TypeOK, Apply, SetFormat, Gone, Handover, Handed,
                              ringVars
  <2>5. wanted \in Formats /\ Stream!Reformat(wanted)
    BY <1>3, <2>2, <2>4
       DEF TxInv, TypeOK, Apply, SetFormat, Stream!Reformat, history
  <2> QED
    BY <2>5 DEF Stream!Next
<1>4. ASSUME NEW f \in Formats, Restart(f)
      PROVE  Stream!Next
  <2>1. chunk = 0 /\ base + producer = Len(asked) /\ Len(asked) \in Nat
    BY <1>4 DEF TxInv, TypeOK, RingInv, LaunchInv, Restart
  <2>2. Gone' = Len(asked)
    <3>1. Len(asked) + 0 + (0 + (0 - 0)) - 0 - 0 = Len(asked)
      BY <2>1
    <3> QED
      BY <1>4, <2>1, <3>1 DEF Restart, SetFormat, Gone, Handover, Handed
  <2>3. Stream!Restart(f)
    BY <1>4, <2>2 DEF Restart, SetFormat, Stream!Restart, history
  <2> QED
    BY <2>3 DEF Stream!Next
<1>5. CASE UNCHANGED vars
  BY <1>5 DEF vars, Stream!vars, Gone, Handover, Handed, ringVars, launchVars, wireVars,
              history
<1>6. CASE Next /\ ~FillCommit /\ ~StopBit /\ ~Apply
           /\ ~(\E f \in Formats : Restart(f))
  BY <1>6, QuietSteps DEF Next, Fill, Host, ApplyTry, PollTx, Shift
<1> QED
  BY <1>1, <1>2, <1>3, <1>4, <1>5, <1>6

(* The transmit path of either backend -- ring, reservation, DMA or polled   *)
(* FIFO, shift register, deferred format change, restart -- sends what the   *)
(* host wrote once, in order, and each byte in the format it was written in. *)
THEOREM TransmitImplementsStream == Spec => ImplementsTxStream
<1>1. Init => Stream!Init
  <2> SUFFICES ASSUME Init
               PROVE  Stream!Init
    OBVIOUS
  <2>1. Len(asked) = 0
    BY DEF Init
  <2>2. Gone = 0
    BY <2>1, TxInit, GoneOf DEF Init
  <2> QED
    BY <2>2 DEF Init, Stream!Init
<1> QED
  BY <1>1, TxInit, TxNext, StreamStep, PTL
     DEF Spec, ImplementsTxStream, Stream!Spec
-----------------------------------------------------------------------------
(* What that means for the device at the far end.                            *)

Sent == [byte : Nat, format : Formats]

(* Type invariant of the stream.                                             *)
StreamTypeOK ==
  /\ format \in Formats /\ asked \in Seq(Formats)
  /\ Gone \in 0..Len(asked) /\ line \in Seq(Sent)

(* No byte goes out twice or after a newer one, and each goes out in the     *)
(* format that was in force when the host wrote it.                          *)
LineInOrder ==
  /\ \A i \in 1..Len(line) : line[i].byte \in 1..Gone
  /\ \A i, j \in 1..Len(line) : i < j => line[i].byte < line[j].byte
  /\ \A i \in 1..Len(line) : line[i].format = asked[line[i].byte]

(* What is still to be sent was written in the present format.               *)
OneFormatWaits == \A b \in (Gone + 1)..Len(asked) : asked[b] = format

StreamInv == StreamTypeOK /\ LineInOrder /\ OneFormatWaits

(* The formats of one chunk of accepted bytes form a sequence.               *)
LEMMA ChunkFormats ==
  ASSUME NEW k \in Nat, NEW f \in Formats
  PROVE  [i \in 1..k |-> f] \in Seq(Formats) /\ Len([i \in 1..k |-> f]) = k
  OBVIOUS

LEMMA AcceptKeeps ==
  ASSUME StreamInv, NEW k \in Nat, Stream!Accept(k)
  PROVE  StreamInv'
<1> DEFINE new == [i \in 1..k |-> format]
<1>1. /\ format \in Formats /\ asked \in Seq(Formats) /\ Len(asked) \in Nat
      /\ Gone \in 0..Len(asked)
      /\ asked' = asked \o new /\ UNCHANGED <<format, Gone, line>>
  BY DEF StreamInv, StreamTypeOK, Stream!Accept
<1>2. new \in Seq(Formats) /\ Len(new) = k /\ \A i \in 1..k : new[i] = format
  BY <1>1, ChunkFormats
<1> HIDE DEF new
<1>3. /\ asked' \in Seq(Formats) /\ Len(asked') = Len(asked) + k
      /\ \A i \in 1..(Len(asked) + k) :
           asked'[i] = IF i <= Len(asked) THEN asked[i] ELSE new[i - Len(asked)]
  BY <1>1, <1>2, ConcatProperties
<1>4. StreamTypeOK'
  <2>1. Gone \in 0..(Len(asked) + k)
    BY <1>1
  <2> QED
    BY <1>1, <1>3, <2>1 DEF StreamInv, StreamTypeOK
<1>5. LineInOrder'
  <2>1. \A i \in 1..Len(line) : line[i].byte \in 1..Len(asked)
    BY <1>1 DEF StreamInv, LineInOrder
  <2>2. \A i \in 1..Len(line) : asked'[line[i].byte] = asked[line[i].byte]
    BY <1>1, <1>3, <2>1
  <2> QED
    BY <1>1, <2>2 DEF StreamInv, LineInOrder
<1>6. OneFormatWaits'
  <2>1. ASSUME NEW b \in (Gone + 1)..(Len(asked) + k)
        PROVE  asked'[b] = format
    <3>1. CASE b <= Len(asked)
      BY <1>1, <1>3, <2>1, <3>1 DEF StreamInv, OneFormatWaits
    <3>2. CASE b > Len(asked)
      <4>1. b - Len(asked) \in 1..k /\ b \in 1..(Len(asked) + k)
        BY <1>1, <2>1, <3>2
      <4> QED
        BY <1>1, <1>2, <1>3, <3>2, <4>1
    <3>3. b \in Int /\ Len(asked) \in Int
      BY <1>1
    <3> QED
      BY <3>1, <3>2, <3>3
  <2> QED
    BY <1>1, <1>3, <2>1 DEF OneFormatWaits
<1> QED
  BY <1>4, <1>5, <1>6 DEF StreamInv

LEMMA SendKeeps ==
  ASSUME StreamInv, Stream!Send
  PROVE  StreamInv'
<1> DEFINE sent == [byte |-> Gone + 1, format |-> format]
<1>1. /\ format \in Formats /\ asked \in Seq(Formats) /\ Len(asked) \in Nat
      /\ Gone \in Nat /\ Gone < Len(asked)
      /\ line \in Seq(Sent) /\ Len(line) \in Nat
      /\ line' = Append(line, sent) /\ Gone' = Gone + 1
      /\ UNCHANGED <<format, asked>>
  BY DEF StreamInv, StreamTypeOK, Stream!Send
<1>2. sent \in Sent /\ sent.byte = Gone + 1 /\ sent.format = format
  BY <1>1 DEF Sent
<1> HIDE DEF sent
<1>3. /\ line' \in Seq(Sent) /\ Len(line') = Len(line) + 1
      /\ \A i \in 1..Len(line) : line'[i] = line[i]
      /\ line'[Len(line) + 1] = sent
  BY <1>1, <1>2, AppendProperties
<1>4. StreamTypeOK'
  <2>1. Gone + 1 \in 0..Len(asked)
    BY <1>1
  <2> QED
    BY <1>1, <1>3, <2>1 DEF StreamInv, StreamTypeOK
<1>5. asked[Gone + 1] = format
  BY <1>1 DEF StreamInv, OneFormatWaits
<1>6. \A i \in 1..Len(line) :
        line[i].byte \in 1..Gone /\ line[i].format = asked[line[i].byte]
  BY DEF StreamInv, LineInOrder
<1>7. LineInOrder'
  <2>1. ASSUME NEW i \in 1..(Len(line) + 1)
        PROVE  /\ line'[i].byte \in 1..(Gone + 1)
               /\ line'[i].format = asked[line'[i].byte]
    <3>1. CASE i \in 1..Len(line)
      BY <1>1, <1>3, <1>6, <3>1
    <3>2. CASE i = Len(line) + 1
      BY <1>1, <1>2, <1>3, <1>5, <3>2
    <3> QED
      BY <1>1, <3>1, <3>2
  <2>2. ASSUME NEW i \in 1..(Len(line) + 1), NEW j \in 1..(Len(line) + 1), i < j
        PROVE  line'[i].byte < line'[j].byte
    <3>1. i \in 1..Len(line) /\ line'[i] = line[i]
      BY <1>1, <1>3, <2>2
    <3>2. CASE j \in 1..Len(line)
      BY <1>3, <2>2, <3>1, <3>2 DEF StreamInv, LineInOrder
    <3>3. CASE j = Len(line) + 1
      BY <1>1, <1>2, <1>3, <1>6, <3>1, <3>3
    <3> QED
      BY <1>1, <3>2, <3>3
  <2> QED
    BY <1>1, <1>3, <2>1, <2>2 DEF LineInOrder
<1>8. OneFormatWaits'
  BY <1>1 DEF StreamInv, OneFormatWaits
<1> QED
  BY <1>4, <1>7, <1>8 DEF StreamInv

(* With nothing left to be sent the format and the cursor are free.          *)
LEMMA SettleKeeps ==
  ASSUME StreamInv, NEW f \in Formats, Stream!Reformat(f) \/ Stream!Restart(f)
  PROVE  StreamInv'
<1>1. /\ format' = f /\ asked' = asked /\ line' = line /\ Gone' = Len(asked)
      /\ Len(asked) \in Nat /\ Gone \in 0..Len(asked)
  BY DEF StreamInv, StreamTypeOK, Stream!Reformat, Stream!Restart
<1>2. StreamTypeOK'
  BY <1>1 DEF StreamInv, StreamTypeOK
<1>3. LineInOrder'
  <2>1. \A i \in 1..Len(line) : line[i].byte \in 1..Len(asked)
    BY <1>1 DEF StreamInv, LineInOrder
  <2> QED
    BY <1>1, <2>1 DEF StreamInv, LineInOrder
<1>4. OneFormatWaits'
  <2>1. (Len(asked) + 1)..Len(asked) = {}
    BY <1>1
  <2> QED
    BY <1>1, <2>1 DEF OneFormatWaits
<1> QED
  BY <1>2, <1>3, <1>4 DEF StreamInv

LEMMA StreamInductive == Spec => [](TxInv /\ StreamInv)
<1>1. Init => StreamInv
  <2> SUFFICES ASSUME Init
               PROVE  StreamInv
    OBVIOUS
  <2>1. Len(asked) = 0
    BY DEF Init
  <2>2. Gone = 0
    BY <2>1, TxInit, GoneOf DEF Init
  <2> QED
    BY <2>1, <2>2
       DEF Init, StreamInv, StreamTypeOK, LineInOrder, OneFormatWaits
<1>2. ASSUME TxInv, StreamInv, [Next]_vars PROVE StreamInv'
  <2>1. [Stream!Next]_(Stream!vars)
    BY <1>2, StreamStep
  <2>2. ASSUME NEW k \in 1..Size, Stream!Accept(k)
        PROVE  StreamInv'
    <3>1. k \in Nat
      BY TxAssumption
    <3> QED
      BY <1>2, <2>2, <3>1, AcceptKeeps
  <2>3. CASE Stream!Send
    BY <1>2, <2>3, SendKeeps
  <2>4. ASSUME NEW f \in Formats, Stream!Reformat(f) \/ Stream!Restart(f)
        PROVE  StreamInv'
    BY <1>2, <2>4, SettleKeeps
  <2>5. CASE UNCHANGED Stream!vars
    BY <1>2, <2>5
       DEF Stream!vars, StreamInv, StreamTypeOK, LineInOrder, OneFormatWaits
  <2> QED
    BY <2>1, <2>2, <2>3, <2>4, <2>5 DEF Stream!Next
<1> QED
  BY <1>1, <1>2, TxInit, TxNext, PTL DEF Spec

(* What goes out on the line goes out in order and nothing twice, and never  *)
(* in a format the host did not ask for, by either backend.                  *)
THEOREM LineIsInOrder == Spec => []LineInOrder
<1>1. StreamInv => LineInOrder
  BY DEF StreamInv
<1> QED
  BY <1>1, StreamInductive, PTL
-----------------------------------------------------------------------------
(* Progress.  What no prover can show is that a step is possible; given that *)
(* (TxNeverBlocks), the fairness of FairSpec drives a byte that waits        *)
(* through the places it can be in: the ring, the DMA, the FIFO, the shift   *)
(* register, the line.                                                       *)

(* The next byte that has not gone out is the one after the n-th.            *)
Waits(n) == Gone = n /\ n < Len(asked)

Passed(n) == Gone > n

(* What the cursors say while the transmitter is empty.                      *)
LEMMA GoneWhenEmpty ==
  ASSUME TxInv, shifter = 0, fifo = <<>>
  PROVE  /\ Gone = base + consumer + chunk + (inFlight - dmaLeft)
         /\ Len(asked) = base + producer /\ consumer <= producer
         /\ chunk + inFlight <= producer - consumer
         /\ {Gone, base, consumer, producer, chunk, inFlight, dmaLeft} \subseteq Nat
         /\ dmaLeft <= inFlight
<1>1. /\ base \in Nat /\ consumer \in Nat /\ producer \in Nat /\ chunk \in Nat
      /\ inFlight \in Nat /\ dmaLeft \in Nat
      /\ base + producer = Len(asked) /\ consumer <= producer
  BY DEF TxInv, TypeOK, RingInv
<1>2. chunk + inFlight <= producer - consumer /\ dmaLeft <= inFlight
  <2>1. CASE active
    BY <1>1, <2>1 DEF TxInv, LaunchInv, Occupancy
  <2>2. CASE ~active
    BY <1>1, <2>2 DEF TxInv, LaunchInv, Occupancy
  <2> QED
    BY <2>1, <2>2
<1>3. Gone = base + consumer + (chunk + (inFlight - dmaLeft)) - 0 - 0
  BY <1>1 DEF Gone, Handover, Handed
<1> QED
  BY <1>1, <1>2, <1>3

(* Until then the byte goes on waiting, and a restart drops it.              *)
LEMMA WaitsOn ==
  ASSUME NEW n \in Nat, TxInv, StreamInv, [Next]_vars, Waits(n)
  PROVE  /\ Waits(n)' \/ Passed(n)'
         /\ (\E f \in Formats : Restart(f)) => Passed(n)'
<1>1. /\ Gone = n /\ n < Len(asked) /\ Len(asked) \in Nat
      /\ asked \in Seq(Formats)
  BY DEF Waits, StreamInv, StreamTypeOK
<1>2. [Stream!Next]_(Stream!vars)
  BY StreamStep
<1>3. ASSUME NEW k \in 1..Size, Stream!Accept(k)
      PROVE  Waits(n)'
  <2> DEFINE new == [i \in 1..k |-> format]
  <2>1. k \in Nat /\ format \in Formats
    BY TxAssumption DEF StreamInv, StreamTypeOK
  <2>2. new \in Seq(Formats) /\ Len(new) = k
    BY <2>1, ChunkFormats
  <2>3. asked' = asked \o new /\ Gone' = Gone
    BY <1>3 DEF Stream!Accept
  <2> HIDE DEF new
  <2>4. Len(asked') = Len(asked) + k
    BY <1>1, <2>2, <2>3, ConcatProperties
  <2> QED
    BY <1>1, <2>1, <2>3, <2>4 DEF Waits
<1>4. CASE Stream!Send
  BY <1>1, <1>4 DEF Stream!Send, Passed
<1>5. ASSUME NEW f \in Formats, Stream!Reformat(f)
      PROVE  FALSE
  BY <1>1, <1>5 DEF Stream!Reformat
<1>6. ASSUME NEW f \in Formats, Stream!Restart(f)
      PROVE  Passed(n)'
  BY <1>1, <1>6 DEF Stream!Restart, Passed
<1>7. ASSUME UNCHANGED Stream!vars
      PROVE  Waits(n)'
  BY <1>7 DEF Stream!vars, Waits
<1>8. ASSUME NEW f \in Formats, Restart(f)
      PROVE  Passed(n)'
  <2>1. chunk = 0 /\ base + producer = Len(asked)
    BY <1>8 DEF TxInv, RingInv, LaunchInv, Restart
  <2>2. Len(asked) + 0 + (0 + (0 - 0)) - 0 - 0 = Len(asked)
    BY <1>1
  <2>3. Gone' = Len(asked)
    BY <1>8, <2>1, <2>2 DEF Restart, SetFormat, Gone, Handover, Handed
  <2> QED
    BY <1>1, <2>3 DEF Passed
<1> QED
  BY <1>2, <1>3, <1>4, <1>5, <1>6, <1>7, <1>8 DEF Stream!Next

(* The places, from the line back to the worker.                             *)
Sending   == started # "none"
Shifting  == started = "none" /\ shifter # 0
Queued    == shifter = 0 /\ fifo # <<>>
Streaming == shifter = 0 /\ fifo = <<>> /\ dmaLeft > 0
Swept(p)  == shifter = 0 /\ fifo = <<>> /\ dmaLeft = 0 /\ wpc = p

(* With nothing in DMA and transmitter the ring holds what waits, and no     *)
(* format change is tried.                                                   *)
LEMMA RingHolds ==
  ASSUME NEW n \in Nat, TxInv, Waits(n), shifter = 0, fifo = <<>>
  PROVE  /\ consumer # producer
         /\ dmaLeft = 0 => consumer + chunk + inFlight < producer
         /\ pending => ~BoundaryDrained
         /\ wpc \notin {"apply", "empty", "probe", "settle"}
<1>1. /\ Gone = n /\ n < Len(asked)
  BY DEF Waits
<1>2. /\ consumer # producer
      /\ dmaLeft = 0 => consumer + chunk + inFlight < producer
  BY <1>1, GoneWhenEmpty
<1>3. pending => ~BoundaryDrained
  BY <1>2 DEF TxInv, RequestInv, BoundaryDrained
<1>4. wpc \notin {"apply", "empty", "probe", "settle"}
  BY <1>2, RestWhileTried
<1> QED
  BY <1>2, <1>3, <1>4

(* Only these steps move a byte towards the line, or drop what is there.     *)
LEMMA WireKept ==
  ASSUME [Next]_vars
  PROVE  \/ UNCHANGED <<fifo, shifter, started, dmaLeft>>
         \/ StopBit \/ StartBit \/ Pull \/ DmaMove \/ StartDma \/ DrainPut \/ Apply
         \/ \E f \in Formats : Restart(f)
<1>1. CASE Fill \/ (\E f \in Formats : Request(f)) \/ Stall \/ UNCHANGED vars
  BY <1>1 DEF Fill, FillReserve, FillCopy, FillCommit, Request, Stall, vars,
              wireVars
<1>2. CASE \/ Service \/ GiveUp \/ ApplyPio \/ ApplyFifo \/ ProbeStall \/ ApplyHw
           \/ ApplyDefer \/ Poll \/ LaunchBlocked \/ DrainCommit
  BY <1>2 DEF Service, GiveUp, ApplyPio, ApplyFifo, ProbeStall, ApplyHw,
              ApplyDefer, Poll, LaunchBlocked, DrainCommit, wireVars
<1> QED
  BY <1>1, <1>2 DEF Next, Host, ApplyTry, PollTx, Shift

(* What is pulled is a byte, and its frame has not begun.                    *)
LEMMA PullShifts ==
  ASSUME TxInv, Pull
  PROVE  Shifting'
<1>1. fifo \in Seq(Nat) /\ fifo # <<>> /\ Len(fifo) \in Nat \ {0}
  BY DEF TxInv, TypeOK, Pull
<1>2. Head(fifo) = fifo[1]
  BY <1>1, HeadTailProperties
<1>3. Len(fifo) <= Handover /\ fifo[1] = Handover - Len(fifo) + 1
  BY <1>1 DEF TxInv, WireInv
<1>4. Handover \in Int
  BY DEF TxInv, TypeOK, Handover, Handed
<1>5. Head(fifo) # 0
  BY <1>1, <1>2, <1>3, <1>4
<1> QED
  BY <1>5 DEF TxInv, WireInv, Pull, Shifting

(* A launch on a clear transmitter has bytes.                                *)
LEMMA LaunchMoves ==
  ASSUME TxInv, StartDma \/ DrainPut, shifter = 0
  PROVE  Streaming' \/ Queued'
<1>1. /\ producer \in Nat /\ consumer \in Nat /\ Occupancy \in Nat \ {0}
      /\ TypeOK
  BY DEF TxInv, TypeOK, RingInv, LaunchInv, Occupancy, StartDma, DrainPut
<1>2. fifo = <<>> /\ Len(fifo) = 0
  BY DEF StartDma, DrainPut, Clear, HwBusy
<1> DEFINE span == Span(consumer, Occupancy)
<1>3. span \in Nat \ {0}
  BY <1>1, SpanBounds
<1>4. CASE StartDma
  <2>1. dmaLeft' = Launch(span) /\ UNCHANGED <<fifo, shifter>>
    BY <1>4 DEF StartDma
  <2> HIDE DEF span
  <2>2. Launch(span) \in Nat \ {0}
    BY <1>1, <1>3, LaunchBounds
  <2> QED
    BY <1>2, <2>1, <2>2 DEF Streaming
<1>5. CASE DrainPut
  <2> DEFINE most  == Least(span, Depth - Len(fifo))
             count == Launch(most)
             put   == [i \in 1..count |-> Stored(Slot(consumer) + i - 1)]
  <2>1. fifo' = fifo \o put /\ shifter' = shifter
    BY <1>5 DEF DrainPut
  <2> HIDE DEF span
  <2>2. most \in Nat \ {0}
    BY <1>2, <1>3, TxAssumption DEF Least
  <2> HIDE DEF most
  <2>3. count \in Nat \ {0}
    BY <1>1, <2>2, LaunchBounds
  <2> HIDE DEF count
  <2>4. fifo' = put
    BY <1>2, <2>1
  <2>5. put # <<>>
    <3>1. Len(put) = count
      BY <2>3
    <3> QED
      BY <2>3, <3>1
  <2> QED
    BY <2>1, <2>4, <2>5 DEF Queued
<1> QED
  BY <1>4, <1>5

(* How a byte that waits goes on when the transmitter or the DMA has         *)
(* something.                                                                *)
LEMMA WireMoves ==
  ASSUME NEW n \in Nat, TxInv, StreamInv, [Next]_vars, Waits(n)
  PROVE  /\ Sending => Sending' \/ Passed(n)'
         /\ Shifting => Shifting' \/ Sending' \/ Passed(n)'
         /\ Queued => Queued' \/ Shifting' \/ Passed(n)'
         /\ Streaming => Streaming' \/ Queued' \/ Passed(n)'
<1> DEFINE Moves == /\ Sending => Sending' \/ Passed(n)'
                    /\ Shifting => Shifting' \/ Sending' \/ Passed(n)'
                    /\ Queued => Queued' \/ Shifting' \/ Passed(n)'
                    /\ Streaming => Streaming' \/ Queued' \/ Passed(n)'
<1>1. CASE UNCHANGED <<fifo, shifter, started, dmaLeft>>
  BY <1>1 DEF Sending, Shifting, Queued, Streaming
<1>2. CASE StopBit
  <2>1. Gone' = Gone + 1 /\ Gone = n
    BY <1>2, StopBitSends DEF Waits
  <2> QED
    BY <2>1 DEF Passed
<1>3. CASE StartBit
  <2>1. format \in Formats /\ started' = format /\ shifter # 0 /\ started = "none"
    BY <1>3 DEF TxInv, TypeOK, StartBit
  <2>2. TxInv'
    BY TxNext
  <2>3. Shifting' \/ Sending'
    BY <1>3, <2>1 DEF StartBit, Sending, Shifting
  <2> QED
    BY <2>1, <2>3 DEF Sending, Queued, Streaming, Shifting
<1>4. CASE Pull
  <2>1. Shifting' /\ shifter = 0 /\ fifo # <<>> /\ started = "none"
    BY <1>4, PullShifts DEF TxInv, WireInv, Pull
  <2> QED
    BY <2>1 DEF Sending, Shifting, Queued, Streaming
<1>5. CASE DmaMove
  <2>1. /\ fifo' # <<>> /\ UNCHANGED <<shifter, started>>
    <3>1. fifo \in Seq(Nat) /\ dmaAt \in Nat
      BY DEF TxInv, TypeOK
    <3>2. Stored(dmaAt) \in Nat
      BY <3>1, StoredType DEF TxInv
    <3>3. Len(Append(fifo, Stored(dmaAt))) = Len(fifo) + 1 /\ Len(fifo) \in Nat
      BY <3>1, <3>2, AppendProperties
    <3> QED
      BY <1>5, <3>3 DEF DmaMove
  <2> QED
    BY <2>1 DEF Sending, Shifting, Queued, Streaming
<1>6. CASE StartDma \/ DrainPut
  <2>1. fifo = <<>> /\ dmaLeft = 0 /\ UNCHANGED <<shifter, started>>
    BY <1>6 DEF TxInv, LaunchInv, StartDma, DrainPut, Clear, HwBusy
  <2> QED
    BY <2>1 DEF Sending, Shifting, Queued, Streaming
<1>7. CASE Apply
  <2>1. FALSE
    <3>1. wpc = "settle" /\ fifo = <<>> /\ shifter = 0
      BY <1>7 DEF TxInv, RequestInv, Apply
    <3> QED
      BY <3>1, RingHolds
  <2> QED
    BY <2>1
<1>8. CASE \E f \in Formats : Restart(f)
  BY <1>8, WaitsOn
<1> QED
  BY <1>1, <1>2, <1>3, <1>4, <1>5, <1>6, <1>7, <1>8, WireKept

(* And how the worker comes to launch what the ring holds.                   *)
LEMMA WorkerKept ==
  ASSUME [Next]_vars
  PROVE  wpc' = wpc \/ Worker \/ GiveUp
<1>1. CASE Fill \/ Host \/ DmaMove \/ Shift \/ StartBit \/ UNCHANGED vars
  BY <1>1 DEF Fill, FillReserve, FillCopy, FillCommit, Host, Request, Restart,
              DmaMove, Shift, Pull, Stall, StopBit, StartBit, vars
<1> QED
  BY <1>1 DEF Next, Worker

LEMMA WorkerLaunches ==
  ASSUME NEW n \in Nat, TxInv, Waits(n), Worker,
         shifter = 0, fifo = <<>>, dmaLeft = 0
  PROVE  /\ wpc = "commit" => Swept("service")'
         /\ wpc = "service" => Swept("poll")'
         /\ wpc = "poll" => Swept("launch")'
         /\ wpc = "launch" => Streaming' \/ Queued'
<1>1. /\ wpc \notin {"apply", "empty", "probe", "settle"}
      /\ pending => ~BoundaryDrained
      /\ consumer + chunk + inFlight < producer
  BY RingHolds
<1>2. ~ApplyTry
  BY <1>1 DEF ApplyTry, ApplyPio, ApplyFifo, ProbeStall, ApplyHw, ApplyDefer,
              Apply
<1>3. CASE Service
  BY <1>1, <1>3 DEF Service, Swept, wireVars
<1>4. CASE Poll
  <2>1. PollCompletion /\ UNCHANGED <<wireVars, producer>>
    BY <1>4 DEF Poll
  <2>2. ~active' /\ consumer' # producer
    <3>1. /\ consumer \in Nat /\ producer \in Nat /\ chunk \in Nat
          /\ inFlight \in Nat
      BY DEF TxInv, TypeOK
    <3>2. CASE active
      BY <1>1, <2>1, <3>1, <3>2 DEF TxInv, LaunchInv, PollCompletion, CommitConsumed
    <3>3. CASE ~active
      BY <1>1, <2>1, <3>1, <3>3 DEF PollCompletion
    <3> QED
      BY <3>2, <3>3
  <2>3. LaunchAllowed
    BY <1>1 DEF LaunchAllowed
  <2> QED
    BY <1>4, <2>1, <2>2, <2>3 DEF Poll, Swept, wireVars
<1>5. CASE DrainCommit
  BY <1>5 DEF DrainCommit, Swept, wireVars
<1>6. CASE LaunchBlocked
  BY <1>6 DEF LaunchBlocked, Clear, HwBusy
<1>7. CASE StartDma \/ DrainPut
  BY <1>7, LaunchMoves DEF StartDma, DrainPut
<1> QED
  BY <1>2, <1>3, <1>4, <1>5, <1>6, <1>7 DEF Worker, PollTx, Service, Poll,
     DrainCommit

LEMMA SweepMoves ==
  ASSUME NEW n \in Nat, TxInv, StreamInv, [Next]_vars, Waits(n)
  PROVE  /\ Swept("commit") => Swept("commit")' \/ Swept("service")' \/ Passed(n)'
         /\ Swept("service") => Swept("service")' \/ Swept("poll")' \/ Passed(n)'
         /\ Swept("poll") => Swept("poll")' \/ Swept("launch")' \/ Passed(n)'
         /\ Swept("launch") =>
              Swept("launch")' \/ Streaming' \/ Queued' \/ Passed(n)'
<1> SUFFICES ASSUME shifter = 0, fifo = <<>>, dmaLeft = 0
             PROVE  /\ wpc = "commit" =>
                         Swept("commit")' \/ Swept("service")' \/ Passed(n)'
                    /\ wpc = "service" =>
                         Swept("service")' \/ Swept("poll")' \/ Passed(n)'
                    /\ wpc = "poll" =>
                         Swept("poll")' \/ Swept("launch")' \/ Passed(n)'
                    /\ wpc = "launch" =>
                         Swept("launch")' \/ Streaming' \/ Queued' \/ Passed(n)'
  BY DEF Swept
<1>1. CASE Worker
  BY <1>1, WorkerLaunches
<1>2. CASE GiveUp
  BY <1>2 DEF GiveUp, Swept, wireVars
<1>3. CASE \E f \in Formats : Restart(f)
  BY <1>3, WaitsOn
<1>4. CASE /\ wpc' = wpc /\ ~Worker /\ ~(\E f \in Formats : Restart(f))
  <2>1. ~StopBit /\ ~StartBit /\ ~Pull /\ ~DmaMove
    BY DEF TxInv, WireInv, StopBit, StartBit, Pull, DmaMove
  <2>2. ~StartDma /\ ~DrainPut /\ ~Apply
    BY <1>4 DEF Worker, PollTx, ApplyTry
  <2>3. UNCHANGED <<fifo, shifter, started, dmaLeft>>
    BY <1>4, <2>1, <2>2, WireKept
  <2> QED
    BY <1>4, <2>3 DEF Swept
<1> QED
  BY <1>1, <1>2, <1>3, <1>4, WorkerKept

(* Each place has a step that fairness brings about.                         *)
LEMMA WireProgress ==
  ASSUME NEW n \in Nat, TxInv, Waits(n)
  PROVE  /\ Sending /\ Shift => Passed(n)'
         /\ Shifting /\ StartBit => Sending'
         /\ Queued /\ Shift => Shifting'
         /\ Streaming /\ DmaMove => Queued'
<1>1. /\ started # "none" => shifter # 0
      /\ format # "none"
  BY TxAssumption DEF TxInv, TypeOK, WireInv
<1>2. ASSUME Sending, Shift
      PROVE  Passed(n)'
  <2>1. StopBit
    BY <1>1, <1>2 DEF Sending, Shift, Pull, Stall
  <2>2. Gone' = Gone + 1 /\ Gone = n
    BY <2>1, StopBitSends DEF Waits
  <2> QED
    BY <2>2 DEF Passed
<1>3. ASSUME Shifting, StartBit
      PROVE  Sending'
  BY <1>1, <1>3 DEF Sending, StartBit
<1>4. ASSUME Queued, Shift
      PROVE  Shifting'
  <2>1. Pull
    BY <1>1, <1>4 DEF Queued, Shift, Stall, StopBit
  <2> QED
    BY <2>1, PullShifts
<1>5. ASSUME Streaming, DmaMove
      PROVE  Queued'
  <2>1. fifo \in Seq(Nat) /\ dmaAt \in Nat
    BY DEF TxInv, TypeOK
  <2>2. Stored(dmaAt) \in Nat
    BY <2>1, StoredType DEF TxInv
  <2>3. Len(Append(fifo, Stored(dmaAt))) = Len(fifo) + 1 /\ Len(fifo) \in Nat
    BY <2>1, <2>2, AppendProperties
  <2> QED
    BY <1>5, <2>3 DEF Streaming, DmaMove, Queued
<1> QED
  BY <1>2, <1>3, <1>4, <1>5

LEMMA Places ==
  ASSUME NEW n \in Nat, TxInv, Waits(n)
  PROVE  \/ Sending \/ Shifting \/ Queued \/ Streaming
         \/ Swept("commit") \/ Swept("service") \/ Swept("poll")
         \/ Swept("launch")
<1>1. dmaLeft \in Nat
  BY DEF TxInv, TypeOK
<1>2. CASE shifter = 0 /\ fifo = <<>>
  <2>1. wpc \in {"commit", "service", "poll", "launch"}
    BY <1>2, RingHolds DEF TxInv, TypeOK
  <2> QED
    BY <1>1, <1>2, <2>1 DEF Streaming, Swept
<1> QED
  BY <1>2 DEF Sending, Shifting, Queued

(* A byte that waits goes out, or a restart drops it.                        *)
LEMMA ByteGoesOut ==
  ASSUME NEW n \in Nat
  PROVE  FairSpec /\ []TxNeverBlocks => (Waits(n) ~> Passed(n))
<1> DEFINE Inv     == TxInv /\ StreamInv
           Wait    == Waits(n)
           Done    == Passed(n)
           Commits == Swept("commit")
           Looks   == Swept("service")
           Polls   == Swept("poll")
           Starts  == Swept("launch")
<1>1. Inv /\ [Next]_vars /\ Wait => Wait' \/ Done'
  BY WaitsOn
<1>2. Inv /\ [Next]_vars /\ Wait /\ Sending => Sending' \/ Done'
  BY WireMoves
<1>3. Inv /\ [Next]_vars /\ Wait /\ Shifting => Shifting' \/ Sending' \/ Done'
  BY WireMoves
<1>4. Inv /\ [Next]_vars /\ Wait /\ Queued => Queued' \/ Shifting' \/ Done'
  BY WireMoves
<1>5. Inv /\ [Next]_vars /\ Wait /\ Streaming => Streaming' \/ Queued' \/ Done'
  BY WireMoves
<1>6. Inv /\ [Next]_vars /\ Wait /\ Commits => Commits' \/ Looks' \/ Done'
  BY SweepMoves
<1>7. Inv /\ [Next]_vars /\ Wait /\ Looks => Looks' \/ Polls' \/ Done'
  BY SweepMoves
<1>8. Inv /\ [Next]_vars /\ Wait /\ Polls => Polls' \/ Starts' \/ Done'
  BY SweepMoves
<1>9. Inv /\ [Next]_vars /\ Wait /\ Starts =>
        Starts' \/ Streaming' \/ Queued' \/ Done'
  BY SweepMoves
<1>10. Inv /\ Wait /\ Sending /\ <<Shift>>_vars => Done'
  BY WireProgress
<1>11. Inv /\ Wait /\ Shifting /\ <<StartBit>>_vars => Sending'
  BY WireProgress
<1>12. Inv /\ Wait /\ Queued /\ <<Shift>>_vars => Shifting'
  BY WireProgress
<1>13. Inv /\ Wait /\ Streaming /\ <<DmaMove>>_vars => Queued'
  BY WireProgress
<1>14. Inv /\ Wait /\ Commits /\ <<Worker>>_vars => Looks'
  BY WorkerLaunches DEF Swept
<1>15. Inv /\ Wait /\ Looks /\ <<Worker>>_vars => Polls'
  BY WorkerLaunches DEF Swept
<1>16. Inv /\ Wait /\ Polls /\ <<Worker>>_vars => Starts'
  BY WorkerLaunches DEF Swept
<1>17. Inv /\ Wait /\ Starts /\ <<Worker>>_vars => Streaming' \/ Queued'
  BY WorkerLaunches DEF Swept
<1>18. Inv /\ Wait => \/ Sending \/ Shifting \/ Queued \/ Streaming
                      \/ Commits \/ Looks \/ Polls \/ Starts
  BY Places
<1>19. TxNeverBlocks =>
         /\ ENABLED <<Worker>>_vars
         /\ Sending \/ Queued => ENABLED <<Shift>>_vars
         /\ Shifting => ENABLED <<StartBit>>_vars
         /\ Streaming => ENABLED <<DmaMove>>_vars
  BY TxAssumption DEF TxNeverBlocks, Sending, Shifting, Queued, Streaming
<1> HIDE DEF Inv, Wait, Done, Commits, Looks, Polls, Starts
<1>20. Spec => []Inv
  BY StreamInductive DEF Inv
<1>21. FairSpec /\ []TxNeverBlocks => (Wait ~> Done)
  BY <1>1, <1>2, <1>3, <1>4, <1>5, <1>6, <1>7, <1>8, <1>9, <1>10, <1>11,
     <1>12, <1>13, <1>14, <1>15, <1>16, <1>17, <1>18, <1>19, <1>20, PTL
     DEF FairSpec, Fairness, Spec
<1> QED
  BY <1>21 DEF Wait, Done

(* Everything that was accepted goes out, in spite of a format change that   *)
(* is pending: no byte is left behind in ring, DMA, FIFO or shift register   *)
(* as long as the worker sweeps and CTS is granted now and then.             *)
THEOREM BytesGoOut == FairSpec /\ []TxNeverBlocks => Drains
<1> SUFFICES ASSUME NEW n \in 0..(MaxBytes - 1)
             PROVE  FairSpec /\ []TxNeverBlocks =>
                      (Gone = n /\ n < Len(asked) ~> Gone > n)
  BY DEF Drains
<1>1. n \in Nat
  BY TxAssumption
<1>2. FairSpec /\ []TxNeverBlocks => (Waits(n) ~> Passed(n))
  BY <1>1, ByteGoesOut
<1>3. (Waits(n) <=> Gone = n /\ n < Len(asked)) /\ (Passed(n) <=> Gone > n)
  BY DEF Waits, Passed
<1> QED
  BY <1>2, <1>3, PTL
-----------------------------------------------------------------------------
(* A pending format change.  First the bytes before it go out (BytesGoOut);  *)
(* then the worker tries it once a sweep, and on a PIO port two looks at     *)
(* TXSTALL, with the flag coming back in between, let it through.            *)

Drained == pending /\ Gone = Len(asked)

Tidy == Drained /\ consumer = producer

At(place) == wpc = place

(* What is left when the last byte before a change has gone.                 *)
LEMMA DrainedRests ==
  ASSUME TxInv, Drained
  PROVE  /\ shifter = 0 /\ fifo = <<>> /\ started = "none" /\ dmaLeft = 0
         /\ consumer + chunk + inFlight = producer
         /\ fpc = "idle" /\ copied = 0 /\ boundary = producer
         /\ wpc # "launch"
<1>1. /\ base \in Nat /\ consumer \in Nat /\ producer \in Nat /\ chunk \in Nat
      /\ inFlight \in Nat /\ dmaLeft \in Nat /\ Len(fifo) \in Nat
      /\ fifo \in Seq(Nat)
      /\ base + producer = Len(asked)
      /\ Gone = Len(asked) /\ pending
  BY DEF TxInv, TypeOK, RingInv, Drained
<1>2. /\ chunk + inFlight <= producer - consumer /\ dmaLeft <= inFlight
      /\ ~active => inFlight = 0
  <2>1. CASE active
    BY <1>1, <2>1 DEF TxInv, LaunchInv, Occupancy
  <2>2. CASE ~active
    BY <1>1, <2>2 DEF TxInv, LaunchInv, Occupancy
  <2> QED
    BY <2>1, <2>2
<1>3. shifter = 0 /\ Len(fifo) = 0 /\ dmaLeft = 0
      /\ consumer + chunk + inFlight = producer
  <2> DEFINE byte == IF shifter = 0 THEN 0 ELSE 1
  <2>1. base + consumer + (chunk + (inFlight - dmaLeft)) - Len(fifo) - byte
          = base + producer
    BY <1>1 DEF Gone, Handover, Handed
  <2>2. byte \in {0, 1} /\ (byte = 0 => shifter = 0)
    OBVIOUS
  <2> HIDE DEF byte
  <2> QED
    BY <1>1, <1>2, <2>1, <2>2
<1>4. fifo = <<>>
  BY <1>1, <1>3, EmptySeq
<1>5. wpc # "launch"
  <2>1. wpc = "launch" => ~active /\ chunk = 0 /\ consumer # producer
    BY DEF TxInv, LaunchInv
  <2> QED
    BY <1>1, <1>2, <1>3, <2>1
<1> QED
  BY <1>1, <1>3, <1>4, <1>5 DEF TxInv, WireInv, FillInv, RequestInv

LEMMA AskedKept ==
  ASSUME [Next]_vars
  PROVE  UNCHANGED <<asked, producer>> \/ FillCommit
         \/ (\E f \in Formats : Restart(f))
<1>1. CASE \/ FillReserve \/ (\E k \in 1..Size : FillCopy(k))
           \/ (\E f \in Formats : Request(f)) \/ Service \/ GiveUp
           \/ UNCHANGED vars
  BY <1>1 DEF FillReserve, FillCopy, Request, Service, GiveUp, vars, ringVars,
              history
<1>2. CASE ApplyTry
  BY <1>2 DEF ApplyTry, ApplyPio, ApplyFifo, ProbeStall, ApplyHw, ApplyDefer,
              Apply, ringVars, history
<1>3. CASE PollTx
  BY <1>3 DEF PollTx, Poll, LaunchBlocked, StartDma, DrainPut, DrainCommit,
              ringVars, history
<1>4. CASE DmaMove \/ Shift \/ StartBit
  BY <1>4 DEF DmaMove, Shift, Pull, Stall, StopBit, StartBit, ringVars, history
<1> QED
  BY <1>1, <1>2, <1>3, <1>4 DEF Next, Fill, Host

(* Nothing is accepted before the change is resolved.                        *)
LEMMA DrainedStays ==
  ASSUME TxInv, StreamInv, [Next]_vars, Drained
  PROVE  Drained' \/ ~pending'
<1>1. CASE \E f \in Formats : Restart(f)
  BY <1>1 DEF Restart
<1>2. CASE asked' = asked
  <2>1. Gone' = Len(asked)
    <3>1. Gone = Len(asked) /\ Len(asked) \in Nat
      BY DEF Drained, StreamInv, StreamTypeOK
    <3>2. [Stream!Next]_(Stream!vars)
      BY StreamStep
    <3>3. ASSUME NEW k \in 1..Size, Stream!Accept(k)
          PROVE  Gone' = Gone
      BY <3>3 DEF Stream!Accept
    <3>4. ~Stream!Send
      BY <3>1 DEF Stream!Send
    <3>5. ASSUME NEW f \in Formats, Stream!Reformat(f) \/ Stream!Restart(f)
          PROVE  Gone' = Gone
      BY <3>1, <3>5 DEF Stream!Reformat, Stream!Restart
    <3>6. UNCHANGED Stream!vars => Gone' = Gone
      BY DEF Stream!vars
    <3> QED
      BY <3>1, <3>2, <3>3, <3>4, <3>5, <3>6 DEF Stream!Next
  <2> QED
    BY <1>2, <2>1 DEF Drained
<1>3. ~FillCommit
  BY DrainedRests DEF FillCommit
<1> QED
  BY <1>1, <1>2, <1>3, AskedKept

LEMMA TidyStays ==
  ASSUME TxInv, StreamInv, [Next]_vars, Tidy
  PROVE  Tidy' \/ ~pending'
<1>1. Drained /\ consumer = producer
  BY DEF Tidy
<1>2. /\ consumer \in Nat /\ chunk = 0 /\ inFlight = 0
  BY <1>1, DrainedRests DEF TxInv, TypeOK
<1>3. CASE \E f \in Formats : Restart(f)
  BY <1>3 DEF Restart
<1>4. consumer' = consumer => Tidy' \/ ~pending'
  BY <1>1, <1>3, DrainedStays, DrainedRests, AskedKept DEF Tidy, FillCommit
<1>5. CASE ApplyPio \/ Poll
  <2>1. PollCompletion
    BY <1>5 DEF ApplyPio, Poll
  <2>2. consumer' = consumer + inFlight \/ consumer' = consumer
    BY <2>1, Completion
  <2>3. consumer' = consumer
    BY <1>2, <2>2
  <2> QED
    BY <1>4, <2>3
<1>6. CASE DrainCommit
  BY <1>2, <1>4, <1>6 DEF DrainCommit, CommitConsumed
<1>7. consumer' = consumer \/ ApplyPio \/ Poll \/ DrainCommit
      \/ (\E f \in Formats : Restart(f))
  <2>1. CASE \/ Fill \/ (\E f \in Formats : Request(f)) \/ Service \/ GiveUp
             \/ UNCHANGED vars \/ DmaMove \/ Shift \/ StartBit
    BY <2>1 DEF Fill, FillReserve, FillCopy, FillCommit, Request, Service,
       GiveUp, vars, DmaMove, Shift, Pull, Stall, StopBit, StartBit, ringVars
  <2>2. CASE \/ ApplyFifo \/ ProbeStall \/ ApplyHw \/ ApplyDefer \/ Apply
             \/ LaunchBlocked \/ StartDma \/ DrainPut
    BY <2>2 DEF ApplyFifo, ProbeStall, ApplyHw, ApplyDefer, Apply,
       LaunchBlocked, StartDma, DrainPut, ringVars
  <2> QED
    BY <2>1, <2>2 DEF Next, Host, ApplyTry, PollTx
<1> QED
  BY <1>3, <1>4, <1>5, <1>6, <1>7

(* One sweep of the worker with nothing left before the change.              *)
LEMMA WorkerTries ==
  ASSUME TxInv, Drained, Worker
  PROVE  /\ At("commit") => At("service")' /\ consumer' = producer'
         /\ At("poll") => At("service")' /\ consumer' = producer'
         /\ At("service") => At("apply")' \/ (~Tidy /\ At("poll")')
         /\ At("apply") => At("empty")' \/ (backend = "hw" /\ At("settle")')
         /\ At("empty") => At("probe")'
         /\ At("settle") => At("poll")' \/ ~pending'
         /\ ~At("launch")
<1> USE DEF At
<1>1. /\ shifter = 0 /\ fifo = <<>> /\ dmaLeft = 0
      /\ consumer + chunk + inFlight = producer
      /\ boundary = producer /\ wpc # "launch" /\ pending
      /\ {consumer, producer, chunk, inFlight} \subseteq Nat
      /\ backend \in {"hw", "pio"}
  BY DrainedRests, TxAssumption DEF TxInv, TypeOK, Drained
<1>2. CASE Service
  <2>1. ~BoundaryDrained => ~Tidy
    BY <1>1 DEF BoundaryDrained, Tidy
  <2> QED
    BY <1>1, <1>2, <2>1 DEF Service
<1>3. CASE ApplyPio
  <2>1. ~active /\ PollCompletion
    BY <1>3, RestWhileTried DEF ApplyPio
  <2>2. active' = active
    BY <2>1 DEF PollCompletion
  <2> QED
    BY <1>3, <2>1, <2>2 DEF ApplyPio
<1>4. CASE ApplyHw
  <2>1. ~active /\ ~HwBusy
    BY <1>1, <1>4, RestWhileTried DEF ApplyHw, HwBusy
  <2> QED
    BY <1>4, <2>1 DEF ApplyHw
<1>5. CASE ApplyFifo \/ ProbeStall \/ ApplyDefer \/ Apply
  BY <1>1, <1>5 DEF ApplyFifo, ProbeStall, ApplyDefer, Apply
<1>6. CASE Poll
  <2>1. PollCompletion /\ chunk = 0 /\ producer' = producer
    BY <1>6 DEF TxInv, LaunchInv, Poll
  <2>2. consumer' = producer
    <3>1. CASE active
      BY <1>1, <2>1, <3>1 DEF TxInv, LaunchInv, PollCompletion, CommitConsumed
    <3>2. CASE ~active
      BY <1>1, <2>1, <3>2 DEF TxInv, LaunchInv, PollCompletion
    <3> QED
      BY <3>1, <3>2
  <2> QED
    BY <1>6, <2>1, <2>2 DEF Poll
<1>7. CASE DrainCommit
  <2>1. /\ inFlight = 0 /\ chunk <= spanOut /\ CommitConsumed(chunk)
        /\ producer' = producer /\ wpc = "commit" /\ wpc' = "service"
    BY <1>7 DEF TxInv, LaunchInv, DrainCommit
  <2>2. consumer' = producer
    BY <1>1, <2>1 DEF CommitConsumed
  <2> QED
    BY <2>1, <2>2
<1>8. ~LaunchBlocked /\ ~StartDma /\ ~DrainPut
  BY <1>1 DEF LaunchBlocked, StartDma, DrainPut
<1> QED
  BY <1>2, <1>3, <1>4, <1>5, <1>6, <1>7, <1>8 DEF Worker, ApplyTry, PollTx

(* A look at TXSTALL: only a flag that came back lets the change through.    *)
LEMMA ProbeLooks ==
  ASSUME TxInv, Worker, At("probe")
  PROVE  \/ waiting /\ stalled /\ At("settle")'
         \/ ~waiting /\ stalled /\ waiting' /\ ~stalled' /\ At("poll")'
         \/ ~stalled /\ (waiting' <=> waiting) /\ ~stalled' /\ At("poll")'
<1>1. ProbeStall
  BY DEF At, Worker, Service, ApplyTry, PollTx, ApplyPio, ApplyFifo, ApplyHw,
         ApplyDefer, Apply, Poll, LaunchBlocked, StartDma, DrainPut, DrainCommit
<1>2. waiting \in BOOLEAN /\ stalled \in BOOLEAN
  BY DEF TxInv, TypeOK
<1> QED
  BY <1>1, <1>2 DEF ProbeStall, At

(* Between two looks the flag may be set but is not cleared.                 *)
LEMMA FlagsKept ==
  ASSUME TxInv, Drained, [Next]_vars
  PROVE  \/ (waiting' <=> waiting) /\ (stalled => stalled')
         \/ Worker /\ At("probe")
         \/ ~pending'
<1>1. CASE \/ Fill \/ (\E f \in Formats : Request(f)) \/ UNCHANGED vars
           \/ DmaMove \/ Shift \/ StartBit
  BY <1>1 DEF Fill, FillReserve, FillCopy, FillCommit, Request, vars, DmaMove,
     Shift, Pull, Stall, StopBit, StartBit, launchVars, wireVars
<1>2. CASE (\E f \in Formats : Restart(f)) \/ Apply \/ GiveUp
  BY <1>2 DEF Restart, Apply, GiveUp
<1>3. CASE ProbeStall
  BY <1>3 DEF ProbeStall, Worker, ApplyTry, At
<1>4. CASE \/ Service \/ ApplyPio \/ ApplyFifo \/ ApplyHw \/ ApplyDefer \/ Poll
           \/ LaunchBlocked \/ DrainCommit
  BY <1>4 DEF Service, ApplyPio, ApplyFifo, ApplyHw, ApplyDefer, Poll,
     LaunchBlocked, DrainCommit, launchVars, wireVars
<1>5. ~StartDma /\ ~DrainPut
  BY DrainedRests DEF StartDma, DrainPut
<1> QED
  BY <1>1, <1>2, <1>3, <1>4, <1>5 DEF Next, Host, ApplyTry, PollTx

(* On a PIO port the worker comes round again and again, and the transmitter *)
(* sets the flag again, until the worker finds it twice.                     *)
Untried == ~pending

LEMMA DrainedSettles ==
  FairSpec /\ []TxNeverBlocks => (Drained ~> Untried)
<1> DEFINE Inv   == TxInv /\ StreamInv
           Hw    == backend = "hw"
           Once  == waiting
           Flag  == stalled
           AtCommit  == At("commit")
           AtPoll    == At("poll")
           AtService == At("service")
           AtApply   == At("apply")
           AtEmpty   == At("empty")
           AtProbe   == At("probe")
           AtSettle  == At("settle")
<1>1. Inv /\ [Next]_vars /\ Drained => Drained' \/ Untried'
  BY DrainedStays DEF Untried
<1>2. Inv /\ [Next]_vars /\ Tidy => Tidy' \/ Untried'
  BY TidyStays DEF Untried
<1>3. Tidy => Drained
  BY DEF Tidy
<1>4. Inv /\ [Next]_vars /\ Drained =>
        \/ Worker \/ Untried'
        \/ /\ AtCommit => AtCommit'
           /\ AtPoll => AtPoll'
           /\ AtService => AtService'
           /\ AtApply => AtApply'
           /\ AtEmpty => AtEmpty'
           /\ AtProbe => AtProbe'
           /\ AtSettle => AtSettle'
  <2>1. GiveUp => Untried'
    BY DEF GiveUp, Untried
  <2> QED
    BY <2>1, WorkerKept DEF At
<1>5. Inv /\ [Next]_vars /\ Drained /\ Worker =>
        /\ AtCommit => (AtService' /\ Tidy') \/ Untried'
        /\ AtPoll => (AtService' /\ Tidy') \/ Untried'
        /\ AtService => AtApply' \/ (~Tidy /\ AtPoll')
        /\ AtApply => AtEmpty' \/ (Hw /\ AtSettle')
        /\ AtEmpty => AtProbe'
        /\ AtSettle => AtPoll' \/ Untried'
  BY <1>1, WorkerTries DEF Tidy, Untried
<1>6. Inv /\ Worker /\ AtProbe =>
        \/ Once /\ Flag /\ AtSettle'
        \/ ~Once /\ Flag /\ Once' /\ ~Flag' /\ AtPoll'
        \/ ~Flag /\ (Once' <=> Once) /\ ~Flag' /\ AtPoll'
  BY ProbeLooks
<1>7. Inv /\ [Next]_vars /\ Drained =>
        ((Once' <=> Once) /\ (Flag => Flag')) \/ (Worker /\ AtProbe) \/ Untried'
  BY FlagsKept DEF Untried
<1>8. Inv /\ Drained =>
        \/ AtCommit \/ AtPoll \/ AtService \/ AtApply \/ AtEmpty \/ AtProbe
        \/ AtSettle
  BY DrainedRests DEF TxInv, TypeOK, At
<1>9. Inv /\ (AtApply \/ AtEmpty \/ AtProbe \/ AtSettle) /\ Drained => Tidy
  BY RestWhileTried DEF At, Tidy
<1>10. Inv /\ (AtEmpty \/ AtProbe) => ~Hw
  BY DEF TxInv, RequestInv, At
<1>11. Inv /\ Drained /\ ~Hw /\ <<Shift>>_vars => Flag'
  BY DrainedRests DEF Shift, Pull, Stall, StopBit
<1>12. <<Apply>>_vars => Untried'
  BY DEF Apply, Untried
<1>13. TxNeverBlocks =>
         ENABLED <<Worker>>_vars /\ (AtSettle => ENABLED <<Apply>>_vars)
  BY DEF TxNeverBlocks, At
<1>14. TxNeverBlocks /\ Inv /\ Drained /\ ~Hw /\ ~Flag => ENABLED <<Shift>>_vars
  BY DrainedRests, TxAssumption DEF TxNeverBlocks, TxInv, TypeOK
<1>15. [Next]_vars => (Hw' <=> Hw)
  <2>1. [Next]_vars => backend' = backend
    BY DEF Next, Fill, FillReserve, FillCopy, FillCommit, Host, Request, Restart,
       Service, GiveUp, ApplyTry, ApplyPio, ApplyFifo, ProbeStall, ApplyHw,
       ApplyDefer, Apply, PollTx, Poll, LaunchBlocked, StartDma, DrainPut,
       DrainCommit, DmaMove, Shift, Pull, Stall, StopBit, StartBit, vars
  <2> QED
    BY <2>1
<1>16. <<Worker>>_vars => Worker
  OBVIOUS
<1> HIDE DEF Inv, Hw, Once, Flag, AtCommit, AtPoll, AtService, AtApply, AtEmpty,
             AtProbe, AtSettle
<1>17. Spec => []Inv
  BY StreamInductive DEF Inv
<1> QED
  BY <1>1, <1>2, <1>3, <1>4, <1>5, <1>6, <1>7, <1>8, <1>9, <1>10, <1>11,
     <1>12, <1>13, <1>14, <1>15, <1>16, <1>17, PTL DEF FairSpec, Fairness, Spec

(* A format change is applied or given up: it waits neither for ever for the *)
(* bytes before it nor, after them, for the sticky TXSTALL flag.             *)
THEOREM ChangesSettle == FairSpec /\ []TxNeverBlocks => FormatSettles
<1> SUFFICES ASSUME NEW n \in 0..MaxBytes
             PROVE  FairSpec /\ []TxNeverBlocks =>
                      (pending /\ Gone = n ~> ~pending \/ Gone > n)
  BY DEF FormatSettles
<1>1. n \in Nat
  BY TxAssumption
<1>2. FairSpec /\ []TxNeverBlocks => (Waits(n) ~> Passed(n))
  BY <1>1, ByteGoesOut
<1>3. TxInv /\ StreamInv /\ pending /\ Gone = n => Waits(n) \/ Drained
  BY DEF StreamInv, StreamTypeOK, Waits, Drained
<1>4. (Untried <=> ~pending) /\ (Passed(n) <=> Gone > n)
  BY DEF Untried, Passed
<1> QED
  BY <1>2, <1>3, <1>4, DrainedSettles, StreamInductive, PTL DEF FairSpec
=============================================================================
