---------------------------- MODULE RxPathProofs ----------------------------
(* The receive path keeps its promises for every ring, cursor width,         *)
(* countdown and snapshot buffer: RxInv is inductive, and with it every      *)
(* step of RxPath is a step of LossyStream or leaves its variables alone.    *)
(*                                                                           *)
(* Why an invariant: nobody knows where the DMA is.  The worker infers it    *)
(* from a count that starts again and again, core 0 from the worker's mark   *)
(* and a count of its own, and both from cursors that wrap.  RxInv says what *)
(* each of them knows at which point, in positions of the wire.              *)
EXTENDS RxPath, SequenceTheorems, TLAPS
-----------------------------------------------------------------------------
(* Arithmetic of cursors that wrap.                                          *)

(* A remainder is a digit.                                                   *)
LEMMA ModRange ==
  ASSUME NEW m \in Nat \ {0}, NEW a \in Nat
  PROVE  a % m \in 0..(m - 1)
OBVIOUS

(* What whole turns there are besides the remainder.                         *)
LEMMA ModTurns ==
  ASSUME NEW m \in Nat \ {0}, NEW a \in Nat
  PROVE  \E q \in Nat : a = (q * m) + (a % m)
<1> DEFINE q == a \div m
<1>1. q \in Nat /\ a = (q * m) + (a % m)
  OBVIOUS
<1> HIDE DEF q
<1> QED BY <1>1

(* Whole turns leave no trace.                                               *)
LEMMA ModWhole ==
  ASSUME NEW m \in Nat \ {0}, NEW q \in Int, NEW r \in 0..(m - 1)
  PROVE  ((q * m) + r) % m = r
OBVIOUS

(* A position of the first turn is its own remainder.                        *)
LEMMA ModSmall ==
  ASSUME NEW m \in Nat \ {0}, NEW r \in 0..(m - 1)
  PROVE  r % m = r
<1>1. ((0 * m) + r) % m = r
  BY ModWhole
<1> QED BY <1>1

(* How far a position is from a cursor that is less than a turn behind.      *)
LEMMA ModBehind ==
  ASSUME NEW m \in Nat \ {0}, NEW a \in Nat, NEW b \in Nat, a <= b, b - a < m
  PROVE  (b - (a % m)) % m = b - a
<1> DEFINE r == a % m
<1>1. PICK p \in Nat : a = (p * m) + r
  BY ModTurns
<1>2. r \in Int
  BY ModRange
<1> HIDE DEF r
<1>3. b - r = (p * m) + (b - a)
  BY <1>1, <1>2
<1>4. b - a \in 0..(m - 1) /\ p \in Int
  OBVIOUS
<1>5. (b - r) % m = b - a
  BY <1>3, <1>4, ModWhole
<1> QED BY <1>5 DEF r

(* The same between two cursors.                                             *)
LEMMA ModDifference ==
  ASSUME NEW m \in Nat \ {0}, NEW a \in Nat, NEW b \in Nat, a <= b, b - a < m
  PROVE  ((b % m) - (a % m)) % m = b - a
<1>1. PICK p \in Nat : a = (p * m) + (a % m)
  BY ModTurns
<1>2. PICK q \in Nat : b = (q * m) + (b % m)
  BY ModTurns
<1>3. a % m \in Int /\ b % m \in Int
  BY ModRange
<1>4. (b % m) - (a % m) = ((p - q) * m) + (b - a)
  BY <1>1, <1>2, <1>3
<1>5. b - a \in 0..(m - 1) /\ p - q \in Int
  OBVIOUS
<1> QED BY <1>4, <1>5, ModWhole

(* Moving a cursor moves the position behind it.                             *)
LEMMA ModPlus ==
  ASSUME NEW m \in Nat \ {0}, NEW a \in Nat, NEW k \in Nat
  PROVE  ((a % m) + k) % m = (a + k) % m
<1> DEFINE r == a % m
           t == (r + k) % m
<1>1. PICK p \in Nat : a = (p * m) + r
  BY ModTurns
<1>2. r \in Nat
  BY ModRange
<1> HIDE DEF r
<1>3. r + k \in Nat
  BY <1>2
<1>4. PICK q \in Nat : r + k = (q * m) + t
  BY <1>3, ModTurns
<1>5. t \in 0..(m - 1)
  BY <1>3, ModRange
<1> HIDE DEF t
<1>6. a + k = ((p + q) * m) + t
  BY <1>1, <1>2, <1>4, <1>5
<1>7. p + q \in Int
  OBVIOUS
<1>8. (((p + q) * m) + t) % m = t
  BY <1>5, <1>7, ModWhole
<1>9. (a + k) % m = t
  BY <1>6, <1>8
<1> QED BY <1>9 DEF t, r

(* A cursor finds the cell of its position when the ring divides the turn.   *)
LEMMA ModDivides ==
  ASSUME NEW m \in Nat \ {0}, NEW s \in Nat \ {0}, m % s = 0, NEW a \in Nat
  PROVE  (a % m) % s = a % s
<1> DEFINE r == a % m
           t == r % s
<1>1. PICK q \in Nat : m = (q * s) + (m % s)
  BY ModTurns
<1>2. PICK p \in Nat : a = (p * m) + r
  BY ModTurns
<1>3. r \in Nat
  BY ModRange
<1> HIDE DEF r
<1>4. PICK n \in Nat : r = (n * s) + t
  BY <1>3, ModTurns
<1>5. t \in 0..(s - 1)
  BY <1>3, ModRange
<1> HIDE DEF t
<1>6. m = q * s
  BY <1>1
<1>7. a = (((p * q) + n) * s) + t
  BY <1>2, <1>4, <1>5, <1>6
<1>8. (p * q) + n \in Int
  OBVIOUS
<1>9. ((((p * q) + n) * s) + t) % s = t
  BY <1>5, <1>8, ModWhole
<1>10. a % s = t
  BY <1>7, <1>9
<1> QED BY <1>10 DEF t, r

(* The cell of a byte is found from a cursor as well as from a position.     *)
LEMMA ModCell ==
  ASSUME NEW m \in Nat \ {0}, NEW s \in Nat \ {0}, m % s = 0,
         NEW a \in Nat, NEW i \in Nat
  PROVE  ((a % m) + i) % s = (a + i) % s
<1> DEFINE r == a % m
<1>1. r \in Nat
  BY ModRange
<1>2. r % s = a % s
  BY ModDivides
<1> HIDE DEF r
<1>3. ((r % s) + i) % s = (r + i) % s
  BY <1>1, ModPlus
<1>4. ((a % s) + i) % s = (a + i) % s
  BY ModPlus
<1>5. (r + i) % s = (a + i) % s
  BY <1>2, <1>3, <1>4
<1> QED BY <1>5 DEF r

(* Positions less than a ring apart have different cells.                    *)
LEMMA ModDistinct ==
  ASSUME NEW m \in Nat \ {0}, NEW a \in Nat, NEW b \in Nat, a < b, b - a < m
  PROVE  a % m # b % m
<1>1. ((b % m) - (a % m)) % m = b - a
  <2>1. a <= b
    OBVIOUS
  <2> QED BY <2>1, ModDifference
<1>2. b % m \in Int
  BY ModRange
<1>3. 0 % m = 0
  BY ModSmall
<1>4. ASSUME a % m = b % m PROVE FALSE
  <2> DEFINE r == b % m
  <2>1. r \in Int /\ (r - r) % m = b - a
    BY <1>1, <1>2, <1>4
  <2> HIDE DEF r
  <2>2. r - r = 0
    BY <2>1
  <2> QED BY <1>3, <2>1, <2>2
<1> QED BY <1>4
-----------------------------------------------------------------------------
(* The invariant.                                                            *)

Published == received - Unpublished

(* The cursors are positions of the wire, less than a turn old.              *)
CursorInv ==
  /\ Published \in Nat /\ producer = Published % Modulus
  /\ Consumed \in Nat /\ consumer = Consumed % Modulus
  /\ Consumed <= Published /\ Published <= received
  /\ received - Consumed < Modulus /\ received - Published < Countdown

(* The ring holds the last bytes, and the DMA writes behind them.            *)
RingInv ==
  /\ writeAt = received % Size
  /\ \A j \in 1..received : j > received - Size => cell[(j - 1) % Size] = j

(* From the moment the count has settled until the channel is armed again.   *)
Stopping ==
  \/ wpc \in {"abort", "stopped", "configure"}
  \/ site = "finish" /\ wpc \in {"sample", "store", "produce"}

WorkInv ==
  /\ wpc = "idle" <=> ~updating
  /\ channel = "dead" => wpc \in {"idle", "end"}
  /\ channel = "off" <=> wpc \in {"stopped", "configure"}
  /\ wpc = "settle" \/ Stopping => ~irqOn /\ channel # "run"
  /\ channel = "paused" => wpc = "settle" \/ Stopping
  /\ channel = "dead" => ~irqOn

(* What the worker, knowing its mark, has yet to learn from the count, and   *)
(* what it knows in the middle of a publish.                                 *)
ProgressInv ==
  /\ ProgressAccountsForBytes
  /\ wpc = "store" => wprod = BytesProduced(wprog, lastProgress)
  /\ wpc = "produce" => lastProgress = wprog
  /\ wpc \in {"store", "produce"} =>
       Unpublished = wprod + BytesProduced(Progress, wprog)
  /\ Stopping /\ wpc \in {"store", "produce"} => Unpublished = wprod
  /\ wpc \in {"abort", "stopped", "configure"} => Unpublished = 0
  /\ wpc = "configure" => lastProgress = 0

Holding == {"sample", "copy", "check", "progress", "last", "live", "seq",
            "write", "commit"}

(* A span is what was published, and stays the bridge's until it is done.    *)
BridgeInv ==
  /\ cpc \in Holding =>
       /\ reservedSeq = consumer
       /\ offered \in 1..reservedCount
       /\ Consumed + reservedCount <= Published
  /\ cpc \in {"idle", "recover", "reserve", "sample"} => snap = <<>>
  /\ cpc = "copy" => Len(snap) < offered
  /\ cpc \in Holding \ {"sample", "copy"} => Len(snap) = offered
  /\ cpc = "commit" => accepted \in 1..offered
  /\ cpc # "commit" => accepted = 0

Faithful == \A i \in 1..Len(snap) : snap[i] = Consumed + i

(* The copy is good if the DMA had not yet lapped it when the count was      *)
(* read.                                                                     *)
GoodUpTo(n) == n <= received /\ (n <= Consumed + Size => Faithful)

SnapInv ==
  /\ cpc \in {"copy", "check", "progress"} => GoodUpTo(received)
  /\ cpc \in {"copy", "check", "progress", "last", "live", "seq"} /\ ~moved =>
       ~updating
  /\ cpc = "last" /\ ~moved =>
       GoodUpTo(Published + BytesProduced(cprog, lastProgress))
  /\ cpc = "live" /\ ~moved => GoodUpTo(Published + cprod)
  /\ cpc = "seq" /\ ~moved => Faithful
  /\ cpc = "write" => Faithful

LossInv == Len(host) <= Position /\ LossCounted

RxInv == /\ TypeOK /\ CursorInv /\ RingInv /\ WorkInv /\ ProgressInv
         /\ BridgeInv /\ SnapInv /\ LossInv
-----------------------------------------------------------------------------
(* What the parts of the invariant say to one another.                       *)

(* The assumptions in the form the proofs use them.                          *)
LEMMA Constants ==
  /\ Size \in Nat \ {0} /\ Modulus \in Nat \ {0} /\ Countdown \in Nat \ {0}
  /\ SnapshotCap \in Nat \ {0} /\ MaxBytes \in Nat
  /\ Size <= Modulus /\ Modulus % Size = 0 /\ Countdown < Modulus
<1> DEFINE r == Modulus % Size
<1>1. /\ Size \in Nat \ {0} /\ Modulus \in Nat /\ Countdown \in Nat \ {0}
      /\ SnapshotCap \in Nat \ {0} /\ MaxBytes \in Nat
      /\ 2 * Size <= Modulus /\ r = 0 /\ Countdown < Modulus
  BY RxAssumption
<1> HIDE DEF r
<1>2. Modulus \in Nat \ {0} /\ Size <= Modulus
  BY <1>1
<1> QED BY <1>1, <1>2 DEF r

(* The countdown alone, for arithmetic that needs no more.                   *)
LEMMA CountdownNat == Countdown \in Nat
BY Constants

(* ModCell for the ring of this module.                                      *)
LEMMA CellOf ==
  \A a \in Nat, i \in Nat : ((a % Modulus) + i) % Size = (a + i) % Size
<1>1. Modulus \in Nat \ {0} /\ Size \in Nat \ {0} /\ Modulus % Size = 0
  BY Constants
<1> QED BY <1>1, ModCell, Zenon

(* ModPlus for the cursors of this module.                                   *)
LEMMA PlusAt ==
  \A a \in Nat, k \in Nat : Plus(a % Modulus, k) = (a + k) % Modulus
<1>1. Modulus \in Nat \ {0}
  BY Constants
<1> QED BY <1>1, ModPlus DEF Plus

(* Zero is in every range.                                                   *)
LEMMA ZeroRange ==
  /\ 0 \in 0..SnapshotCap /\ 0 \in 0..Countdown /\ 0 \in 0..Size
  /\ 0..SnapshotCap \subseteq Nat
<1>1. SnapshotCap \in Nat /\ Countdown \in Nat /\ Size \in Nat
  BY Constants
<1> QED BY <1>1

(* A channel that was just armed, or just finished, has a legal count.       *)
LEMMA CountRange == {0, Countdown} \subseteq 0..Countdown
<1>1. Countdown \in Nat
  BY Constants
<1> QED BY <1>1

(* A difference of cursors is a cursor.                                      *)
LEMMA MinusRange ==
  ASSUME NEW a \in Int, NEW b \in Int
  PROVE  Minus(a, b) \in 0..(Modulus - 1)
<1>1. Modulus \in Nat \ {0} /\ a - b \in Int
  BY Constants
<1>2. ASSUME NEW m \in Nat \ {0}, NEW d \in Int PROVE d % m \in 0..(m - 1)
  OBVIOUS
<1> QED BY <1>1, <1>2 DEF Minus

(* No more than a countdown lies between two samples.                        *)
LEMMA ProducedRange ==
  ASSUME NEW p \in 0..Countdown, NEW l \in 0..Countdown
  PROVE  BytesProduced(p, l) \in 0..Countdown
BY Constants DEF BytesProduced

(* A byte more in the count is a byte more, as long as the worker looks at   *)
(* least once per countdown.                                                 *)
LEMMA ProducedStep ==
  ASSUME NEW p \in 0..Countdown, NEW l \in 0..Countdown, p < Countdown,
         BytesProduced(p, l) + 1 < Countdown
  PROVE  BytesProduced(p + 1, l) = BytesProduced(p, l) + 1
BY Constants DEF BytesProduced

(* Under the same condition a count that starts again changes nothing.       *)
LEMMA ProducedRearm ==
  ASSUME NEW l \in 0..Countdown, BytesProduced(Countdown, l) < Countdown
  PROVE  BytesProduced(0, l) = BytesProduced(Countdown, l)
BY Constants DEF BytesProduced

(* Nothing lies between a sample and itself.                                 *)
LEMMA ProducedSame ==
  ASSUME NEW p \in 0..Countdown
  PROVE  BytesProduced(p, p) = 0
BY Constants DEF BytesProduced

(* The progress of a legal count is legal.                                   *)
LEMMA ProgressRange ==
  ASSUME TypeOK
  PROVE  Progress \in 0..Countdown
BY Constants DEF TypeOK, Progress

(* Cursors that show p and c stand for them.                                 *)
LEMMA CursorsAt ==
  ASSUME received' \in Nat, NEW p \in Nat, NEW c \in Nat,
         c <= p, p <= received', received' - c < Modulus,
         received' - p < Countdown
  PROVE  producer' = p % Modulus /\ consumer' = c % Modulus =>
           /\ CursorInv' /\ Published' = p /\ Consumed' = c
           /\ Unpublished' = received' - p
<1> DEFINE r == received'
<1>1. Modulus \in Nat \ {0} /\ Countdown < Modulus /\ Countdown \in Nat
  BY Constants
<1>2. r \in Nat /\ c <= r /\ r - p < Modulus
  <2>1. ASSUME NEW n \in Nat, c <= p, p <= n, n - p < Countdown
        PROVE  c <= n /\ n - p < Modulus
    BY <1>1, <2>1
  <2> QED BY <2>1
<1>3. r - (r - p) = p /\ r - (r - c) = c
  <2>1. ASSUME NEW n \in Nat PROVE n - (n - p) = p /\ n - (n - c) = c
    OBVIOUS
  <2> QED BY <2>1
<1>4. (r - (p % Modulus)) % Modulus = r - p
  BY <1>1, <1>2, ModBehind
<1>5. (r - (c % Modulus)) % Modulus = r - c
  BY <1>1, <1>2, ModBehind
<1> SUFFICES ASSUME producer' = p % Modulus, consumer' = c % Modulus
             PROVE  /\ CursorInv' /\ Published' = p /\ Consumed' = c
                    /\ Unpublished' = received' - p
  OBVIOUS
<1>6. Unpublished' = r - p /\ Lag' = r - c
  BY <1>4, <1>5 DEF Unpublished, Lag, Minus
<1>7. Published' = p /\ Consumed' = c
  BY <1>3, <1>6, Zenon DEF Published, Consumed
<1>8. CursorInv'
  BY <1>7, Zenon DEF CursorInv
<1> QED BY <1>6, <1>7, <1>8

(* What the differences of cursors mean in positions.                        *)
LEMMA Distance ==
  ASSUME TypeOK, CursorInv
  PROVE  /\ Minus(producer, consumer) = Published - Consumed
         /\ Lag = received - Consumed /\ Unpublished = received - Published
         /\ received \in Nat
<1>1. Modulus \in Nat \ {0} /\ received \in Nat
  BY Constants DEF TypeOK
<1>2. /\ Published \in Nat /\ Consumed \in Nat /\ Consumed <= Published
      /\ Published <= received /\ received - Consumed < Modulus
  BY DEF CursorInv
<1>3. Published - Consumed < Modulus
  BY <1>1, <1>2
<1>4. Minus(producer, consumer) = Published - Consumed
  BY <1>1, <1>2, <1>3, ModDifference DEF CursorInv, Minus
<1>5. Lag \in Int /\ Unpublished \in Int
  <2>1. producer \in Int /\ consumer \in Int
    BY <1>1 DEF TypeOK, Cursors
  <2>2. Minus(received, producer) \in Int /\ Minus(received, consumer) \in Int
    BY <1>1, <2>1, MinusRange
  <2> QED BY <2>2 DEF Lag, Unpublished
<1>6. Lag = received - Consumed
  BY <1>1, <1>5 DEF Consumed
<1>7. Unpublished = received - Published
  BY <1>1, <1>5 DEF Published
<1> QED BY <1>1, <1>4, <1>6, <1>7

(* Without a byte and without a cursor moving no position moves.             *)
LEMMA CursorsStay ==
  ASSUME CursorInv, UNCHANGED <<received, producer, consumer>>
  PROVE  /\ CursorInv' /\ Published' = Published /\ Consumed' = Consumed
         /\ Unpublished' = Unpublished
BY DEF CursorInv, Published, Consumed, Lag, Unpublished, Minus

(* Without a write the ring holds what it held.                              *)
LEMMA RingStays ==
  ASSUME RingInv, UNCHANGED <<received, cell, writeAt>>
  PROVE  RingInv'
BY DEF RingInv

(* Core 0 does not notice that more is received or published ...             *)
LEMMA BridgeStays ==
  ASSUME BridgeInv, LossInv, UNCHANGED bridgeVars,
         Consumed' = Consumed, Published' >= Published,
         Published \in Int, Published' \in Int, Consumed \in Int,
         reservedCount \in Int
  PROVE  BridgeInv' /\ LossInv'
<1>1. BridgeInv'
  BY DEF BridgeInv, bridgeVars, copyVars, spanVars, Holding
<1>2. LossInv'
  BY DEF LossInv, LossCounted, Position, bridgeVars
<1> QED BY <1>1, <1>2

(* ... and learns from the sequence that marks and producer moved.           *)
LEMMA CopyStays ==
  ASSUME SnapInv, UNCHANGED <<received, bridgeVars>>, Consumed' = Consumed,
         moved' \/ (updating /\ UNCHANGED moved)
  PROVE  SnapInv'
<1>1. Faithful' <=> Faithful
  BY DEF Faithful, bridgeVars, copyVars
<1>2. GoodUpTo(received)' <=> GoodUpTo(received)
  BY <1>1 DEF GoodUpTo
<1> QED
  BY <1>1, <1>2 DEF SnapInv, bridgeVars
-----------------------------------------------------------------------------
(* The hardware.                                                             *)

(* A byte leaves every count and cursor in its range.                        *)
LEMMA DmaWriteTypes ==
  ASSUME RxInv, DmaWrite
  PROVE  TypeOK'
<1>1. /\ received + 1 \in 0..MaxBytes /\ remaining - 1 \in 0..Countdown
      /\ cell' \in [0..(Size - 1) -> 0..MaxBytes]
  BY Constants DEF RxInv, TypeOK, DmaWrite
<1>2. (writeAt + 1) % Size \in 0..(Size - 1)
  <2>1. writeAt + 1 \in Nat
    BY Constants DEF RxInv, TypeOK
  <2> QED BY <2>1, Constants, ModRange
<1> QED
  BY <1>1, <1>2 DEF RxInv, TypeOK, DmaWrite, wrkVars, seqVars, bridgeVars,
                    spanVars, copyVars

(* The byte stored is the newest, and it takes the cell of the oldest.       *)
LEMMA DmaWriteRing ==
  ASSUME RxInv, DmaWrite
  PROVE  RingInv'
<1>1. /\ received \in Nat /\ Size \in Nat \ {0} /\ received' = received + 1
      /\ writeAt = received % Size /\ writeAt' = (writeAt + 1) % Size
      /\ cell' = [cell EXCEPT ![writeAt] = received + 1]
      /\ cell \in [0..(Size - 1) -> 0..MaxBytes]
  BY Constants DEF RxInv, TypeOK, RingInv, DmaWrite
<1>2. writeAt' = received' % Size
  BY <1>1, ModPlus
<1>3. ASSUME NEW j \in 1..received', j > received' - Size
      PROVE  cell'[(j - 1) % Size] = j
  <2>1. j - 1 \in Nat /\ j \in Nat
    BY <1>1
  <2>2. (j - 1) % Size \in 0..(Size - 1)
    BY <1>1, <2>1, ModRange
  <2>3. CASE j = received + 1
    <3>1. j - 1 = received
      BY <1>1, <2>3
    <3> QED BY <1>1, <2>2, <2>3, <3>1
  <2>4. CASE j # received + 1
    <3>1. j \in 1..received /\ j > received - Size
      BY <1>1, <1>3, <2>4
    <3>2. j - 1 < received /\ received - (j - 1) < Size
      BY <1>1, <1>3, <3>1
    <3>3. (j - 1) % Size # writeAt
      BY <1>1, <2>1, <3>2, ModDistinct
    <3>4. cell[(j - 1) % Size] = j
      BY <3>1 DEF RxInv, RingInv
    <3> QED BY <1>1, <2>2, <3>3, <3>4
  <2> QED BY <2>3, <2>4
<1> QED BY <1>2, <1>3 DEF RingInv

(* A byte more to publish is a byte more in the count.                       *)
LEMMA DmaWriteProgress ==
  ASSUME RxInv, DmaWrite, Unpublished' = Unpublished + 1
  PROVE  ProgressInv' /\ WorkInv'
<1>1. /\ Progress \in 0..Countdown /\ Progress < Countdown
      /\ Progress' = Progress + 1
  BY Constants, ProgressRange DEF RxInv, TypeOK, DmaWrite, Progress
<1>2. /\ lastProgress \in 0..Countdown /\ wprog \in 0..Countdown
      /\ wprod \in 0..Countdown /\ Unpublished \in Int
      /\ Unpublished + 1 < Countdown /\ Countdown \in Nat
  <2>1. Unpublished \in Int
    BY Distance DEF RxInv, CursorInv
  <2> QED BY <2>1, Constants DEF RxInv, TypeOK, DmaWrite
<1>3. /\ UNCHANGED <<lastProgress, wpc, site, wprog, wprod, updating>>
      /\ channel # "dead" /\ channel' # "dead" /\ ~Stopping
      /\ wpc \notin {"stopped", "configure", "abort"}
      /\ channel' \in {channel, "done"} /\ irqOn' = irqOn /\ channel # "off"
  BY DEF RxInv, WorkInv, DmaWrite, wrkVars, seqVars, Stopping
<1>4. ASSUME NEW l \in 0..Countdown, BytesProduced(Progress, l) + 1 < Countdown
      PROVE  BytesProduced(Progress', l) = BytesProduced(Progress, l) + 1
  BY <1>1, <1>4, ProducedStep
<1>5. \A p, l : BytesProduced(p, l)' = BytesProduced(p', l')
  BY DEF BytesProduced
<1>6. ASSUME wpc # "produce"
      PROVE  Unpublished' = BytesProduced(Progress', lastProgress')
  <2>1. Unpublished = BytesProduced(Progress, lastProgress)
    BY <1>3, <1>6 DEF RxInv, ProgressInv, ProgressAccountsForBytes
  <2> QED BY <1>2, <1>3, <1>4, <2>1
<1>7. ASSUME wpc \in {"store", "produce"}
      PROVE  Unpublished' = wprod + BytesProduced(Progress', wprog)
  <2>1. Unpublished = wprod + BytesProduced(Progress, wprog)
    BY <1>7 DEF RxInv, ProgressInv
  <2>2. BytesProduced(Progress, wprog) \in 0..Countdown
    BY <1>1, <1>2, ProducedRange
  <2>3. BytesProduced(Progress, wprog) + 1 < Countdown
    BY <1>2, <2>1, <2>2
  <2>4. BytesProduced(Progress', wprog) = BytesProduced(Progress, wprog) + 1
    BY <1>2, <1>4, <2>3
  <2> QED BY <1>2, <2>1, <2>2, <2>4
<1>8. ProgressInv'
  BY <1>3, <1>6, <1>7
     DEF RxInv, ProgressInv, ProgressAccountsForBytes, Stopping, BytesProduced
<1>9. WorkInv'
  BY <1>3 DEF RxInv, WorkInv, Stopping
<1> QED BY <1>8, <1>9

(* The DMA lengthens the stream and moves no cursor.                         *)
LEMMA DmaWriteKeeps ==
  ASSUME RxInv, DmaWrite
  PROVE  RxInv' /\ Consumed' = Consumed
<1>1. /\ received \in Nat /\ received' = received + 1
      /\ Published \in Nat /\ Consumed \in Nat
      /\ Consumed <= Published /\ Published <= received
      /\ Lag = received - Consumed /\ Unpublished = received - Published
      /\ Lag < Modulus - 1 /\ Unpublished < Countdown - 1
      /\ Modulus \in Nat /\ Countdown \in Nat
  BY Distance, Constants DEF RxInv, CursorInv, DmaWrite
<1>2. /\ received' \in Nat /\ Published <= received'
      /\ received' - Consumed < Modulus /\ received' - Published < Countdown
  BY <1>1
<1>3. producer' = Published % Modulus /\ consumer' = Consumed % Modulus
  BY DEF RxInv, CursorInv, DmaWrite, bridgeVars
<1>4. /\ CursorInv' /\ Published' = Published /\ Consumed' = Consumed
      /\ Unpublished' = received' - Published
  BY <1>1, <1>2, <1>3, CursorsAt
<1>5. ProgressInv' /\ WorkInv'
  BY <1>1, <1>4, DmaWriteProgress
<1>6. BridgeInv' /\ LossInv'
  <2>1. reservedCount \in Int /\ UNCHANGED bridgeVars
    BY DEF RxInv, TypeOK, DmaWrite
  <2> QED BY <1>1, <1>4, <2>1, BridgeStays DEF RxInv
<1>7. SnapInv'
  <2>1. UNCHANGED <<bridgeVars, lastProgress, moved, updating>>
    BY DEF DmaWrite, wrkVars, seqVars
  <2>2. Faithful' <=> Faithful
    BY <1>4, <2>1 DEF Faithful, bridgeVars, copyVars
  <2>3. ASSUME NEW n \in Int, GoodUpTo(n)
        PROVE  n <= received' /\ (n <= Consumed' + Size => Faithful')
    BY <1>1, <1>4, <2>2, <2>3 DEF GoodUpTo
  <2>4. GoodUpTo(received) => GoodUpTo(received)'
    <3>1. received <= received' /\ received' <= received'
      BY <1>1
    <3>2. received' <= Consumed + Size => received <= Consumed + Size
      <4>1. Size \in Nat
        BY Constants
      <4> QED BY <1>1, <4>1
    <3> QED BY <1>4, <2>2, <3>1, <3>2 DEF GoodUpTo
  <2>5. /\ Published + cprod \in Int
        /\ Published + BytesProduced(cprog, lastProgress) \in Int
    <3>1. cprog \in 0..Countdown /\ lastProgress \in 0..Countdown
      BY DEF RxInv, TypeOK
    <3>2. BytesProduced(cprog, lastProgress) \in 0..Countdown
      BY <3>1, ProducedRange
    <3>3. cprod \in 0..Countdown
      BY DEF RxInv, TypeOK
    <3> QED BY <1>1, <3>2, <3>3
  <2>6. /\ GoodUpTo(Published + cprod) => GoodUpTo(Published + cprod)'
        /\ GoodUpTo(Published + BytesProduced(cprog, lastProgress)) =>
             GoodUpTo(Published + BytesProduced(cprog, lastProgress))'
    BY <1>4, <2>1, <2>3, <2>5
       DEF GoodUpTo, BytesProduced, bridgeVars, copyVars
  <2> QED BY <2>1, <2>2, <2>4, <2>6 DEF RxInv, SnapInv, bridgeVars
<1> QED
  BY <1>4, <1>5, <1>6, <1>7, DmaWriteTypes, DmaWriteRing DEF RxInv

(* A channel that starts again.                                              *)
LEMMA RearmProgress ==
  ASSUME RxInv, ShouldRearm, Rearm, ~Stopping, channel # "dead",
         UNCHANGED <<received, producer, lastProgress, site, wprog, wprod>>,
         wpc' = wpc \/ (wpc = "rearm" /\ wpc' = "end")
  PROVE  ProgressInv'
<1>1. remaining = 0 /\ Progress = Countdown /\ Progress' = 0
  BY Constants DEF RxInv, TypeOK, ShouldRearm, Rearm, Progress
<1>2. ~Stopping' /\ wpc \notin {"abort", "stopped", "configure"}
  BY DEF Stopping
<1>3. /\ lastProgress \in 0..Countdown /\ wprog \in 0..Countdown
      /\ wprod \in 0..Countdown /\ Unpublished \in Int
      /\ Unpublished < Countdown /\ Countdown \in Nat
      /\ Unpublished' = Unpublished
  <2>1. Unpublished \in Int /\ Unpublished < Countdown
    BY Distance DEF RxInv, CursorInv
  <2> QED BY <2>1, Constants DEF RxInv, TypeOK, Unpublished, Minus
<1>4. ASSUME wpc # "produce"
      PROVE  Unpublished' = BytesProduced(Progress', lastProgress')
  <2>1. Unpublished = BytesProduced(Progress, lastProgress)
    BY <1>2, <1>4 DEF RxInv, ProgressInv, ProgressAccountsForBytes
  <2> QED BY <1>1, <1>3, <2>1, ProducedRearm
<1>5. ASSUME wpc \in {"store", "produce"}
      PROVE  Unpublished' = wprod + BytesProduced(Progress', wprog)
  <2>1. Unpublished = wprod + BytesProduced(Progress, wprog)
    BY <1>5 DEF RxInv, ProgressInv
  <2>2. BytesProduced(Progress, wprog) \in 0..Countdown
    BY <1>1, <1>3, ProgressRange, ProducedRange DEF RxInv
  <2>3. BytesProduced(Progress, wprog) < Countdown
    BY <1>3, <2>1, <2>2
  <2> QED BY <1>1, <1>3, <2>1, <2>3, ProducedRearm
<1>6. ProgressAccountsForBytes'
  BY <1>4 DEF ProgressAccountsForBytes, BytesProduced
<1> QED
  BY <1>2, <1>3, <1>5, <1>6 DEF RxInv, ProgressInv, BytesProduced

(* The handler starts the count again and changes nothing else.              *)
LEMMA RxDmaIrqKeeps ==
  ASSUME RxInv, RxDmaIrq
  PROVE  RxInv'
<1>1. UNCHANGED <<received, cell, writeAt, irqOn, wrkVars, producer, seqVars,
                  bridgeVars, consumer>>
  BY DEF RxDmaIrq, bridgeVars
<1>2. ~Stopping /\ channel # "dead" /\ wpc # "settle"
  BY DEF RxInv, WorkInv, RxDmaIrq
<1>3. /\ CursorInv' /\ Published' = Published /\ Consumed' = Consumed
      /\ Unpublished' = Unpublished /\ RingInv'
  BY <1>1, CursorsStay, RingStays DEF RxInv
<1>4. ProgressInv'
  <2>1. CASE ShouldRearm
    BY <1>1, <1>2, <2>1, RearmProgress DEF RxDmaIrq, wrkVars
  <2>2. CASE ~ShouldRearm
    BY <1>1, <1>3, <2>2
       DEF RxInv, ProgressInv, ProgressAccountsForBytes, Progress, Stopping,
           BytesProduced, RxDmaIrq, wrkVars
  <2> QED BY <2>1, <2>2
<1>5. WorkInv' /\ TypeOK'
  <2>1. WorkInv'
    BY <1>1, <1>2 DEF RxInv, WorkInv, RxDmaIrq, Rearm, Stopping, wrkVars, seqVars
  <2>2. TypeOK'
    BY <1>1, CountRange
       DEF RxInv, TypeOK, RxDmaIrq, Rearm, wrkVars, seqVars, bridgeVars,
           spanVars, copyVars
  <2> QED BY <2>1, <2>2
<1>6. BridgeInv' /\ LossInv'
  BY <1>1, <1>3, BridgeStays DEF RxInv, CursorInv, TypeOK
<1>7. SnapInv'
  <2>1. Faithful' <=> Faithful
    BY <1>1, <1>3 DEF Faithful, bridgeVars, copyVars
  <2>2. \A n : GoodUpTo(n)' <=>
                 n' <= received /\ (n' <= Consumed + Size => Faithful)
    BY <1>1, <1>3, <2>1 DEF GoodUpTo
  <2> QED
    BY <1>1, <1>3, <2>1
       DEF RxInv, SnapInv, GoodUpTo, BytesProduced, wrkVars, seqVars,
           bridgeVars, copyVars
<1> QED BY <1>3, <1>4, <1>5, <1>6, <1>7 DEF RxInv
-----------------------------------------------------------------------------
(* The worker.                                                               *)

(* The types of a step of the worker are those of its own variables and of   *)
(* the channel.                                                              *)
LEMMA WorkerTypes ==
  ASSUME TypeOK, UNCHANGED <<backend, received, cell, bridgeVars>>,
         writeAt' \in 0..(Size - 1), remaining' \in 0..Countdown,
         channel' \in {"run", "paused", "done", "off", "dead"},
         irqPending' \in BOOLEAN, irqOn' \in BOOLEAN, wpc' \in WorkerPcs,
         site' \in {"poll", "try", "finish"}, wprog' \in 0..Countdown,
         wprod' \in 0..Countdown, applies' \in 0..MaxApplies,
         lastProgress' \in 0..Countdown, producer' \in Cursors,
         updating' \in BOOLEAN, moved' \in BOOLEAN
  PROVE  TypeOK'
BY DEF TypeOK, bridgeVars, spanVars, copyVars

(* A step of the worker that does not move the producer.                     *)
LEMMA WorkerKeeps ==
  ASSUME RxInv, TypeOK', WorkInv', ProgressInv', RingInv',
         UNCHANGED <<received, producer, bridgeVars>>,
         moved' \/ (updating /\ UNCHANGED moved)
  PROVE  RxInv'
<1>1. CursorInv' /\ Published' = Published /\ Consumed' = Consumed
  BY CursorsStay DEF RxInv, bridgeVars
<1>2. BridgeInv' /\ LossInv'
  BY <1>1, BridgeStays DEF RxInv, CursorInv, TypeOK
<1>3. SnapInv'
  BY <1>1, CopyStays DEF RxInv
<1> QED BY <1>1, <1>2, <1>3 DEF RxInv

(* A step that neither publishes nor stops anything.                         *)
LEMMA ProgressStays ==
  ASSUME RxInv, UNCHANGED <<received, producer, remaining, lastProgress>>,
         wpc \notin {"store", "produce", "stopped", "configure"},
         wpc' \notin {"store", "produce", "abort", "stopped", "configure"},
         channel' = "dead" <=> channel = "dead"
  PROVE  ProgressInv'
BY DEF RxInv, ProgressInv, ProgressAccountsForBytes, Progress, BytesProduced,
       Unpublished, Minus

(* The sequence opens and closes around the worker's writes.                 *)
LEMMA BracketKeeps ==
  ASSUME RxInv, PollBegin \/ EndUpdate \/ ApplyStart
  PROVE  RxInv'
<1> DEFINE Step == PollBegin \/ EndUpdate \/ ApplyStart
<1>1. /\ UNCHANGED <<dmaVars, wprog, wprod, lastProgress, producer, bridgeVars>>
      /\ wpc \in {"idle", "end"} /\ wpc' \in {"idle", "sample", "decide"}
      /\ site' \in {"poll", "try"} /\ moved' = TRUE
  BY DEF PollBegin, EndUpdate, ApplyStart
<1>2. ProgressInv' /\ RingInv'
  BY <1>1, ProgressStays, RingStays DEF RxInv, dmaVars
<1>3. WorkInv' /\ TypeOK'
  <2>1. WorkInv'
    BY <1>1 DEF RxInv, WorkInv, Stopping, PollBegin, EndUpdate, ApplyStart,
                dmaVars
  <2>2. applies' \in 0..MaxApplies
    BY RxAssumption DEF RxInv, TypeOK, PollBegin, EndUpdate, ApplyStart
  <2>3. backend' = backend /\ updating' \in BOOLEAN
    BY DEF PollBegin, EndUpdate, ApplyStart
  <2>4. TypeOK'
    BY <1>1, <2>2, <2>3
       DEF RxInv, TypeOK, WorkerPcs, dmaVars, bridgeVars, spanVars, copyVars
  <2> QED BY <2>1, <2>4
<1> QED BY <1>1, <1>2, <1>3, WorkerKeeps DEF dmaVars

(* Deferring, pausing and settling leave count and mark as they are.         *)
LEMMA DecisionKeeps ==
  ASSUME RxInv, ApplyDefer \/ ApplyPause \/ ApplyUnsettled \/ ApplySettled
  PROVE  RxInv'
<1>1. /\ UNCHANGED <<received, cell, writeAt, remaining, lastProgress, producer,
                     bridgeVars, seqVars>>
      /\ wpc \in {"decide", "settle"} /\ wpc' \in {"end", "settle", "sample"}
      /\ channel' = "dead" <=> channel = "dead"
  BY DEF ApplyDefer, ApplyPause, ApplyUnsettled, ApplySettled, dmaVars
<1>2. ProgressInv' /\ RingInv'
  BY <1>1, ProgressStays, RingStays DEF RxInv
<1>3. TypeOK'
  <2>1. /\ UNCHANGED <<backend, irqPending, wprog, wprod, applies>>
        /\ site' \in {site, "finish"} /\ irqOn' \in BOOLEAN
        /\ channel' \in {channel, "run", "paused"}
    BY DEF RxInv, TypeOK, ApplyDefer, ApplyPause, ApplyUnsettled, ApplySettled,
           dmaVars
  <2>2. wpc' \in WorkerPcs
    BY <1>1 DEF WorkerPcs
  <2>3. /\ writeAt' \in 0..(Size - 1) /\ remaining' \in 0..Countdown
        /\ irqPending' \in BOOLEAN /\ wprog' \in 0..Countdown
        /\ wprod' \in 0..Countdown /\ applies' \in 0..MaxApplies
        /\ lastProgress' \in 0..Countdown /\ producer' \in Cursors
        /\ updating' \in BOOLEAN /\ moved' \in BOOLEAN
    BY <1>1, <2>1, Zenon DEF RxInv, TypeOK, seqVars
  <2>4. /\ channel' \in {"run", "paused", "done", "off", "dead"}
        /\ site' \in {"poll", "try", "finish"}
    BY <2>1 DEF RxInv, TypeOK
  <2> QED BY <1>1, <2>1, <2>2, <2>3, <2>4, WorkerTypes DEF RxInv
<1>4. WorkInv' /\ updating
  BY <1>1
     DEF RxInv, WorkInv, TypeOK, Stopping, ApplyDefer, ApplyPause,
         ApplyUnsettled, ApplySettled, dmaVars, seqVars
<1> QED BY <1>1, <1>2, <1>3, <1>4, WorkerKeeps DEF seqVars

(* The worker learns how many bytes its last sample is behind.               *)
LEMMA PublishSampleKeeps ==
  ASSUME RxInv, PublishSample
  PROVE  RxInv'
<1>1. /\ UNCHANGED <<dmaVars, site, lastProgress, producer, seqVars, bridgeVars>>
      /\ wpc = "sample" /\ wpc' = "store" /\ wprog' = Progress
      /\ wprod' = BytesProduced(Progress, lastProgress)
      /\ channel # "dead" /\ updating
  BY DEF RxInv, WorkInv, PublishSample
<1>2. Progress \in 0..Countdown /\ lastProgress \in 0..Countdown
  BY ProgressRange DEF RxInv, TypeOK
<1>3. wprod' \in 0..Countdown /\ BytesProduced(Progress, Progress) = 0
  BY <1>1, <1>2, ProducedRange, ProducedSame
<1>4. Unpublished = wprod' /\ Unpublished' = Unpublished /\ Progress' = Progress
  BY <1>1 DEF RxInv, ProgressInv, ProgressAccountsForBytes, Unpublished, Minus,
              Progress, dmaVars
<1>5. ProgressInv'
  <2>1. BytesProduced(Progress, wprog)' = 0
    <3>1. BytesProduced(Progress, wprog)' = BytesProduced(Progress', wprog')
      BY DEF BytesProduced
    <3>2. Progress' = Progress /\ wprog' = Progress
      BY <1>1, <1>4
    <3> QED BY <1>3, <3>1, <3>2
  <2>2. Unpublished' = wprod' + BytesProduced(Progress, wprog)'
    <3>1. \A n \in 0..Countdown : n = n + 0
      BY CountdownNat
    <3> QED BY <1>3, <1>4, <2>1, <3>1
  <2>3. wprod' = BytesProduced(wprog, lastProgress)'
    BY <1>1 DEF BytesProduced
  <2>4. wprod' = BytesProduced(Progress, lastProgress)'
    BY <1>1, <1>4 DEF BytesProduced
  <2> QED
    BY <1>1, <1>4, <2>2, <2>3, <2>4 DEF ProgressInv, ProgressAccountsForBytes
<1>6. TypeOK' /\ WorkInv' /\ RingInv'
  BY <1>1, <1>2, <1>3, RingStays
     DEF RxInv, TypeOK, WorkInv, Stopping, WorkerPcs, PublishSample, dmaVars,
         seqVars, bridgeVars, spanVars, copyVars
<1> QED BY <1>1, <1>5, <1>6, WorkerKeeps DEF dmaVars, seqVars

(* The mark moves before the producer does.                                  *)
LEMMA PublishLastKeeps ==
  ASSUME RxInv, PublishLast
  PROVE  RxInv'
<1>1. /\ UNCHANGED <<dmaVars, site, wprog, wprod, producer, seqVars, bridgeVars>>
      /\ wpc = "store" /\ wpc' = "produce" /\ lastProgress' = wprog
      /\ channel # "dead" /\ updating
  BY DEF RxInv, WorkInv, PublishLast
<1>2. Unpublished' = Unpublished /\ Progress' = Progress
  BY <1>1 DEF Unpublished, Minus, Progress, dmaVars
<1>3. ProgressInv'
  BY <1>1, <1>2 DEF RxInv, ProgressInv, ProgressAccountsForBytes, Stopping,
                    BytesProduced
<1>4. TypeOK' /\ WorkInv' /\ RingInv'
  BY <1>1, RingStays
     DEF RxInv, TypeOK, WorkInv, Stopping, WorkerPcs, PublishLast, dmaVars,
         seqVars, bridgeVars, spanVars, copyVars
<1> QED BY <1>1, <1>3, <1>4, WorkerKeeps DEF dmaVars, seqVars

(* The producer moves by what the sample told.                               *)
LEMMA PublishProduceKeeps ==
  ASSUME RxInv, PublishProduce
  PROVE  RxInv'
<1>1. /\ UNCHANGED <<dmaVars, site, lastProgress, seqVars, bridgeVars>>
      /\ wpc = "produce" /\ producer' = Plus(producer, wprod)
      /\ wpc' = CASE site = "poll"   -> "rearm"
                  [] site = "try"    -> "decide"
                  [] site = "finish" -> "abort"
      /\ wprod' = 0 /\ wprog' = 0 /\ channel # "dead" /\ updating
  BY DEF RxInv, WorkInv, PublishProduce
<1>2. /\ wpc' \in {"rearm", "decide", "abort"}
      /\ wpc' = "abort" <=> site = "finish" /\ site \in {"poll", "try", "finish"}
  BY <1>1 DEF RxInv, TypeOK
<1>3. /\ Published \in Nat /\ Consumed \in Nat /\ received \in Nat
      /\ Consumed <= Published /\ Published <= received
      /\ received - Consumed < Modulus /\ received - Published < Countdown
      /\ Unpublished = received - Published
      /\ wprod \in 0..Countdown /\ Countdown \in Nat /\ Modulus \in Nat \ {0}
  BY Distance, Constants DEF RxInv, CursorInv, TypeOK
<1>4. /\ Unpublished = wprod + BytesProduced(Progress, lastProgress)
      /\ BytesProduced(Progress, lastProgress) \in 0..Countdown
      /\ Stopping => Unpublished = wprod
  BY <1>1, ProgressRange, ProducedRange DEF RxInv, TypeOK, ProgressInv
<1>5. /\ Published + wprod \in Nat /\ received' = received
      /\ Consumed <= Published + wprod /\ Published + wprod <= received
      /\ received - (Published + wprod) < Countdown
      /\ received - (Published + wprod) = BytesProduced(Progress, lastProgress)
      /\ Published + wprod >= Published
  BY <1>1, <1>3, <1>4 DEF dmaVars
<1>6. /\ producer' = (Published + wprod) % Modulus
      /\ consumer' = Consumed % Modulus
  BY <1>1, <1>3, ModPlus DEF RxInv, CursorInv, Plus, bridgeVars
<1>7. /\ CursorInv' /\ Published' = Published + wprod /\ Consumed' = Consumed
      /\ Unpublished' = received - (Published + wprod)
  BY <1>3, <1>5, <1>6, CursorsAt
<1>8. ProgressInv'
  <2>1. Progress' = Progress /\ Unpublished' = BytesProduced(Progress, lastProgress)
    BY <1>1, <1>5, <1>7 DEF Progress, dmaVars
  <2>2. wpc' = "abort" => Unpublished' = 0
    <3>1. ASSUME wpc' = "abort" PROVE Unpublished = wprod
      BY <1>1, <1>2, <1>4, <3>1 DEF Stopping
    <3> QED BY <1>3, <1>7, <3>1
  <2> QED
    BY <1>1, <1>2, <2>1, <2>2
       DEF ProgressInv, ProgressAccountsForBytes, BytesProduced
<1>9. WorkInv'
  BY <1>1, <1>2 DEF RxInv, WorkInv, Stopping, dmaVars, seqVars
<1>10. TypeOK' /\ RingInv'
  <2>1. producer' \in Cursors
    BY <1>3, <1>5, <1>6, ModRange DEF Cursors
  <2>2. wpc' \in WorkerPcs /\ UNCHANGED <<backend, applies>>
    BY <1>2 DEF WorkerPcs, PublishProduce
  <2>3. TypeOK'
    BY <1>1, <2>1, <2>2, WorkerTypes, ZeroRange
       DEF RxInv, TypeOK, dmaVars, seqVars
  <2>4. RingInv'
    BY <1>1, RingStays DEF RxInv, dmaVars
  <2> QED BY <2>3, <2>4
<1>11. BridgeInv' /\ LossInv'
  BY <1>1, <1>3, <1>5, <1>7, BridgeStays DEF RxInv, TypeOK
<1>12. SnapInv'
  BY <1>1, <1>7, CopyStays DEF RxInv, dmaVars, seqVars
<1> QED BY <1>7, <1>8, <1>9, <1>10, <1>11, <1>12 DEF RxInv

(* The fallback starts the count again like the handler.                     *)
LEMMA PollRearmKeeps ==
  ASSUME RxInv, PollRearm
  PROVE  RxInv'
<1>1. /\ UNCHANGED <<received, cell, writeAt, irqOn, site, wprog, wprod,
                     lastProgress, producer, seqVars, bridgeVars>>
      /\ wpc = "rearm" /\ wpc' = "end" /\ channel # "dead" /\ updating
      /\ ~Stopping
  BY DEF RxInv, WorkInv, PollRearm, Stopping
<1>2. ProgressInv'
  <2>1. CASE ShouldRearm
    BY <1>1, <2>1, RearmProgress DEF PollRearm
  <2>2. CASE ~ShouldRearm
    BY <1>1, <2>2, ProgressStays DEF PollRearm
  <2> QED BY <2>1, <2>2
<1>3. WorkInv' /\ RingInv'
  BY <1>1, RingStays DEF RxInv, WorkInv, Stopping, PollRearm, Rearm, seqVars
<1>4. TypeOK'
  BY <1>1, CountRange
     DEF RxInv, TypeOK, WorkerPcs, PollRearm, Rearm, seqVars, bridgeVars,
         spanVars, copyVars
<1> QED BY <1>1, <1>2, <1>3, <1>4, WorkerKeeps DEF seqVars

(* From the abort on nothing is received until the channel is armed again at *)
(* the cell behind the last byte.                                            *)
LEMMA RestartKeeps ==
  ASSUME RxInv, ApplyAbort \/ StartRxDmaMark \/ StartRxDmaArm \/ ApplyDead
  PROVE  RxInv'
<1>1. /\ UNCHANGED <<received, cell, wprog, wprod, producer, seqVars, bridgeVars>>
      /\ wpc \in {"abort", "stopped", "configure"}
      /\ wpc' \in {"stopped", "configure", "end", "sample"} /\ updating
  BY DEF RxInv, WorkInv, ApplyAbort, StartRxDmaMark, StartRxDmaArm, ApplyDead,
         dmaVars
<1>2. Unpublished' = 0 /\ Unpublished = 0
  BY <1>1 DEF RxInv, ProgressInv, Unpublished, Minus
<1>3. ProgressInv'
  <2>1. CASE StartRxDmaArm
    <3>1. Progress' = 0 /\ lastProgress' = 0
      BY <2>1, Constants DEF RxInv, ProgressInv, StartRxDmaArm, Rearm, Progress
    <3>2. BytesProduced(0, 0) = 0
      BY ProducedSame, Constants
    <3> QED
      BY <1>2, <2>1, <3>1, <3>2
         DEF ProgressInv, ProgressAccountsForBytes, StartRxDmaArm, BytesProduced
  <2>2. CASE ApplyAbort \/ StartRxDmaMark \/ ApplyDead
    BY <1>1, <1>2, <2>2
       DEF RxInv, ProgressInv, ProgressAccountsForBytes, ApplyAbort,
           StartRxDmaMark, ApplyDead, dmaVars
  <2> QED BY <2>1, <2>2
<1>4. WorkInv'
  BY <1>1 DEF RxInv, WorkInv, Stopping, ApplyAbort, StartRxDmaMark,
              StartRxDmaArm, ApplyDead, Rearm, dmaVars, seqVars
<1>5. /\ received \in Nat /\ received = Published /\ Size \in Nat \ {0}
      /\ Modulus \in Nat \ {0} /\ producer = Published % Modulus
      /\ Modulus % Size = 0
  <2>1. received \in Nat /\ Published \in Nat /\ Unpublished = received - Published
    BY Distance DEF RxInv, CursorInv
  <2>2. received = Published
    BY <1>2, <2>1
  <2> QED BY <2>1, <2>2, Constants DEF RxInv, CursorInv
<1>6. producer % Size = received % Size /\ producer % Size \in 0..(Size - 1)
  <2>1. (Published % Modulus) % Size = Published % Size
    BY <1>5, ModDivides
  <2>2. received % Size \in 0..(Size - 1)
    BY <1>5, ModRange
  <2> QED BY <1>5, <2>1, <2>2
<1>7. RingInv'
  <2>1. writeAt' = received' % Size
    BY <1>1, <1>6
       DEF RxInv, RingInv, ApplyAbort, StartRxDmaMark, StartRxDmaArm, ApplyDead,
           dmaVars
  <2> QED BY <1>1, <2>1 DEF RxInv, RingInv
<1>8. TypeOK'
  <2>1. /\ UNCHANGED <<backend, applies>> /\ site' \in {site, "poll"}
        /\ irqPending' \in BOOLEAN /\ irqOn' \in BOOLEAN
        /\ channel' \in {channel, "off", "run", "dead"}
    BY DEF RxInv, TypeOK, ApplyAbort, StartRxDmaMark, StartRxDmaArm, ApplyDead,
           Rearm, dmaVars
  <2>2. /\ writeAt' \in {writeAt, producer % Size}
        /\ remaining' \in {remaining, 0, Countdown}
        /\ lastProgress' \in {lastProgress, 0}
    BY DEF ApplyAbort, StartRxDmaMark, StartRxDmaArm, ApplyDead, Rearm, dmaVars
  <2>3. wpc' \in WorkerPcs
    BY <1>1 DEF WorkerPcs
  <2>4. /\ writeAt' \in 0..(Size - 1) /\ remaining' \in 0..Countdown
        /\ lastProgress' \in 0..Countdown
    BY <1>6, <2>2, CountRange DEF RxInv, TypeOK
  <2>5. /\ wprog' \in 0..Countdown /\ wprod' \in 0..Countdown
        /\ applies' \in 0..MaxApplies /\ producer' \in Cursors
        /\ updating' \in BOOLEAN /\ moved' \in BOOLEAN
    BY <1>1, <2>1, Zenon DEF RxInv, TypeOK, seqVars
  <2>6. /\ channel' \in {"run", "paused", "done", "off", "dead"}
        /\ site' \in {"poll", "try", "finish"}
    BY <2>1 DEF RxInv, TypeOK
  <2> QED BY <1>1, <2>1, <2>3, <2>4, <2>5, <2>6, WorkerTypes DEF RxInv
<1> QED BY <1>1, <1>3, <1>4, <1>7, <1>8, WorkerKeeps DEF seqVars
-----------------------------------------------------------------------------
(* The bridge.                                                               *)

(* Nothing core 0 does touches what the worker knows.                        *)
LEMMA WorkerStays ==
  ASSUME RxInv, UNCHANGED <<dmaVars, wrkVars, producer, updating>>
  PROVE  RingInv' /\ WorkInv' /\ ProgressInv' /\ received' = received
<1>1. UNCHANGED <<received, cell, writeAt>> /\ received' = received
  BY DEF dmaVars
<1>2. RingInv'
  BY <1>1, RingStays DEF RxInv
<1>3. WorkInv'
  BY DEF RxInv, WorkInv, Stopping, dmaVars, wrkVars
<1>4. ProgressInv'
  BY DEF RxInv, ProgressInv, ProgressAccountsForBytes, Progress, BytesProduced,
         Unpublished, Minus, Stopping, dmaVars, wrkVars
<1> QED BY <1>1, <1>2, <1>3, <1>4

(* Between passes there is no span to speak of.                              *)
LEMMA PassEnds ==
  ASSUME cpc' \in {"idle", "recover", "reserve"}, snap' = <<>>, accepted' = 0
  PROVE  BridgeInv' /\ SnapInv'
BY DEF BridgeInv, SnapInv, Holding

(* The types of a step of the bridge are those of its own variables.         *)
LEMMA BridgeTypes ==
  ASSUME TypeOK, UNCHANGED <<dmaVars, wrkVars, producer, updating>>,
         moved' \in BOOLEAN, cpc' \in BridgePcs, reservedSeq' \in Cursors,
         reservedCount' \in 0..Size, offered' \in 0..SnapshotCap,
         snap' \in Seq(0..MaxBytes), Len(snap') <= offered',
         accepted' \in 0..SnapshotCap, cprog' \in 0..Countdown,
         cprod' \in 0..Countdown, overflow' \in Cursors, consumer' \in Cursors,
         host' \in Seq(0..MaxBytes)
  PROVE  TypeOK'
BY DEF TypeOK, dmaVars, wrkVars

(* The copy a pass starts and ends with.                                     *)
LEMMA EmptyCopy ==
  ASSUME snap' = <<>>, offered' \in Nat
  PROVE  snap' \in Seq(0..MaxBytes) /\ Len(snap') <= offered'
<1>1. <<>> \in Seq(0..MaxBytes) /\ Len(<<>>) = 0
  OBVIOUS
<1>2. \A n \in Nat : 0 <= n
  OBVIOUS
<1> QED BY <1>1, <1>2

(* A count that saturates adds up like one that does not.                    *)
LEMMA SaturatingSum ==
  ASSUME NEW a \in Nat, NEW b \in Nat
  PROVE  /\ SaturatingAdd(Least(a, Modulus - 1), b) = Least(a + b, Modulus - 1)
         /\ SaturatingAdd(Least(a, Modulus - 1), b) \in Cursors
<1>1. Modulus \in Nat \ {0}
  BY Constants
<1> QED BY <1>1 DEF SaturatingAdd, Least, Cursors

StreamStep == [Stream!Next]_<<received, Position, host>>

(* Skipping loses what the ring no longer holds, and counts it.              *)
LEMMA SkipCounts ==
  ASSUME RxInv, received' = received, host' = host, accepted' = 0,
         NEW lost \in Nat, Position + lost <= Published,
         lost = 0 \/ Position + lost <= Published - Size,
         producer' = producer, consumer' = (Position + lost) % Modulus,
         overflow' = SaturatingAdd(overflow, lost)
  PROVE  /\ CursorInv' /\ LossInv' /\ StreamStep
         /\ overflow' \in Cursors /\ consumer' \in Cursors
<1>1. /\ received \in Nat /\ Published \in Nat /\ Consumed \in Nat
      /\ Consumed <= Published /\ Published <= received
      /\ received - Consumed < Modulus /\ received - Published < Countdown
      /\ Modulus \in Nat \ {0} /\ accepted \in Nat /\ Size \in Nat
  BY Distance, Constants DEF RxInv, CursorInv, TypeOK
<1>2. Position = Consumed + accepted /\ Position \in Nat
  BY <1>1 DEF Position
<1>3. /\ Position + lost \in Nat /\ Consumed <= Position + lost
      /\ received - (Position + lost) < Modulus
  BY <1>1, <1>2
<1>4. producer' = Published % Modulus
  BY DEF RxInv, CursorInv
<1>5. CursorInv' /\ Consumed' = Position + lost
  BY <1>1, <1>3, <1>4, CursorsAt
<1>6. Position' = Position + lost
  BY <1>3, <1>5 DEF Position
<1>7. /\ Len(host) \in Nat /\ Len(host) <= Position
      /\ overflow = Least(Position - Len(host), Modulus - 1)
  BY DEF RxInv, LossInv, LossCounted, TypeOK
<1>8. /\ Position - Len(host) \in Nat
      /\ (Position - Len(host)) + lost = (Position + lost) - Len(host)
      /\ Len(host) <= Position + lost
  BY <1>2, <1>7
<1>9. /\ overflow' = Least((Position - Len(host)) + lost, Modulus - 1)
      /\ overflow' \in Cursors
  BY <1>7, <1>8, SaturatingSum
<1>10. LossInv'
  BY <1>6, <1>8, <1>9 DEF LossInv, LossCounted, Least
<1>11. StreamStep
  <2>1. CASE lost = 0
    BY <1>2, <1>6, <2>1 DEF StreamStep
  <2>2. CASE lost # 0
    <3>1. /\ lost \in 1..(received - Position)
          /\ Position + lost <= received - Size
      BY <1>1, <1>2, <2>2
    <3>2. Stream!Lose(lost)
      BY <1>6, <3>1 DEF Stream!Lose
    <3> QED BY <3>1, <3>2 DEF StreamStep, Stream!Next
  <2> QED BY <2>1, <2>2
<1>12. consumer' \in Cursors
  BY <1>1, <1>3, ModRange DEF Cursors
<1> QED BY <1>5, <1>9, <1>10, <1>11, <1>12

(* A recovery skips exactly the bytes the ring no longer holds.              *)
LEMMA RecoverCounts ==
  ASSUME RxInv, RecoverOverflow, cpc # "commit",
         UNCHANGED <<received, producer, accepted, host>>
  PROVE  /\ CursorInv' /\ LossInv' /\ StreamStep /\ accepted' = 0
         /\ overflow' \in Cursors /\ consumer' \in Cursors
         /\ reservedCount' \in 0..Size
<1>1. accepted = 0 /\ accepted' = 0
  BY DEF RxInv, BridgeInv
<1>2. /\ Published \in Nat /\ Consumed \in Nat /\ Consumed <= Published
      /\ Size \in Nat /\ Modulus \in Nat \ {0}
      /\ Minus(producer, consumer) = Published - Consumed
      /\ consumer = Consumed % Modulus
  BY Distance, Constants DEF RxInv, CursorInv
<1>3. Position = Consumed
  BY <1>1, <1>2 DEF Position
<1>4. /\ PendingOverflow \in Nat /\ Position + PendingOverflow <= Published
      /\ PendingOverflow = 0 \/ Position + PendingOverflow <= Published - Size
  BY <1>2, <1>3 DEF PendingOverflow
<1>5. /\ consumer' = (Position + PendingOverflow) % Modulus
      /\ overflow' = SaturatingAdd(overflow, PendingOverflow)
  BY <1>2, <1>3, <1>4, ModPlus DEF RecoverOverflow, Plus
<1>6. reservedCount' \in 0..Size
  BY Constants DEF RxInv, TypeOK, RecoverOverflow
<1> QED BY <1>1, <1>4, <1>5, <1>6, SkipCounts

(* The three recoveries of a pass.                                           *)
LEMMA RecoverKeeps ==
  ASSUME RxInv, RecoverOnly \/ Recover \/ Reject
  PROVE  RxInv' /\ StreamStep
<1>1. /\ UNCHANGED <<dmaVars, wrkVars, producer, updating, moved, reservedSeq,
                     accepted, host>>
      /\ RecoverOverflow /\ cpc # "commit" /\ cpc' \in {"idle", "reserve"}
  BY DEF RecoverOnly, Recover, Reject, Done, seqVars
<1>2. snap' = <<>>
  BY DEF RxInv, BridgeInv, RecoverOnly, Recover, Reject, Done, Forget, copyVars
<1>3. RingInv' /\ WorkInv' /\ ProgressInv' /\ received' = received
  BY <1>1, WorkerStays
<1>4. /\ CursorInv' /\ LossInv' /\ StreamStep /\ accepted' = 0
      /\ overflow' \in Cursors /\ consumer' \in Cursors
      /\ reservedCount' \in 0..Size
  BY <1>1, <1>3, RecoverCounts
<1>5. BridgeInv' /\ SnapInv'
  BY <1>1, <1>2, <1>4, PassEnds
<1>6. TypeOK'
  <2>1. /\ moved' \in BOOLEAN /\ cpc' \in BridgePcs /\ reservedSeq' \in Cursors
        /\ accepted' \in 0..SnapshotCap /\ host' \in Seq(0..MaxBytes)
    BY <1>1 DEF RxInv, TypeOK, BridgePcs
  <2>2. /\ offered' \in 0..SnapshotCap /\ cprog' \in 0..Countdown
        /\ cprod' \in 0..Countdown
    BY ZeroRange
       DEF RxInv, TypeOK, RecoverOnly, Recover, Reject, Done, Forget, copyVars
  <2>3. snap' \in Seq(0..MaxBytes) /\ Len(snap') <= offered'
    BY <1>2, <2>2, EmptyCopy, ZeroRange
  <2> QED BY <1>1, <1>4, <2>1, <2>2, <2>3, BridgeTypes DEF RxInv
<1> QED BY <1>3, <1>4, <1>5, <1>6 DEF RxInv

(* A step of the bridge that consumes nothing and delivers nothing.          *)
LEMMA BridgeKeeps ==
  ASSUME RxInv, BridgeInv', SnapInv', moved' \in BOOLEAN, cpc' \in BridgePcs,
         UNCHANGED <<dmaVars, wrkVars, producer, updating, consumer, overflow,
                     host, accepted>>,
         reservedSeq' \in Cursors, reservedCount' \in 0..Size,
         offered' \in 0..SnapshotCap, snap' \in Seq(0..MaxBytes),
         Len(snap') <= offered', cprog' \in 0..Countdown,
         cprod' \in 0..Countdown
  PROVE  RxInv' /\ StreamStep
<1>1. RingInv' /\ WorkInv' /\ ProgressInv' /\ received' = received
  BY WorkerStays
<1>2. CursorInv' /\ Consumed' = Consumed
  BY <1>1, CursorsStay DEF RxInv
<1>3. Position' = Position
  BY <1>2 DEF Position
<1>4. LossInv'
  BY <1>3 DEF RxInv, LossInv, LossCounted, Least
<1>5. TypeOK'
  BY BridgeTypes DEF RxInv, TypeOK
<1>6. StreamStep
  BY <1>1, <1>3 DEF StreamStep
<1> QED BY <1>1, <1>2, <1>4, <1>5, <1>6 DEF RxInv

(* A pass begins with no span.                                               *)
LEMMA BeginKeeps ==
  ASSUME RxInv, Begin
  PROVE  RxInv' /\ StreamStep
<1>1. cpc = "idle" /\ snap = <<>> /\ accepted = 0
  BY DEF RxInv, BridgeInv, Begin
<1>2. BridgeInv' /\ SnapInv'
  BY <1>1, PassEnds DEF Begin, copyVars
<1> QED
  BY <1>2, BridgeKeeps
     DEF RxInv, TypeOK, Begin, BridgePcs, seqVars, spanVars, copyVars

(* A span ends with what is published and with the storage.                  *)
LEMMA ReserveKeeps ==
  ASSUME RxInv, Reserve
  PROVE  RxInv' /\ StreamStep
<1> DEFINE room == Size - (consumer % Size)
           length == Least(Available, room)
<1>1. /\ UNCHANGED <<dmaVars, wrkVars, producer, seqVars, accepted, overflow,
                     consumer, host>>
      /\ snap = <<>> /\ accepted = 0
  BY DEF RxInv, BridgeInv, Reserve
<1>2. /\ Published \in Nat /\ Consumed \in Nat /\ Consumed <= Published
      /\ Minus(producer, consumer) = Published - Consumed
      /\ Size \in Nat \ {0} /\ SnapshotCap \in Nat \ {0} /\ consumer \in Nat
  BY Distance, Constants DEF RxInv, CursorInv, TypeOK, Cursors
<1>3. room \in 0..Size
  <2>1. consumer % Size \in 0..(Size - 1)
    BY <1>2, ModRange
  <2> QED BY <1>2, <2>1
<1> HIDE DEF room
<1>4. length \in 0..Size /\ Consumed + length <= Published
  BY <1>2, <1>3 DEF Available, Least
<1>5. CASE length = 0
  <2>1. reservedCount' = 0 /\ Done /\ UNCHANGED reservedSeq
    BY <1>5 DEF Reserve, room
  <2>2. BridgeInv' /\ SnapInv'
    BY <1>1, <2>1, PassEnds DEF Done, Forget
  <2> QED
    BY <1>1, <2>1, <2>2, BridgeKeeps, ZeroRange, EmptyCopy
       DEF RxInv, TypeOK, BridgePcs, Done, Forget, seqVars
<1>6. CASE length # 0
  <2> HIDE DEF length
  <2>1. /\ reservedSeq' = consumer /\ reservedCount' = length
        /\ offered' \in 1..Least(length, SnapshotCap) /\ cpc' = "sample"
        /\ UNCHANGED <<snap, cprog, cprod>>
    BY <1>6 DEF Reserve, length, room
  <2>2. offered' \in 1..length /\ offered' \in 0..SnapshotCap /\ offered' \in Nat
    BY <1>2, <1>4, <2>1 DEF Least
  <2>3. CursorInv' /\ Published' = Published /\ Consumed' = Consumed
    BY <1>1, CursorsStay DEF RxInv, dmaVars
  <2>4. BridgeInv' /\ SnapInv'
    BY <1>1, <1>4, <2>1, <2>2, <2>3 DEF BridgeInv, SnapInv, Holding
  <2>5. snap' \in Seq(0..MaxBytes) /\ Len(snap') <= offered'
    BY <1>1, <2>1, <2>2, EmptyCopy
  <2> QED
    BY <1>1, <1>4, <2>1, <2>2, <2>4, <2>5, BridgeKeeps
       DEF RxInv, TypeOK, BridgePcs, seqVars
<1> QED BY <1>5, <1>6

(* An even sequence means that the worker is not in between.                 *)
LEMMA SampleSequenceKeeps ==
  ASSUME RxInv, SampleSequence
  PROVE  RxInv' /\ StreamStep
<1>1. /\ UNCHANGED <<dmaVars, wrkVars, producer, updating, spanVars, accepted,
                     overflow, consumer, host>>
      /\ cpc = "sample" /\ snap = <<>> /\ accepted = 0 /\ moved' \in BOOLEAN
  BY DEF RxInv, BridgeInv, TypeOK, SampleSequence
<1>2. CASE updating
  <2>1. BridgeInv' /\ SnapInv'
    BY <1>1, <1>2, PassEnds DEF SampleSequence, Done, Forget
  <2> QED
    BY <1>1, <1>2, <2>1, BridgeKeeps, ZeroRange, EmptyCopy
       DEF RxInv, TypeOK, BridgePcs, SampleSequence, Done, Forget, spanVars
<1>3. CASE ~updating
  <2>1. CursorInv' /\ Published' = Published /\ Consumed' = Consumed
    BY <1>1, CursorsStay DEF RxInv, dmaVars
  <2>2. /\ cpc' = "copy" /\ moved' = FALSE /\ UNCHANGED copyVars
        /\ snap' = <<>>
    BY <1>1, <1>3 DEF SampleSequence, copyVars
  <2>3. offered \in 1..reservedCount /\ reservedCount \in 0..Size
    BY <1>1 DEF RxInv, BridgeInv, Holding, TypeOK
  <2>4. BridgeInv'
    BY <1>1, <2>1, <2>2, <2>3, Constants
       DEF RxInv, BridgeInv, Holding, spanVars, copyVars
  <2>5. SnapInv'
    <3>1. GoodUpTo(received)'
      <4>1. received \in Nat /\ received' = received /\ received <= received
        BY <1>1, Distance DEF RxInv, dmaVars
      <4> QED BY <2>2, <4>1 DEF GoodUpTo, Faithful
    <3> QED BY <1>1, <1>3, <2>2, <3>1 DEF SnapInv
  <2> QED
    BY <1>1, <2>2, <2>4, <2>5, BridgeKeeps
       DEF RxInv, TypeOK, BridgePcs, spanVars, copyVars
<1> QED BY <1>2, <1>3

(* Of a ring nothing has lapped the next byte of the span is still there.    *)
LEMMA CopyByteKeeps ==
  ASSUME RxInv, CopyByte
  PROVE  RxInv' /\ StreamStep
<1> DEFINE n == Len(snap)
           byte == cell[(reservedSeq + n) % Size]
<1>1. /\ UNCHANGED <<dmaVars, wrkVars, producer, seqVars, spanVars, offered,
                     cprog, cprod, accepted, overflow, consumer, host>>
      /\ cpc = "copy" /\ snap' = Append(snap, byte)
      /\ cpc' = IF n + 1 = offered THEN "check" ELSE "copy"
  BY DEF CopyByte
<1>2. /\ snap \in Seq(0..MaxBytes) /\ n \in Nat /\ n < offered
      /\ offered \in 1..reservedCount /\ reservedCount \in 0..Size
      /\ reservedSeq = consumer /\ Consumed + reservedCount <= Published
      /\ offered \in Nat /\ offered <= reservedCount
  BY <1>1, Constants DEF RxInv, BridgeInv, Holding, TypeOK
<1>3. /\ Published \in Nat /\ Consumed \in Nat /\ consumer = Consumed % Modulus
      /\ Published <= received /\ received \in Nat
      /\ Size \in Nat \ {0} /\ Modulus \in Nat \ {0} /\ Modulus % Size = 0
      /\ cell \in [0..(Size - 1) -> 0..MaxBytes]
  BY Distance, Constants DEF RxInv, CursorInv, TypeOK
<1>4. (reservedSeq + n) % Size = (Consumed + n) % Size
  <2>1. ((Consumed % Modulus) + n) % Size = (Consumed + n) % Size
    <3>1. Consumed \in Nat /\ n \in Nat
      BY <1>2, <1>3
    <3> HIDE DEF n
    <3> QED BY <3>1, CellOf, Zenon
  <2> QED BY <1>2, <1>3, <2>1
<1>5. byte \in 0..MaxBytes
  <2>1. (Consumed + n) % Size \in 0..(Size - 1)
    <3>1. Consumed + n \in Nat
      BY <1>2, <1>3
    <3> QED BY <1>3, <3>1, ModRange
  <2> QED BY <1>3, <1>4, <2>1
<1>6. received <= Consumed + Size => byte = Consumed + (n + 1)
  <2> SUFFICES ASSUME received <= Consumed + Size
               PROVE  byte = Consumed + (n + 1)
    OBVIOUS
  <2> DEFINE j == Consumed + (n + 1)
  <2>1. j \in 1..received /\ j > received - Size /\ j - 1 = Consumed + n
    BY <1>2, <1>3
  <2> HIDE DEF j
  <2>2. cell[(j - 1) % Size] = j
    BY <2>1 DEF RxInv, RingInv
  <2>3. cell[(Consumed + n) % Size] = j
    BY <2>1, <2>2
  <2> QED BY <1>4, <2>3 DEF j
<1> HIDE DEF byte
<1>7. /\ snap' \in Seq(0..MaxBytes) /\ Len(snap') = n + 1
      /\ \A i \in 1..n : snap'[i] = snap[i]
  BY <1>1, <1>2, <1>5, AppendProperties
<1>8. CursorInv' /\ Published' = Published /\ Consumed' = Consumed
  BY <1>1, CursorsStay DEF RxInv, dmaVars
<1>9. snap'[n + 1] = byte
  BY <1>1, <1>2, <1>5, AppendProperties
<1>10. Len(snap') <= offered /\ (n + 1 # offered => Len(snap') < offered)
  BY <1>2, <1>7
<1>11. BridgeInv'
  BY <1>1, <1>2, <1>7, <1>8, <1>10 DEF RxInv, BridgeInv, Holding, spanVars
<1>12. GoodUpTo(received)'
  <2>1. received <= Consumed + Size => Faithful
    BY <1>1 DEF RxInv, SnapInv, GoodUpTo
  <2>2. ASSUME received <= Consumed + Size, NEW i \in 1..(n + 1)
        PROVE  snap'[i] = Consumed + i
    <3>1. CASE i = n + 1
      BY <1>6, <1>9, <2>2, <3>1
    <3>2. CASE i # n + 1
      <4>1. i \in 1..n
        BY <1>2, <3>2
      <4> QED BY <1>7, <2>1, <2>2, <4>1 DEF Faithful
    <3> QED BY <3>1, <3>2
  <2>3. received' = received /\ received <= received
    BY <1>1, <1>3 DEF dmaVars
  <2> QED BY <1>7, <1>8, <2>2, <2>3 DEF GoodUpTo, Faithful
<1>13. SnapInv'
  BY <1>1, <1>12 DEF RxInv, SnapInv, seqVars
<1> QED
  BY <1>1, <1>7, <1>10, <1>11, <1>13, BridgeKeeps
     DEF RxInv, TypeOK, BridgePcs, spanVars, seqVars

(* A check goes on to the next one or rejects the copy.                      *)
LEMMA CheckKeeps ==
  ASSUME RxInv, SnapInv', NEW ok,
         NEW next \in {"progress", "last", "live", "seq", "write"},
         cpc \in {"check", "progress", "last", "live", "seq"},
         CheckGoesTo(ok, next), cprog' \in 0..Countdown,
         cprod' \in 0..Countdown
  PROVE  RxInv' /\ StreamStep
<1>1. /\ UNCHANGED <<dmaVars, wrkVars, producer, seqVars, spanVars, offered,
                     snap, accepted, overflow, consumer, host>>
      /\ cpc' \in {"progress", "last", "live", "seq", "write", "reject"}
  BY DEF CheckGoesTo
<1>2. CursorInv' /\ Published' = Published /\ Consumed' = Consumed
  BY <1>1, CursorsStay DEF RxInv, dmaVars
<1>3. BridgeInv'
  BY <1>1, <1>2 DEF RxInv, BridgeInv, Holding, spanVars
<1> QED
  BY <1>1, <1>3, BridgeKeeps DEF RxInv, TypeOK, BridgePcs, spanVars, seqVars

(* The three looks after the copy: the first sees how far the DMA is, the    *)
(* others make sure that it was looked at correctly.                         *)
LEMMA ChecksKeep ==
  ASSUME RxInv,
         CheckSpan \/ CheckProgress \/ CheckLast \/ CheckLive \/ CheckSequence
  PROVE  RxInv' /\ StreamStep
<1>1. /\ UNCHANGED <<dmaVars, wrkVars, producer, seqVars, spanVars, offered,
                     snap, accepted, overflow, consumer, host>>
      /\ cpc \in {"check", "progress", "last", "live", "seq"}
  BY DEF CheckSpan, CheckProgress, CheckLast, CheckLive, CheckSequence,
         CheckGoesTo
<1>2. /\ CursorInv' /\ Published' = Published /\ Consumed' = Consumed
      /\ received' = received /\ (Faithful' <=> Faithful)
  <2>1. received' = received
    BY <1>1 DEF dmaVars
  <2>2. CursorInv' /\ Published' = Published /\ Consumed' = Consumed
    BY <1>1, <2>1, CursorsStay DEF RxInv
  <2> QED BY <1>1, <2>1, <2>2 DEF Faithful
<1>3. GoodUpTo(received)' <=> GoodUpTo(received)
  BY <1>2 DEF GoodUpTo
<1>4. cprog \in 0..Countdown /\ cprod \in 0..Countdown
  BY DEF RxInv, TypeOK
<1>5. /\ Published \in Nat /\ Consumed \in Nat /\ Consumed <= Published
      /\ Published <= received /\ received - Consumed < Modulus
      /\ received \in Nat /\ Unpublished = received - Published
      /\ producer = Published % Modulus /\ consumer = Consumed % Modulus
      /\ reservedSeq = consumer
  BY <1>1, Distance DEF RxInv, CursorInv, BridgeInv, Holding
<1>6. CASE CheckSpan
  <2>1. SnapInv'
    BY <1>1, <1>3, <1>6 DEF RxInv, SnapInv, CheckSpan, CheckGoesTo, seqVars
  <2> QED BY <1>1, <1>4, <1>6, <2>1, CheckKeeps DEF CheckSpan
<1>7. CASE CheckProgress
  <2>1. /\ cpc = "progress" /\ cprog' = Progress /\ UNCHANGED cprod
        /\ cpc' = IF channel # "dead" THEN "last" ELSE "reject"
    BY <1>7 DEF CheckProgress, CheckGoesTo
  <2>2. ASSUME cpc' = "last", ~moved'
        PROVE  GoodUpTo(Published + BytesProduced(cprog, lastProgress))'
    <3>1. ~updating /\ wpc = "idle" /\ channel # "dead"
      BY <1>1, <2>1, <2>2 DEF RxInv, SnapInv, WorkInv, seqVars
    <3>2. Unpublished = BytesProduced(Progress, lastProgress)
      BY <3>1 DEF RxInv, ProgressInv, ProgressAccountsForBytes
    <3>3. Published + Unpublished = received
      BY <1>5
    <3>4. (Published + BytesProduced(cprog, lastProgress))' = received
      BY <1>1, <1>2, <2>1, <3>2, <3>3 DEF BytesProduced, wrkVars
    <3>5. GoodUpTo(received)
      BY <2>1 DEF RxInv, SnapInv
    <3> QED BY <1>2, <3>4, <3>5 DEF GoodUpTo
  <2>3. SnapInv'
    BY <1>1, <2>1, <2>2 DEF RxInv, SnapInv, seqVars
  <2>4. cprog' \in 0..Countdown /\ cprod' \in 0..Countdown
    BY <1>4, <2>1, ProgressRange DEF RxInv
  <2> QED BY <1>1, <1>7, <2>3, <2>4, CheckKeeps DEF CheckProgress
<1>8. CASE CheckLast
  <2>1. /\ cpc = "last" /\ cprod' = BytesProduced(cprog, lastProgress)
        /\ cpc' = "live" /\ UNCHANGED cprog
    BY <1>8 DEF CheckLast, CheckGoesTo
  <2>2. ASSUME ~moved PROVE GoodUpTo(Published + cprod)'
    <3>1. GoodUpTo(Published + BytesProduced(cprog, lastProgress))
      BY <2>1, <2>2 DEF RxInv, SnapInv
    <3>2. (Published + cprod)' =
            Published + BytesProduced(cprog, lastProgress)
      BY <1>2, <2>1
    <3> QED BY <1>2, <3>1, <3>2 DEF GoodUpTo
  <2>3. SnapInv'
    BY <1>1, <2>1, <2>2 DEF RxInv, SnapInv, seqVars
  <2>4. cprog' \in 0..Countdown /\ cprod' \in 0..Countdown
    BY <1>4, <2>1, ProducedRange DEF RxInv, TypeOK
  <2> QED BY <1>1, <1>8, <2>3, <2>4, CheckKeeps DEF CheckLast
<1>9. CASE CheckLive
  <2>1. /\ cpc = "live" /\ UNCHANGED <<cprog, cprod>>
        /\ cpc' = IF Minus(Plus(producer, cprod), reservedSeq) <= Size
                  THEN "seq" ELSE "reject"
    BY <1>9 DEF CheckLive, CheckGoesTo
  <2>2. ASSUME cpc' = "seq", ~moved PROVE Faithful
    <3> DEFINE live == Published + cprod
    <3>1. live <= received /\ (live <= Consumed + Size => Faithful)
      BY <2>1, <2>2 DEF RxInv, SnapInv, GoodUpTo
    <3>2. cprod \in Nat /\ Modulus \in Nat \ {0} /\ Size \in Nat
      BY <1>4, Constants
    <3>3. live \in Nat /\ Consumed <= live /\ live - Consumed < Modulus
      BY <1>5, <3>1, <3>2
    <3>4. Plus(producer, cprod) = live % Modulus
      <4>1. ((Published % Modulus) + cprod) % Modulus = live % Modulus
        BY <1>5, <3>2, ModPlus
      <4> QED BY <1>5, <4>1 DEF Plus
    <3> HIDE DEF live
    <3>5. Minus(Plus(producer, cprod), reservedSeq) = live - Consumed
      <4>1. ((live % Modulus) - (Consumed % Modulus)) % Modulus = live - Consumed
        BY <1>5, <3>2, <3>3, ModDifference
      <4> QED BY <1>5, <3>4, <4>1 DEF Minus
    <3>6. live - Consumed <= Size
      BY <2>1, <2>2, <3>5
    <3>7. live <= Consumed + Size
      BY <1>5, <3>2, <3>3, <3>6
    <3> QED BY <3>1, <3>7
  <2>3. SnapInv'
    BY <1>1, <1>2, <2>1, <2>2 DEF RxInv, SnapInv, seqVars
  <2> QED BY <1>1, <1>4, <1>9, <2>1, <2>3, CheckKeeps DEF CheckLive
<1>10. CASE CheckSequence
  <2>1. SnapInv'
    BY <1>1, <1>2, <1>10
       DEF RxInv, SnapInv, CheckSequence, CheckGoesTo, seqVars
  <2> QED BY <1>1, <1>4, <1>10, <2>1, CheckKeeps DEF CheckSequence
<1> QED BY <1>6, <1>7, <1>8, <1>9, <1>10

(* The first part of a sequence.                                             *)
LEMMA FrontOf ==
  ASSUME NEW S, NEW s \in Seq(S), NEW n \in 1..Len(s)
  PROVE  /\ SubSeq(s, 1, n) \in Seq(S) /\ Len(SubSeq(s, 1, n)) = n
         /\ SubSeq(s, 1, n) = [i \in 1..n |-> s[i]]
OBVIOUS

(* What the host accepts are the next bytes of the wire.                     *)
LEMMA WriteKeeps ==
  ASSUME RxInv, Write
  PROVE  RxInv' /\ StreamStep
<1>1. /\ UNCHANGED <<dmaVars, wrkVars, producer, seqVars, spanVars, overflow,
                     consumer>>
      /\ cpc = "write"
  BY DEF Write
<1>2. PICK count \in 0..offered :
        IF count = 0
        THEN Done /\ UNCHANGED <<accepted, host>>
        ELSE /\ host' = host \o SubSeq(snap, 1, count)
             /\ accepted' = count
             /\ cpc' = "commit"
             /\ UNCHANGED copyVars
  BY DEF Write
<1>3. /\ accepted = 0 /\ Len(snap) = offered /\ Faithful
      /\ offered \in 1..reservedCount /\ reservedCount \in 0..Size
      /\ reservedSeq = consumer /\ Consumed + reservedCount <= Published
      /\ snap \in Seq(0..MaxBytes) /\ host \in Seq(0..MaxBytes)
  BY <1>1 DEF RxInv, BridgeInv, Holding, SnapInv, TypeOK
<1>4. CASE count = 0
  <2>1. Done /\ UNCHANGED <<accepted, host>>
    BY <1>2, <1>4
  <2>2. BridgeInv' /\ SnapInv'
    BY <1>3, <2>1, PassEnds DEF Done, Forget
  <2> QED
    BY <1>1, <2>1, <2>2, BridgeKeeps, ZeroRange, EmptyCopy
       DEF RxInv, TypeOK, BridgePcs, Done, Forget, seqVars, spanVars
<1>5. CASE count # 0
  <2> DEFINE part == SubSeq(snap, 1, count)
  <2>1. /\ host' = host \o part /\ accepted' = count /\ cpc' = "commit"
        /\ UNCHANGED copyVars
    BY <1>2, <1>5
  <2>2. /\ Published \in Nat /\ Consumed \in Nat /\ Published <= received
        /\ received \in Nat /\ Size \in Nat /\ reservedCount \in Nat
        /\ offered \in Nat /\ offered <= reservedCount
        /\ count \in 1..offered
    BY <1>3, <1>5, Distance, Constants DEF RxInv, CursorInv
  <2>3. part = [i \in 1..count |-> Consumed + i]
    <3>1. part = [i \in 1..count |-> snap[i]]
      BY <1>3, <2>2, FrontOf
    <3>2. \A i \in 1..count : snap[i] = Consumed + i
      BY <1>3, <2>2 DEF Faithful
    <3> QED BY <3>1, <3>2
  <2>4. part \in Seq(0..MaxBytes) /\ Len(part) = count
    BY <1>3, <2>2, FrontOf
  <2> HIDE DEF part
  <2>5. host' \in Seq(0..MaxBytes) /\ Len(host') = Len(host) + count
    BY <1>3, <2>1, <2>4, ConcatProperties
  <2>6. RingInv' /\ WorkInv' /\ ProgressInv' /\ received' = received
    BY <1>1, WorkerStays DEF seqVars
  <2>7. CursorInv' /\ Published' = Published /\ Consumed' = Consumed
    BY <1>1, <2>6, CursorsStay DEF RxInv
  <2>8. BridgeInv' /\ SnapInv'
    BY <1>1, <1>3, <2>1, <2>2, <2>7
       DEF BridgeInv, SnapInv, Holding, spanVars, copyVars
  <2>9. Position = Consumed /\ Position' = Consumed + count
    BY <1>3, <2>1, <2>2, <2>7 DEF Position
  <2>10. LossInv'
    <3>1. /\ Len(host) \in Nat /\ Len(host) <= Position /\ overflow' = overflow
          /\ overflow = Least(Position - Len(host), Modulus - 1)
      BY <1>1, <1>3 DEF RxInv, LossInv, LossCounted
    <3>2. /\ Position' - Len(host') = Position - Len(host)
          /\ Len(host') <= Position'
      BY <2>2, <2>5, <2>9, <3>1
    <3> QED BY <3>1, <3>2 DEF LossInv, LossCounted, Least
  <2>11. TypeOK'
    <3>1. accepted' \in 0..SnapshotCap
      BY <2>1, <2>2, Constants DEF RxInv, TypeOK
    <3> QED
      BY <1>1, <2>1, <2>5, <3>1, BridgeTypes
         DEF RxInv, TypeOK, BridgePcs, seqVars, spanVars, copyVars
  <2>12. Stream!Deliver(count) /\ count \in 1..(received - Position)
    <3>1. /\ Position + count <= received /\ Position' = Position + count
          /\ count \in 1..(received - Position)
      BY <1>3, <2>2, <2>9
    <3>2. host' = host \o [i \in 1..count |-> Position + i]
      BY <2>1, <2>3, <2>9
    <3> QED BY <2>6, <3>1, <3>2 DEF Stream!Deliver
  <2>13. StreamStep
    BY <2>12 DEF StreamStep, Stream!Next
  <2> QED BY <2>6, <2>7, <2>8, <2>10, <2>11, <2>13 DEF RxInv
<1> QED BY <1>4, <1>5

(* What the host accepted counts as consumed, what was lapped meanwhile as   *)
(* lost, and no byte as both.                                                *)
LEMMA CommitKeeps ==
  ASSUME RxInv, Commit
  PROVE  RxInv' /\ StreamStep
<1> DEFINE advance == Minus(producer, reservedSeq) - Size
<1>1. /\ UNCHANGED <<dmaVars, wrkVars, producer, seqVars, reservedSeq, host>>
      /\ cpc = "commit" /\ reservedCount' = 0 /\ accepted' = 0
      /\ cpc' \in {"idle", "recover"} /\ Forget
      /\ reservedSeq = consumer
  BY DEF RxInv, BridgeInv, Commit, Done
<1>2. IF advance > accepted
      THEN /\ overflow' = SaturatingAdd(overflow, advance - accepted)
           /\ consumer' = Plus(reservedSeq, advance)
      ELSE /\ consumer' = Plus(reservedSeq, accepted)
           /\ UNCHANGED overflow
  BY DEF Commit, LostAtCommit
<1>3. /\ Published \in Nat /\ Consumed \in Nat /\ Consumed <= Published
      /\ advance = (Published - Consumed) - Size
      /\ consumer = Consumed % Modulus
      /\ Size \in Nat /\ Modulus \in Nat \ {0}
  BY <1>1, Distance, Constants DEF RxInv, CursorInv
<1>4. accepted \in Nat /\ Consumed + accepted <= Published
  BY <1>1, <1>3, Constants DEF RxInv, BridgeInv, Holding, TypeOK
<1> HIDE DEF advance
<1>5. Position = Consumed + accepted
  BY DEF Position
<1>6. RingInv' /\ WorkInv' /\ ProgressInv' /\ received' = received
  BY <1>1, WorkerStays DEF seqVars
<1>7. /\ CursorInv' /\ LossInv' /\ StreamStep
      /\ overflow' \in Cursors /\ consumer' \in Cursors
  <2>1. CASE advance > accepted
    <3> DEFINE lost == advance - accepted
    <3>1. /\ lost \in Nat /\ Position + lost = Consumed + advance
          /\ Position + lost <= Published - Size
          /\ Position + lost <= Published /\ advance \in Nat
      BY <1>3, <1>4, <1>5, <2>1
    <3>2. consumer' = (Position + lost) % Modulus
      <4>1. Plus(Consumed % Modulus, advance) = (Consumed + advance) % Modulus
        BY <1>3, <3>1, PlusAt
      <4> QED BY <1>1, <1>2, <1>3, <2>1, <3>1, <4>1
    <3>3. overflow' = SaturatingAdd(overflow, lost)
      BY <1>2, <2>1
    <3> HIDE DEF lost
    <3> QED BY <1>1, <1>6, <3>1, <3>2, <3>3, SkipCounts
  <2>2. CASE ~(advance > accepted)
    <3>1. Position + 0 = Consumed + accepted /\ Position + 0 <= Published
      BY <1>3, <1>4, <1>5
    <3>2. consumer' = (Position + 0) % Modulus
      <4>1. Plus(Consumed % Modulus, accepted) = (Consumed + accepted) % Modulus
        BY <1>3, <1>4, PlusAt
      <4> QED BY <1>1, <1>2, <1>3, <2>2, <3>1, <4>1
    <3>3. overflow' = SaturatingAdd(overflow, 0)
      <4>1. overflow \in 0..(Modulus - 1) /\ overflow' = overflow
        BY <1>2, <2>2 DEF RxInv, TypeOK, Cursors
      <4>2. ASSUME NEW v \in 0..(Modulus - 1) PROVE v = SaturatingAdd(v, 0)
        BY <1>3 DEF SaturatingAdd, Least
      <4> QED BY <4>1, <4>2
    <3>4. 0 \in Nat
      OBVIOUS
    <3> QED BY <1>1, <1>6, <3>1, <3>2, <3>3, <3>4, SkipCounts
  <2> QED BY <2>1, <2>2
<1>8. BridgeInv' /\ SnapInv'
  BY <1>1, PassEnds DEF Forget
<1>9. TypeOK'
  BY <1>1, <1>7, BridgeTypes, ZeroRange, EmptyCopy
     DEF RxInv, TypeOK, BridgePcs, Forget, seqVars
<1> QED BY <1>6, <1>7, <1>8, <1>9 DEF RxInv
-----------------------------------------------------------------------------
(* The whole path.                                                           *)

(* A port starts with an empty ring and a full countdown.                    *)
LEMMA InitHolds ==
  ASSUME Init
  PROVE  RxInv /\ Stream!Init
<1>1. /\ Size \in Nat \ {0} /\ Modulus \in Nat \ {0} /\ Countdown \in Nat \ {0}
      /\ SnapshotCap \in Nat \ {0} /\ MaxBytes \in Nat /\ MaxApplies \in Nat
  BY Constants, RxAssumption
<1>2. /\ 0 \in 0..MaxBytes /\ 0 \in 0..(Size - 1) /\ 0 \in 0..Countdown
      /\ Countdown \in 0..Countdown /\ 0 \in 0..MaxApplies /\ 0 \in Cursors
      /\ 0 \in 0..Size /\ 0 \in 0..SnapshotCap
  BY <1>1 DEF Cursors
<1>3. <<>> \in Seq(0..MaxBytes) /\ Len(<<>>) = 0 /\ 0 <= 0
  OBVIOUS
<1>4. TypeOK
  BY <1>2, <1>3 DEF Init, TypeOK, WorkerPcs, BridgePcs
<1>5. 0 % Modulus = 0 /\ 0 % Size = 0
  <2>1. 0 \in 0..(Modulus - 1) /\ 0 \in 0..(Size - 1)
    BY <1>1
  <2> QED BY <1>1, <2>1, ModSmall
<1>6. 0 - 0 = 0
  OBVIOUS
<1>7. Lag = 0 /\ Unpublished = 0
  BY <1>5, <1>6 DEF Init, Lag, Unpublished, Minus
<1>8. Consumed = 0 /\ Published = 0 /\ Position = 0
  BY <1>7 DEF Init, Consumed, Published, Position
<1>9. CursorInv
  BY <1>1, <1>5, <1>8 DEF Init, CursorInv
<1>10. RingInv
  BY <1>5 DEF Init, RingInv
<1>11. WorkInv
  BY DEF Init, WorkInv, Stopping
<1>12. ProgressInv
  <2>1. BytesProduced(Progress, lastProgress) = 0
    BY <1>1 DEF Init, BytesProduced, Progress
  <2> QED
    BY <1>7, <2>1 DEF Init, ProgressInv, ProgressAccountsForBytes
<1>13. BridgeInv /\ SnapInv
  BY DEF Init, BridgeInv, SnapInv, Holding
<1>14. LossInv
  BY <1>1, <1>3, <1>8 DEF Init, LossInv, LossCounted, Least
<1>15. Stream!Init
  BY <1>8 DEF Init, Stream!Init
<1> QED
  BY <1>4, <1>9, <1>10, <1>11, <1>12, <1>13, <1>14, <1>15 DEF RxInv

(* One step of each actor.                                                   *)
LEMMA StepHolds ==
  ASSUME RxInv, [Next]_vars
  PROVE  RxInv' /\ StreamStep
<1>1. ASSUME UNCHANGED <<received, bridgeVars>> PROVE StreamStep
  <2>1. UNCHANGED <<received, consumer, accepted, host>>
    BY <1>1 DEF bridgeVars
  <2> QED
    BY <2>1 DEF StreamStep, Position, Consumed, Lag, Minus
<1>2. CASE DmaWrite
  <2>1. RxInv' /\ Consumed' = Consumed
    BY <1>2, DmaWriteKeeps
  <2>2. Stream!Receive
    BY <1>2, <2>1 DEF DmaWrite, Stream!Receive, Position, bridgeVars
  <2> QED BY <2>1, <2>2 DEF StreamStep, Stream!Next
<1>3. CASE RxDmaIrq
  BY <1>1, <1>3, RxDmaIrqKeeps DEF RxDmaIrq
<1>4. CASE Worker
  <2>1. UNCHANGED <<received, bridgeVars>>
    BY <1>4
       DEF Worker, PollBegin, PublishSample, PublishLast, PublishProduce,
           PollRearm, EndUpdate, ApplyStart, ApplyDefer, ApplyPause,
           ApplyUnsettled, ApplySettled, ApplyAbort, StartRxDmaMark,
           StartRxDmaArm, ApplyDead, dmaVars
  <2>2. RxInv'
    BY <1>4, BracketKeeps, DecisionKeeps, PublishSampleKeeps, PublishLastKeeps,
       PublishProduceKeeps, PollRearmKeeps, RestartKeeps DEF Worker
  <2> QED BY <1>1, <2>1, <2>2
<1>5. CASE Bridge
  BY <1>5, BeginKeeps, RecoverKeeps, ReserveKeeps, SampleSequenceKeeps,
     CopyByteKeeps, ChecksKeep, WriteKeeps, CommitKeeps DEF Bridge
<1>6. CASE UNCHANGED vars
  <2>1. /\ UNCHANGED <<dmaVars, wrkVars, producer, updating, moved, spanVars,
                       copyVars, cpc, accepted, overflow, consumer, host>>
        /\ UNCHANGED <<received, bridgeVars>>
    BY <1>6 DEF vars, seqVars, bridgeVars, dmaVars
  <2>2. RingInv' /\ WorkInv' /\ ProgressInv'
    BY <2>1, WorkerStays
  <2>3. CursorInv' /\ Published' = Published /\ Consumed' = Consumed
    BY <2>1, CursorsStay DEF RxInv
  <2>4. BridgeInv' /\ LossInv'
    BY <2>1, <2>3, BridgeStays DEF RxInv, CursorInv, TypeOK
  <2>5. SnapInv'
    <3>1. /\ Faithful' <=> Faithful
          /\ GoodUpTo(received)' <=> GoodUpTo(received)
          /\ GoodUpTo(Published + cprod)' <=> GoodUpTo(Published + cprod)
          /\ GoodUpTo(Published + BytesProduced(cprog, lastProgress))' <=>
               GoodUpTo(Published + BytesProduced(cprog, lastProgress))
      BY <2>1, <2>3 DEF GoodUpTo, Faithful, BytesProduced, copyVars, wrkVars
    <3> QED BY <2>1, <3>1 DEF RxInv, SnapInv
  <2>6. TypeOK'
    BY <2>1 DEF RxInv, TypeOK, dmaVars, wrkVars, spanVars, copyVars
  <2> QED BY <1>1, <2>1, <2>2, <2>3, <2>4, <2>5, <2>6 DEF RxInv
<1> QED BY <1>2, <1>3, <1>4, <1>5, <1>6 DEF Next

(* The invariant holds of every behaviour.                                   *)
THEOREM RxInvariant == Spec => []RxInv
<1>1. Init => RxInv
  BY InitHolds
<1>2. RxInv /\ [Next]_vars => RxInv'
  BY StepHolds
<1> QED BY <1>1, <1>2, PTL DEF Spec

(* Every count, cursor and copy stays within its width and its buffer.       *)
THEOREM RxTypeCorrect == Spec => []TypeOK
<1>1. RxInv => TypeOK
  BY DEF RxInv
<1> QED BY <1>1, RxInvariant, PTL

(* What the bridge hands to USB is the span it reserved and nothing newer,   *)
(* however far the DMA ran meanwhile: the three looks after the copy in      *)
(* uart_bridge_drain_rx suffice, for every ring and every countdown.         *)
THEOREM SnapshotsAreIntact == Spec => []SnapshotIntact
<1>1. RxInv => SnapshotIntact
  BY DEF RxInv, SnapInv, Faithful, SnapshotIntact
<1> QED BY <1>1, RxInvariant, PTL

(* Every byte the host never got is counted once, whoever retired it.        *)
THEOREM LossIsCounted == Spec => []LossCounted
<1>1. RxInv => LossCounted
  BY DEF RxInv, LossInv
<1> QED BY <1>1, RxInvariant, PTL

(* The transfer count tells the worker what to publish across every re-arm.  *)
THEOREM ProgressIsAccounted == Spec => []ProgressAccountsForBytes
<1>1. RxInv => ProgressAccountsForBytes
  BY DEF RxInv, ProgressInv
<1> QED BY <1>1, RxInvariant, PTL

(* The receive path is a lossy stream: nothing is handed over twice or out   *)
(* of order, and nothing given up that the ring still holds.                 *)
THEOREM ReceiveImplementsStream == Spec => ImplementsStream
<1>1. Init => Stream!Init
  BY InitHolds
<1>2. RxInv /\ [Next]_vars => [Stream!Next]_(Stream!vars)
  BY StepHolds DEF StreamStep, Stream!vars
<1> QED
  BY <1>1, <1>2, RxInvariant, PTL DEF Spec, ImplementsStream, Stream!Spec
-----------------------------------------------------------------------------
(* What that means for the host.                                             *)

(* It never sees a byte twice, nor an older one after a newer one, nor one   *)
(* that was not yet received.                                                *)
HostInOrder ==
  /\ \A i \in 1..Len(host) : host[i] \in 1..Position
  /\ \A i, j \in 1..Len(host) : i < j => host[i] < host[j]

(* A delivery continues the host's stream with newer bytes only.             *)
LEMMA DeliveryIsInOrder ==
  ASSUME Position \in Nat, host \in Seq(Nat), HostInOrder,
         NEW k \in 1..(received - Position), received \in Nat,
         Stream!Deliver(k)
  PROVE  HostInOrder'
<1> DEFINE tail == [i \in 1..k |-> Position + i]
           old == Len(host)
<1>1. k \in Nat /\ old \in Nat
  OBVIOUS
<1>2. tail \in Seq(Nat) /\ Len(tail) = k
  BY <1>1
<1>3. host' = host \o tail /\ Position' = Position + k
  BY DEF Stream!Deliver
<1> HIDE DEF tail
<1>4. /\ Len(host') = old + k
      /\ \A i \in 1..(old + k) :
           host'[i] = IF i <= old THEN host[i] ELSE tail[i - old]
  <2>1. /\ Len(host \o tail) = Len(host) + Len(tail)
        /\ \A i \in 1..(Len(host) + Len(tail)) :
             (host \o tail)[i] = IF i <= Len(host) THEN host[i]
                                 ELSE tail[i - Len(host)]
    BY <1>2, ConcatProperties
  <2> QED BY <1>2, <1>3, <2>1
<1> HIDE DEF old
<1>5. \A i \in 1..(old + k) :
        host'[i] = IF i <= old THEN host[i] ELSE Position + (i - old)
  <2> SUFFICES ASSUME NEW i \in 1..(old + k), ~(i <= old)
               PROVE  tail[i - old] = Position + (i - old)
    BY <1>4
  <2>1. i - old \in 1..k
    BY <1>1
  <2> QED BY <2>1 DEF tail
<1>6. /\ \A i \in 1..old : host[i] \in 1..Position
      /\ \A i, j \in 1..old : i < j => host[i] < host[j]
  BY DEF HostInOrder, old
<1>7. ASSUME NEW i \in 1..(old + k) PROVE host'[i] \in 1..(Position + k)
  <2>1. CASE i <= old
    <3>1. host'[i] \in 1..Position
      BY <1>1, <1>5, <1>6, <2>1
    <3> QED BY <1>1, <3>1
  <2>2. CASE ~(i <= old)
    BY <1>1, <1>5, <2>2
  <2> QED BY <2>1, <2>2
<1>8. \A i, j \in 1..(old + k) : i < j => host'[i] < host'[j]
  <2> SUFFICES ASSUME NEW i \in 1..(old + k), NEW j \in 1..(old + k), i < j
               PROVE  host'[i] < host'[j]
    OBVIOUS
  <2>1. CASE j <= old
    BY <1>1, <1>5, <1>6, <2>1
  <2>2. CASE i <= old /\ ~(j <= old)
    <3>1. host'[i] \in 1..Position
      BY <1>1, <1>5, <1>6, <2>2
    <3>2. host'[j] = Position + (j - old) /\ j - old >= 1
      BY <1>1, <1>5, <2>2
    <3> QED BY <1>1, <3>1, <3>2
  <2>3. CASE ~(i <= old)
    BY <1>1, <1>5, <2>3
  <2> QED BY <2>1, <2>2, <2>3
<1> QED BY <1>3, <1>4, <1>7, <1>8 DEF HostInOrder

(* A terminal behind the port shows the wire's bytes in order, with gaps.    *)
THEOREM HostSeesOrder == Spec => []HostInOrder
<1>1. Init => HostInOrder
  BY DEF Init, HostInOrder
<1>2. ASSUME RxInv, HostInOrder, [Next]_vars PROVE HostInOrder'
  <2>1. StreamStep
    BY <1>2, StepHolds
  <2>2. Position \in Nat /\ received \in Nat /\ host \in Seq(Nat)
    <3>1. /\ Consumed \in Nat /\ accepted \in Nat /\ received \in Nat
          /\ host \in Seq(0..MaxBytes) /\ MaxBytes \in Nat
      BY <1>2, Distance, ZeroRange, Constants DEF RxInv, CursorInv, TypeOK
    <3> QED BY <3>1 DEF Position
  <2>3. CASE UNCHANGED <<received, Position, host>>
    BY <1>2, <2>3 DEF HostInOrder
  <2>4. CASE Stream!Receive
    BY <1>2, <2>4 DEF HostInOrder, Stream!Receive
  <2>5. ASSUME NEW k \in 1..(received - Position), Stream!Deliver(k)
        PROVE  HostInOrder'
    BY <1>2, <2>2, <2>5, DeliveryIsInOrder
  <2>6. ASSUME NEW k \in 1..(received - Position), Stream!Lose(k)
        PROVE  HostInOrder'
    BY <1>2, <2>2, <2>6 DEF HostInOrder, Stream!Lose
  <2> QED BY <2>1, <2>3, <2>4, <2>5, <2>6 DEF StreamStep, Stream!Next
<1> QED BY <1>1, <1>2, RxInvariant, PTL DEF Spec
=============================================================================
