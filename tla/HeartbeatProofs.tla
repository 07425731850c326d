--------------------------- MODULE HeartbeatProofs ---------------------------
(* The watchdog is fed while both cores run and bites in time when one does  *)
(* not, for all gaps and windows and however the clock and the count wrap.   *)
(*                                                                           *)
(* HeartInv measures everything in the age of the last change that core 0    *)
(* noticed: it is never so old that the signed comparison turns over         *)
(* (AgeInv), never older than the last sweep while core 1 runs (SweepInv),   *)
(* and never much younger than the hang once it does not (HangInv).          *)
EXTENDS Heartbeat, TLAPS
-----------------------------------------------------------------------------
(* Arithmetic of a clock and a count that wrap.                              *)

(* Whole turns leave no trace.                                               *)
LEMMA ModWhole ==
  ASSUME NEW m \in Nat \ {0}, NEW q \in Int, NEW r \in 0..(m - 1)
  PROVE  ((q * m) + r) % m = r
OBVIOUS

(* What whole turns there are besides the remainder.                         *)
LEMMA ModTurns ==
  ASSUME NEW m \in Nat \ {0}, NEW a \in Int
  PROVE  \E q \in Int : a = (q * m) + (a % m)
<1> DEFINE q == a \div m
<1>1. q \in Int /\ a = (q * m) + (a % m)
  OBVIOUS
<1> HIDE DEF q
<1> QED BY <1>1

(* A remainder is a digit.                                                   *)
LEMMA ModRange ==
  ASSUME NEW m \in Nat \ {0}, NEW a \in Int
  PROVE  a % m \in 0..(m - 1)
OBVIOUS

(* A digit is its own remainder.                                             *)
LEMMA ModSmall ==
  ASSUME NEW m \in Nat \ {0}, NEW r \in 0..(m - 1)
  PROVE  r % m = r
<1>1. ((0 * m) + r) % m = r
  BY ModWhole
<1> QED BY <1>1

(* Adding d to a digit and taking its remainder adds d to every difference.  *)
LEMMA ModStep ==
  ASSUME NEW m \in Nat \ {0}, NEW a \in Int, NEW b \in Int, NEW d \in Nat,
         ((a - b) % m) + d < m
  PROVE  (((a + d) % m) - b) % m = ((a - b) % m) + d
<1> DEFINE r == (a - b) % m
           s == (a + d) % m
<1>1. a - b \in Int /\ a + d \in Int
  OBVIOUS
<1>2. PICK p \in Int : a - b = (p * m) + r
  BY <1>1, ModTurns
<1>3. PICK q \in Int : a + d = (q * m) + s
  BY <1>1, ModTurns
<1>4. r \in 0..(m - 1) /\ s \in 0..(m - 1)
  BY <1>1, ModRange
<1>5. r + d < m
  OBVIOUS
<1> HIDE DEF r, s
<1>6. s - b = ((p - q) * m) + (r + d)
  BY <1>2, <1>3, <1>4
<1>7. r + d \in 0..(m - 1) /\ p - q \in Int
  BY <1>4, <1>5
<1>8. (s - b) % m = r + d
  BY <1>6, <1>7, ModWhole
<1> QED BY <1>8 DEF r, s

(* Two digits differ by whole turns only when they are the same.             *)
LEMMA ModSame ==
  ASSUME NEW m \in Nat \ {0}, NEW a \in 0..(m - 1), NEW b \in 0..(m - 1)
  PROVE  (a - b) % m = 0 <=> a = b
<1>1. CASE b <= a
  <2>1. a - b \in 0..(m - 1)
    BY <1>1
  <2>2. (a - b) % m = a - b
    BY <2>1, ModSmall
  <2> QED BY <2>2
<1>2. CASE a < b
  <2> DEFINE r == m - (b - a)
  <2>1. r \in 0..(m - 1) /\ r # 0 /\ -1 \in Int /\ a - b = ((-1) * m) + r
    BY <1>2
  <2> HIDE DEF r
  <2>2. (a - b) % m = r
    BY <2>1, ModWhole
  <2> QED BY <1>2, <2>1, <2>2
<1> QED BY <1>1, <1>2
-----------------------------------------------------------------------------
(* The invariant.                                                            *)

(* How long ago core 0 noticed a sweep.                                      *)
Age == (clock - lastChange) % ClockModulus

(* And how many sweeps it has not noticed yet.                               *)
Ahead == (heartbeat - lastHeartbeat) % BeatModulus

Runs(core) == core \notin hung

AgeInv == Age <= Stale + dog

FedInv == hung = {} => dog = pollAge /\ hungFor = 0

SweepInv ==
  Runs("core 0") =>
    /\ Ahead = unseen
    /\ Runs("core 1") /\ unseen = 0 => Age <= sweepAge

HangInv ==
  /\ Runs("core 0") /\ ~Runs("core 1") =>
       IF unseen = 0 THEN hungFor <= PollGap + Age ELSE hungFor <= pollAge
  /\ hungFor <= dog + PollGap + Stale

HeartInv == TypeOK /\ AgeInv /\ FedInv /\ SweepInv /\ HangInv
-----------------------------------------------------------------------------
(* The assumptions in the form the proofs use them.                          *)
LEMMA Constants ==
  /\ Stale \in Nat \ {0} /\ Timeout \in Nat \ {0}
  /\ WorkerGap \in Nat /\ WorkerGap < Stale
  /\ PollGap \in Nat /\ PollGap < Timeout
  /\ Limit = PollGap + Stale + Timeout
  /\ ClockModulus \in Nat \ {0} /\ 2 * (PollGap + Stale + Timeout) < ClockModulus
  /\ BeatModulus \in Nat \ {0} /\ 1 < BeatModulus
BY HeartbeatAssumption DEF Limit

(* The types in the form arithmetic needs.                                   *)
LEMMA Ranges ==
  ASSUME TypeOK
  PROVE  /\ clock \in Int /\ lastChange \in Int
         /\ heartbeat \in 0..(BeatModulus - 1)
         /\ lastHeartbeat \in 0..(BeatModulus - 1)
         /\ dog \in Nat /\ dog <= Timeout /\ hungFor \in Nat
         /\ sweepAge \in Nat /\ sweepAge <= WorkerGap
         /\ pollAge \in Nat /\ pollAge <= PollGap
         /\ unseen \in Nat /\ unseen < BeatModulus
         /\ Age \in Nat /\ Ahead \in Nat
<1>1. clock \in Int /\ lastChange \in Int
  BY Constants DEF TypeOK
<1>2. heartbeat \in Int /\ lastHeartbeat \in Int
  BY Constants DEF TypeOK
<1>3. Age \in Nat /\ Ahead \in Nat
  <2>1. Age \in 0..(ClockModulus - 1)
    BY <1>1, Constants, ModRange DEF Age
  <2>2. Ahead \in 0..(BeatModulus - 1)
    BY <1>2, Constants, ModRange DEF Ahead
  <2> QED BY <2>1, <2>2, Constants
<1> QED BY <1>1, <1>3, Constants DEF TypeOK

(* The comparison in the firmware sees the age as it is.                     *)
LEMMA RecentIsYoung ==
  ASSUME HeartInv
  PROVE  Recent <=> Age < Stale
<1>1. Age \in Nat /\ Age <= Stale + Timeout
  BY Ranges, Constants DEF HeartInv, AgeInv
<1>2. Signed(Age) = Age
  BY <1>1, Constants DEF Signed
<1> QED BY <1>2 DEF Recent, Age

(* And the count differs exactly when there was a sweep.                     *)
LEMMA MovedIsSwept ==
  ASSUME HeartInv, Runs("core 0")
  PROVE  Moved <=> unseen # 0
<1>1. /\ heartbeat \in 0..(BeatModulus - 1)
      /\ lastHeartbeat \in 0..(BeatModulus - 1)
      /\ Ahead = unseen /\ BeatModulus \in Nat \ {0}
  BY Ranges, Constants DEF HeartInv, SweepInv
<1>2. Ahead = 0 <=> heartbeat = lastHeartbeat
  BY <1>1, ModSame DEF Ahead
<1> QED BY <1>1, <1>2 DEF Moved
-----------------------------------------------------------------------------
(* One lemma per action.                                                     *)

(* Out of reset every age is the same.                                       *)
LEMMA BootStarts ==
  ASSUME NEW now \in 0..PollGap, now <= WorkerGap, Boot(now)
  PROVE  HeartInv'
<1>1. now \in Nat /\ now <= PollGap /\ now <= Timeout /\ PollGap \in Nat
  BY Constants
<1>2. /\ clock' = now /\ dog' = now /\ sweepAge' = now /\ pollAge' = now
      /\ heartbeat' = 0 /\ lastHeartbeat' = 0 /\ lastChange' = 0
      /\ hung' = {} /\ hungFor' = 0 /\ unseen' = 0
  BY DEF Boot
<1>3. Age' = now
  <2>1. now - 0 = now /\ now \in 0..(ClockModulus - 1)
    BY <1>1, Constants
  <2>2. now % ClockModulus = now
    BY <2>1, Constants, ModSmall
  <2> QED BY <1>2, <2>1, <2>2 DEF Age
<1>4. Ahead' = 0
  <2>1. 0 \in 0..(BeatModulus - 1)
    BY Constants
  <2>2. (0 - 0) % BeatModulus = 0
    BY <2>1, Constants, ModSame
  <2> QED BY <1>2, <2>2 DEF Ahead
<1>5. TypeOK'
  <2>1. /\ now \in 0..(ClockModulus - 1) /\ 0 \in 0..(ClockModulus - 1)
        /\ 0 \in 0..(BeatModulus - 1) /\ now \in 0..Timeout
        /\ 0 \in 0..(Limit + 1) /\ now \in 0..WorkerGap /\ now \in 0..PollGap
    BY <1>1, Constants
  <2> QED BY <1>2, <2>1 DEF TypeOK
<1>6. AgeInv' /\ FedInv' /\ SweepInv' /\ HangInv'
  <2>1. now <= Stale + now /\ 0 <= now + PollGap + Stale /\ now <= now
    BY <1>1, Constants
  <2> QED
    BY <1>2, <1>3, <1>4, <2>1
       DEF AgeInv, FedInv, SweepInv, HangInv, Runs
<1> QED BY <1>5, <1>6 DEF HeartInv

(* A sweep brings core 0 one behind.                                         *)
LEMMA SweepKeeps ==
  ASSUME HeartInv, Sweep
  PROVE  HeartInv'
<1>1. /\ Runs("core 1")
      /\ Runs("core 0") => unseen + 1 < BeatModulus
      /\ heartbeat' = (heartbeat + 1) % BeatModulus
      /\ sweepAge' = 0 /\ unseen' = Older(unseen, BeatModulus - 1)
      /\ UNCHANGED <<clock, lastHeartbeat, lastChange, dog, hung, hungFor,
                     pollAge>>
  BY DEF Sweep, Runs
<1>2. /\ heartbeat \in 0..(BeatModulus - 1) /\ unseen \in Nat
      /\ lastHeartbeat \in 0..(BeatModulus - 1) /\ unseen < BeatModulus
      /\ BeatModulus \in Nat \ {0} /\ 1 < BeatModulus
  BY Ranges, Constants DEF HeartInv
<1>3. Age' = Age
  BY <1>1 DEF Age
<1>4. ASSUME Runs("core 0") PROVE Ahead' = unseen' /\ unseen' = unseen + 1
  <2>1. Ahead = unseen /\ Ahead + 1 < BeatModulus
    BY <1>1, <1>4, Zenon DEF HeartInv, SweepInv
  <2>2. heartbeat \in Int /\ lastHeartbeat \in Int /\ 1 \in Nat
    BY <1>2
  <2>3. (((heartbeat + 1) % BeatModulus) - lastHeartbeat) % BeatModulus = Ahead + 1
    BY <1>2, <2>1, <2>2, ModStep DEF Ahead
  <2>4. unseen' = unseen + 1
    <3>1. unseen < BeatModulus - 1
      BY <1>2, <2>1
    <3> QED BY <1>1, <3>1, Zenon DEF Older
  <2> QED BY <1>1, <2>1, <2>3, <2>4 DEF Ahead
<1>5. TypeOK'
  <2>1. heartbeat' \in 0..(BeatModulus - 1)
    <3>1. heartbeat + 1 \in Int
      BY <1>2
    <3> QED BY <1>1, <1>2, <3>1, ModRange
  <2>2. unseen' \in 0..(BeatModulus - 1)
    <3>1. Older(unseen, BeatModulus - 1) \in 0..(BeatModulus - 1)
      BY <1>2 DEF Older
    <3> QED BY <1>1, <3>1, Zenon
  <2>3. sweepAge' \in 0..WorkerGap
    <3>1. 0 \in 0..WorkerGap
      BY Constants
    <3> QED BY <1>1, <3>1, Zenon
  <2> QED BY <1>1, <2>1, <2>2, <2>3 DEF HeartInv, TypeOK
<1>6. SweepInv' /\ HangInv'
  <2>1. Runs("core 0") => unseen' # 0
    <3>1. unseen + 1 # 0
      BY <1>2
    <3> QED BY <1>4, <3>1, Zenon
  <2> QED
    BY <1>1, <1>3, <1>4, <2>1 DEF HeartInv, SweepInv, HangInv, Runs
<1>7. AgeInv' /\ FedInv'
  BY <1>1, <1>3 DEF HeartInv, AgeInv, FedInv
<1> QED BY <1>5, <1>6, <1>7 DEF HeartInv

(* A pass of the main loop feeds the watchdog unless core 1 hangs, and then  *)
(* for no longer than the stale window.                                      *)
LEMMA PollKeeps ==
  ASSUME HeartInv, Poll
  PROVE  HeartInv'
<1>1. /\ Runs("core 0") /\ lastHeartbeat' = heartbeat
      /\ lastChange' = IF Moved THEN clock ELSE lastChange
      /\ dog' = IF Moved \/ Recent THEN 0 ELSE dog
      /\ pollAge' = 0 /\ unseen' = 0
      /\ UNCHANGED <<clock, heartbeat, hung, hungFor, sweepAge>>
  BY DEF Poll, Runs, Moved
<1>2. (Moved <=> unseen # 0) /\ (Recent <=> Age < Stale)
  BY <1>1, MovedIsSwept, RecentIsYoung
<1>3. /\ clock \in Int /\ dog \in Nat /\ hungFor \in Nat /\ sweepAge \in Nat
      /\ sweepAge <= WorkerGap /\ pollAge \in Nat /\ pollAge <= PollGap
      /\ Age \in Nat /\ WorkerGap < Stale /\ WorkerGap \in Nat /\ Stale \in Nat
      /\ PollGap \in Nat
  BY Ranges, Constants DEF HeartInv
<1>4. Age' = IF Moved THEN 0 ELSE Age
  <2>1. clock - clock = 0 /\ 0 % ClockModulus = 0
    <3>1. 0 \in 0..(ClockModulus - 1) /\ ClockModulus \in Nat \ {0}
      BY Constants
    <3> QED BY <1>3, <3>1, ModSmall
  <2> QED BY <1>1, <2>1 DEF Age
<1>5. Ahead' = 0
  <2>1. (heartbeat - heartbeat) % BeatModulus = 0
    <3>1. heartbeat \in 0..(BeatModulus - 1) /\ BeatModulus \in Nat \ {0}
      BY Ranges, Constants DEF HeartInv
    <3> QED BY <3>1, ModSame
  <2> QED BY <1>1, <2>1 DEF Ahead
<1>6. AgeInv'
  <2>1. Age <= Stale + dog
    BY DEF HeartInv, AgeInv
  <2>2. Age < Stale => Age <= Stale + 0
    BY <1>3
  <2>3. 0 <= Stale + 0 /\ 0 <= Stale + dog
    BY <1>3
  <2> QED BY <1>1, <1>2, <1>4, <2>1, <2>2, <2>3, Zenon DEF AgeInv
<1>7. ~Moved /\ Runs("core 1") => Age <= sweepAge
  BY <1>1, <1>2 DEF HeartInv, SweepInv
<1>8. FedInv'
  <2>1. ASSUME hung = {} PROVE dog' = 0 /\ hungFor = 0
    <3>1. hungFor = 0 /\ Runs("core 1")
      BY <2>1 DEF HeartInv, FedInv, Runs
    <3>2. Age <= sweepAge => Age < Stale
      BY <1>3
    <3>3. Moved \/ Recent
      BY <1>2, <1>7, <3>1, <3>2, Zenon
    <3> QED BY <1>1, <3>1, <3>3
  <2> QED BY <1>1, <2>1 DEF FedInv
<1>9. SweepInv'
  <2>1. Runs("core 1") => Age' <= sweepAge
    <3>1. 0 <= sweepAge
      BY <1>3
    <3> QED BY <1>4, <1>7, <3>1, Zenon
  <2> QED BY <1>1, <1>5, <2>1 DEF SweepInv, Runs
<1>10. HangInv'
  <2>1. CASE Runs("core 1")
    <3>1. hung = {}
      BY <1>1, <2>1 DEF HeartInv, TypeOK, Runs, Cores
    <3>2. hungFor' = 0 /\ dog' = 0
      BY <1>1, <1>8, <3>1 DEF FedInv
    <3>3. 0 <= 0 + PollGap + Stale
      BY <1>3
    <3> QED BY <1>1, <2>1, <3>2, <3>3 DEF HangInv, Runs
  <2>2. CASE ~Runs("core 1")
    <3>1. /\ IF unseen = 0 THEN hungFor <= PollGap + Age ELSE hungFor <= pollAge
          /\ hungFor <= dog + PollGap + Stale
      BY <1>1, <2>2 DEF HeartInv, HangInv
    <3>2. hungFor <= PollGap + Age'
      BY <1>2, <1>3, <1>4, <3>1
    <3>3. hungFor <= dog' + PollGap + Stale
      <4>1. /\ Age < Stale /\ hungFor <= PollGap + Age =>
                hungFor <= 0 + PollGap + Stale
            /\ hungFor <= pollAge => hungFor <= 0 + PollGap + Stale
        BY <1>3
      <4> QED BY <1>1, <1>2, <3>1, <4>1, Zenon
    <3> QED BY <1>1, <3>2, <3>3 DEF HangInv
  <2> QED BY <2>1, <2>2
<1>11. TypeOK'
  <2>1. clock \in 0..(ClockModulus - 1) /\ lastChange \in 0..(ClockModulus - 1)
    BY DEF HeartInv, TypeOK
  <2>2. /\ 0 \in 0..Timeout /\ 0 \in 0..PollGap /\ 0 \in 0..(BeatModulus - 1)
    BY Constants
  <2> QED BY <1>1, <2>1, <2>2 DEF HeartInv, TypeOK
<1> QED BY <1>6, <1>8, <1>9, <1>10, <1>11 DEF HeartInv

(* The hang begins now.                                                      *)
LEMMA HangKeeps ==
  ASSUME HeartInv, NEW core \in Cores, Hang(core)
  PROVE  HeartInv'
<1>1. /\ hung' = hung \cup {core}
      /\ UNCHANGED <<clock, heartbeat, lastHeartbeat, lastChange, dog, hungFor,
                     sweepAge, pollAge, unseen>>
  BY DEF Hang
<1>2. Age' = Age /\ Ahead' = Ahead
  BY <1>1 DEF Age, Ahead
<1>3. TypeOK' /\ AgeInv' /\ FedInv' /\ SweepInv'
  BY <1>1, <1>2 DEF HeartInv, TypeOK, AgeInv, FedInv, SweepInv, Runs
<1>4. HangInv'
  <2>1. ASSUME core = "core 1", Runs("core 0"), Runs("core 1")
        PROVE  hungFor = 0
    BY <2>1 DEF HeartInv, TypeOK, FedInv, Runs, Cores
  <2>2. /\ 0 <= PollGap + Age /\ 0 <= pollAge
    BY Ranges, Constants DEF HeartInv
  <2>3. core \in {"core 0", "core 1"}
    BY DEF Cores
  <2> QED
    BY <1>1, <1>2, <2>1, <2>2, <2>3 DEF HeartInv, HangInv, Runs
<1> QED BY <1>3, <1>4 DEF HeartInv

(* A millisecond makes everything older.                                     *)
LEMMA TickKeeps ==
  ASSUME HeartInv, Tick
  PROVE  HeartInv'
<1>1. /\ dog < Timeout
      /\ Runs("core 1") => sweepAge < WorkerGap
      /\ Runs("core 0") => pollAge < PollGap
      /\ clock' = (clock + 1) % ClockModulus
      /\ dog' = dog + 1
      /\ hungFor' = IF hung = {} THEN 0 ELSE Older(hungFor, Limit + 1)
      /\ sweepAge' = Older(sweepAge, WorkerGap)
      /\ pollAge' = Older(pollAge, PollGap)
      /\ UNCHANGED <<heartbeat, lastHeartbeat, lastChange, hung, unseen>>
  BY DEF Tick, Runs
<1>2. /\ clock \in Int /\ lastChange \in Int /\ dog \in Nat /\ hungFor \in Nat
      /\ sweepAge \in Nat /\ pollAge \in Nat /\ Age \in Nat
      /\ sweepAge <= WorkerGap /\ pollAge <= PollGap
      /\ WorkerGap \in Nat /\ Stale \in Nat /\ PollGap \in Nat /\ Timeout \in Nat
      /\ 2 * (PollGap + Stale + Timeout) < ClockModulus
      /\ ClockModulus \in Nat \ {0} /\ Limit = PollGap + Stale + Timeout
  BY Ranges, Constants DEF HeartInv
<1>3. Age <= Stale + dog /\ dog < Timeout
  BY <1>1 DEF HeartInv, AgeInv
<1>4. Age' = Age + 1 /\ Ahead' = Ahead
  <2>1. Age + 1 < ClockModulus /\ 1 \in Nat
    BY <1>2, <1>3
  <2>2. (((clock + 1) % ClockModulus) - lastChange) % ClockModulus = Age + 1
    BY <1>2, <2>1, ModStep DEF Age
  <2> QED BY <1>1, <2>2 DEF Age, Ahead
<1>5. /\ Runs("core 1") => sweepAge' = sweepAge + 1
      /\ Runs("core 0") => pollAge' = pollAge + 1
      /\ hung = {} => hungFor' = 0
      /\ \A n \in Nat : hungFor + 1 <= n => hungFor' <= n
  <2>1. \A n \in Nat : hungFor + 1 <= n =>
          0 <= n /\ Older(hungFor, Limit + 1) <= n
    BY <1>2 DEF Older
  <2>2. /\ sweepAge < WorkerGap => Older(sweepAge, WorkerGap) = sweepAge + 1
        /\ pollAge < PollGap => Older(pollAge, PollGap) = pollAge + 1
    BY DEF Older
  <2> QED BY <1>1, <2>1, <2>2, Zenon
<1>6. AgeInv'
  <2>1. Age + 1 <= Stale + (dog + 1)
    BY <1>2, <1>3
  <2> QED BY <1>1, <1>4, <2>1, Zenon DEF AgeInv
<1>7. FedInv'
  BY <1>1, <1>5 DEF HeartInv, FedInv, Runs
<1>8. SweepInv'
  <2>1. Age <= sweepAge => Age + 1 <= sweepAge + 1
    BY <1>2
  <2> QED
    BY <1>1, <1>4, <1>5, <2>1 DEF HeartInv, SweepInv, Runs
<1>9. HangInv'
  <2>1. hungFor <= dog + PollGap + Stale
    BY DEF HeartInv, HangInv
  <2>2. hungFor' <= dog' + PollGap + Stale
    <3>1. /\ hungFor + 1 <= (dog + 1) + PollGap + Stale
          /\ (dog + 1) + PollGap + Stale \in Nat
      BY <1>2, <2>1
    <3> QED BY <1>1, <1>5, <3>1, Zenon
  <2>3. ASSUME Runs("core 0"), ~Runs("core 1")
        PROVE  IF unseen = 0 THEN hungFor' <= PollGap + Age'
                             ELSE hungFor' <= pollAge'
    <3>1. IF unseen = 0 THEN hungFor <= PollGap + Age ELSE hungFor <= pollAge
      BY <2>3 DEF HeartInv, HangInv
    <3>2. /\ PollGap + (Age + 1) \in Nat /\ pollAge + 1 \in Nat
          /\ hungFor <= PollGap + Age => hungFor + 1 <= PollGap + (Age + 1)
          /\ hungFor <= pollAge => hungFor + 1 <= pollAge + 1
      BY <1>2
    <3> QED BY <1>4, <1>5, <2>3, <3>1, <3>2, Zenon
  <2> QED BY <1>1, <2>2, <2>3 DEF HangInv, Runs
<1>10. TypeOK'
  <2>1. clock' \in 0..(ClockModulus - 1)
    <3>1. clock + 1 \in Int
      BY <1>2
    <3> QED BY <1>1, <1>2, <3>1, ModRange
  <2>2. /\ dog' \in 0..Timeout /\ sweepAge' \in 0..WorkerGap
        /\ pollAge' \in 0..PollGap
    <3>1. /\ dog + 1 \in 0..Timeout /\ Older(sweepAge, WorkerGap) \in 0..WorkerGap
          /\ Older(pollAge, PollGap) \in 0..PollGap
      BY <1>2, <1>3 DEF Older
    <3> QED BY <1>1, <3>1, Zenon
  <2>3. hungFor' \in 0..(Limit + 1)
    <3>1. hungFor \in 0..(Limit + 1)
      BY DEF HeartInv, TypeOK
    <3>2. Limit + 1 \in Nat
      BY <1>2
    <3>3. /\ 0 \in 0..(Limit + 1)
          /\ Older(hungFor, Limit + 1) \in 0..(Limit + 1)
      BY <3>1, <3>2 DEF Older
    <3> QED BY <1>1, <3>3, Zenon
  <2> QED BY <1>1, <2>1, <2>2, <2>3 DEF HeartInv, TypeOK
<1> QED BY <1>6, <1>7, <1>8, <1>9, <1>10 DEF HeartInv
-----------------------------------------------------------------------------
(* The invariant holds of every behaviour.                                   *)
THEOREM HeartInvariant == Spec => []HeartInv
<1>1. Init => HeartInv
  <2> SUFFICES ASSUME Init
               PROVE  HeartInv
    OBVIOUS
  <2>1. Age = 0 /\ Ahead = 0
    <3>1. /\ 0 \in 0..(ClockModulus - 1) /\ ClockModulus \in Nat \ {0}
          /\ 0 \in 0..(BeatModulus - 1) /\ BeatModulus \in Nat \ {0}
      BY Constants
    <3>2. (0 - 0) % ClockModulus = 0 /\ (0 - 0) % BeatModulus = 0
      BY <3>1, ModSame
    <3> QED BY <3>2 DEF Init, Age, Ahead
  <2>2. TypeOK
    BY Constants DEF Init, TypeOK
  <2>3. 0 <= Stale + 0 /\ 0 <= 0 + PollGap + Stale /\ 0 <= 0
    BY Constants
  <2> QED
    BY <2>1, <2>2, <2>3
       DEF Init, HeartInv, AgeInv, FedInv, SweepInv, HangInv, Runs
<1>2. HeartInv /\ [Next]_vars => HeartInv'
  <2> SUFFICES ASSUME HeartInv, [Next]_vars
               PROVE  HeartInv'
    OBVIOUS
  <2>1. CASE Expire
    BY <2>1, BootStarts DEF Expire
  <2>2. CASE UNCHANGED vars
    BY <2>2 DEF vars, HeartInv, TypeOK, AgeInv, FedInv, SweepInv, HangInv, Runs,
                Age, Ahead
  <2> QED
    BY <2>1, <2>2, SweepKeeps, PollKeeps, HangKeeps, TickKeeps DEF Next
<1> QED BY <1>1, <1>2, PTL DEF Spec

(* No running board is reset: uart_driver_worker_heartbeat_is_fresh tells    *)
(* the main loop to feed at every pass, also when clock and count wrap.      *)
THEOREM RunningBoardIsFed == Spec => []FedWhileBothRun
<1>1. HeartInv => FedWhileBothRun
  BY Ranges DEF HeartInv, FedInv, FedWhileBothRun
<1> QED BY <1>1, HeartInvariant, PTL

(* No hang goes on for longer than a pass of the main loop, the stale window *)
(* and the watchdog's timeout together.                                      *)
THEOREM HangsEnd == Spec => []HangEndsInTime
<1>1. ASSUME HeartInv PROVE HangEndsInTime
  <2>1. /\ hungFor <= dog + PollGap + Stale /\ dog <= Timeout
        /\ hungFor \in Nat /\ dog \in Nat
    BY <1>1, Ranges DEF HeartInv, HangInv
  <2> QED BY <2>1, Constants DEF HangEndsInTime
<1> QED BY <1>1, HeartInvariant, PTL
=============================================================================
