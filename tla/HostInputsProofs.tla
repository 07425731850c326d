-------------------------- MODULE HostInputsProofs --------------------------
(* The telemetry of the HID service and its client, for every number of      *)
(* channels, every modulus and every bound.                                  *)
(*                                                                           *)
(* CaptureInv says what the baselines of a channel know of its counters,     *)
(* SampleInv how old the deadline of the fault sample is, TurnInv in which   *)
(* order the channels are asked; they are about the device alone.  WireInv   *)
(* ties a report to the interval it is about, StreamInv the sequence of a    *)
(* client to the one of the device, LossInv its gaps to what it missed,      *)
(* RateInv its counters to the start of the interval of the next report.     *)
EXTENDS HostInputs, TLAPS, WellFoundedInduction
-----------------------------------------------------------------------------
(* Arithmetic of counters that wrap.                                         *)

(* A remainder is a digit.                                                   *)
LEMMA ModRange ==
  ASSUME NEW m \in Nat \ {0}, NEW a \in Nat
  PROVE  a % m \in 0..(m - 1)
OBVIOUS

(* What whole turns there are besides the remainder.                         *)
LEMMA ModTurns ==
  ASSUME NEW m \in Nat \ {0}, NEW a \in Nat
  PROVE  \E q \in Nat : a = (q * m) + (a % m)
<1> DEFINE q == a \div m
<1>1. q \in Nat /\ a = (q * m) + (a % m)
  OBVIOUS
<1> HIDE DEF q
<1>2. QED BY <1>1

(* Whole turns leave no trace.                                               *)
LEMMA ModWhole ==
  ASSUME NEW m \in Nat \ {0}, NEW q \in Int, NEW r \in 0..(m - 1)
  PROVE  ((q * m) + r) % m = r
OBVIOUS

(* The difference of two readings of a counter that moved less than a turn   *)
(* in between is what it moved.                                              *)
LEMMA ModDifference ==
  ASSUME NEW m \in Nat \ {0}, NEW a \in Nat, NEW b \in Nat, a <= b, b - a < m
  PROVE  ((b % m) - (a % m)) % m = b - a
<1>1. PICK p \in Nat : a = (p * m) + (a % m)
  BY ModTurns
<1>2. PICK q \in Nat : b = (q * m) + (b % m)
  BY ModTurns
<1>3. a % m \in Int /\ b % m \in Int
  OBVIOUS
<1>5. ((b % m) - (a % m)) = ((p - q) * m) + (b - a)
  BY <1>1, <1>2, <1>3
<1>6. b - a \in 0..(m - 1) /\ p - q \in Int
  OBVIOUS
<1>7. (((p - q) * m) + (b - a)) % m = b - a
  BY <1>6, ModWhole
<1>8. QED BY <1>5, <1>7

(* Counting in steps of one, modulo m.                                       *)
LEMMA ModNext ==
  ASSUME NEW m \in Nat \ {0}, NEW a \in Nat
  PROVE  ((a % m) + 1) % m = (a + 1) % m
<1>1. PICK q \in Nat : a = (q * m) + (a % m)
  BY ModTurns
<1>2. a % m \in 0..(m - 1)
  BY ModRange
<1>3. CASE (a % m) + 1 < m
  <2>1. (a % m) + 1 \in 0..(m - 1)
    BY <1>2, <1>3
  <2>2. a + 1 = (q * m) + ((a % m) + 1)
    BY <1>1, <1>2
  <2>3. ((q * m) + ((a % m) + 1)) % m = (a % m) + 1
    BY <2>1, ModWhole
  <2>4. ((0 * m) + ((a % m) + 1)) % m = (a % m) + 1
    BY <2>1, ModWhole
  <2>5. QED BY <2>1, <2>2, <2>3, <2>4
<1>4. CASE (a % m) + 1 = m
  <2>1. a + 1 = ((q + 1) * m) + 0
    BY <1>1, <1>2, <1>4
  <2>2. (((q + 1) * m) + 0) % m = 0
    BY ModWhole
  <2>3. ((1 * m) + 0) % m = 0
    BY ModWhole
  <2>4. QED BY <1>4, <2>1, <2>2, <2>3
<1>5. QED BY <1>2, <1>3, <1>4

(* How far a counter is ahead of a digit it has passed less than a turn ago. *)
LEMMA ModAhead ==
  ASSUME NEW m \in Nat \ {0}, NEW a \in 0..(m - 1), NEW d \in 0..(m - 1)
  PROVE  (((a + d) % m) - a) % m = d
<1>1. a % m = a
  <2>1. ((0 * m) + a) % m = a
    BY ModWhole
  <2>2. QED BY <2>1
<1>2. (((a + d) % m) - (a % m)) % m = (a + d) - a
  BY ModDifference
<1>3. QED BY <1>1, <1>2

(* A remainder is a digit, also of a reading below zero.                     *)
LEMMA ModRangeInt ==
  ASSUME NEW m \in Nat \ {0}, NEW a \in Int
  PROVE  a % m \in 0..(m - 1)
OBVIOUS

(* What whole turns there are besides the remainder, below zero too.         *)
LEMMA ModTurnsInt ==
  ASSUME NEW m \in Nat \ {0}, NEW a \in Int
  PROVE  \E q \in Int : a = (q * m) + (a % m)
<1> DEFINE q == a \div m
<1>1. q \in Int /\ a = (q * m) + (a % m)
  OBVIOUS
<1> HIDE DEF q
<1>2. QED BY <1>1

(* A distance round the clock moves by d when either end does.               *)
LEMMA ModShift ==
  ASSUME NEW m \in Nat \ {0}, NEW a \in Int, NEW b \in Int, NEW d \in Int,
         ((a - b) % m) + d \in 0..(m - 1)
  PROVE  /\ (((a + d) % m) - b) % m = ((a - b) % m) + d
         /\ (a - ((b - d) % m)) % m = ((a - b) % m) + d
         /\ ((a + d) - b) % m = ((a - b) % m) + d
<1> DEFINE r == (a - b) % m
           s == (a + d) % m
           t == (b - d) % m
<1>1. a - b \in Int /\ a + d \in Int /\ b - d \in Int
  OBVIOUS
<1>2. PICK p \in Int : a - b = (p * m) + r
  BY <1>1, ModTurnsInt
<1>3. PICK q \in Int : a + d = (q * m) + s
  BY <1>1, ModTurnsInt
<1>4. PICK u \in Int : b - d = (u * m) + t
  BY <1>1, ModTurnsInt
<1>5. r \in 0..(m - 1) /\ s \in 0..(m - 1) /\ t \in 0..(m - 1)
  BY <1>1, ModRangeInt
<1>6. r + d \in 0..(m - 1)
  OBVIOUS
<1> HIDE DEF r, s, t
<1>7. /\ s - b = ((p - q) * m) + (r + d)
      /\ a - t = ((p + u) * m) + (r + d)
      /\ (a + d) - b = (p * m) + (r + d)
  BY <1>2, <1>3, <1>4, <1>5
<1>8. p - q \in Int /\ p + u \in Int
  OBVIOUS
<1>9. /\ (s - b) % m = r + d
      /\ (a - t) % m = r + d
      /\ ((a + d) - b) % m = r + d
  BY <1>6, <1>7, <1>8, ModWhole
<1>10. QED BY <1>9 DEF r, s, t

(* The same of its end only.                                                 *)
LEMMA ModEnd ==
  ASSUME NEW m \in Nat \ {0}, NEW a \in Int, NEW b \in Int, NEW d \in Nat,
         ((a - b) % m) + d < m
  PROVE  (((a + d) % m) - b) % m = ((a - b) % m) + d
<1> DEFINE r == (a - b) % m
<1>1. a - b \in Int /\ d \in Int
  OBVIOUS
<1>2. r \in 0..(m - 1)
  BY <1>1, ModRangeInt
<1>3. r + d < m
  OBVIOUS
<1> HIDE DEF r
<1>4. r + d \in 0..(m - 1)
  BY <1>2, <1>3
<1>5. QED BY <1>1, <1>4, ModShift, ZenonT(60) DEF r

(* The first of some numbers.                                                *)
LEMMA MinIsFirst ==
  ASSUME NEW S \in SUBSET Nat, S # {}
  PROVE  Min(S) \in S /\ \A i \in S : Min(S) <= i
<1>1. OpToRel(<, Nat) = {p \in Nat \X Nat : p[1] < p[2]}
  BY DEF OpToRel
<1>2. PICK x \in S : \A y \in S : ~(<<y, x>> \in OpToRel(<, Nat))
  BY NatLessThanWellFounded, WFMin
<1>3. ASSUME NEW y \in S PROVE x <= y
  <2>1. <<y, x>> \in Nat \X Nat => ~(y < x)
    BY <1>1, <1>2
  <2>2. QED BY <2>1
<1>4. QED BY <1>3 DEF Min
-----------------------------------------------------------------------------
(* The device.                                                               *)

Observation == [bytes : [Counters -> 0..MaxBytes], overruns : 0..MaxOverruns]

(* The parts of TypeOK that are needed.                                      *)
TrafficOK ==
  /\ bytes \in [Channels -> [Counters -> 0..MaxBytes]]
  /\ overruns \in [Channels -> 0..MaxOverruns]

(* The baseline and the totals of a channel that has observed s.             *)
Exact(c, ch, s) ==
  /\ ch \in Channel /\ s \in Observation
  /\ ch.total = s.bytes /\ ch.previous = LowBits(s.bytes)
  /\ ch.rxCount = Saturated(s.overruns)
  /\ ch.rxPrevious = Saturated(s.overruns)
  /\ s.overruns <= overruns[c]
  /\ \A k \in Counters : /\ s.bytes[k] <= bytes[c][k]
                         /\ bytes[c][k] - s.bytes[k] < RawModulus

CaptureInv ==
  /\ TrafficOK
  /\ channel \in [Channels -> Channel] /\ seen \in [Channels -> Observation]
  /\ \A c \in Channels : Exact(c, channel[c], seen[c])

(* A capture is exact whether the UART sample succeeds or not, and knows the *)
(* counters it accepts as they are.                                          *)
LEMMA CaptureExact ==
  ASSUME TrafficOK, NEW c \in Channels, NEW ch, NEW s, Exact(c, ch, s),
         NEW coherent \in BOOLEAN
  PROVE  /\ Exact(c, Captured(c, ch, coherent), Observed(c, s, coherent))
         /\ Captured(c, ch, coherent).sequence = ch.sequence
         /\ \A k \in Accepted(coherent) :
              Captured(c, ch, coherent).total[k] = bytes[c][k]
<1> DEFINE new == Captured(c, ch, coherent)
           obs == Observed(c, s, coherent)
<1>1. /\ bytes[c] \in [Counters -> 0..MaxBytes]
      /\ overruns[c] \in 0..MaxOverruns
      /\ s.bytes \in [Counters -> 0..MaxBytes]
      /\ s.overruns \in 0..MaxOverruns
      /\ Accepted(coherent) \subseteq Counters
      /\ RawModulus \in Nat \ {0} /\ CounterMax \in Nat
  BY HidAssumption DEF TrafficOK, Exact, Observation, Accepted
<1>2. \A k \in Counters : NewTotal(c, ch, k) = bytes[c][k]
  <2> SUFFICES ASSUME NEW k \in Counters
               PROVE  NewTotal(c, ch, k) = bytes[c][k]
    OBVIOUS
  <2>1. /\ bytes[c][k] \in Nat /\ s.bytes[k] \in Nat
        /\ s.bytes[k] <= bytes[c][k]
        /\ bytes[c][k] - s.bytes[k] < RawModulus
    BY <1>1 DEF Exact
  <2>2. ((bytes[c][k] % RawModulus) - (s.bytes[k] % RawModulus)) % RawModulus
        = bytes[c][k] - s.bytes[k]
    BY <1>1, <2>1, ModDifference
  <2>3. ch.total[k] = s.bytes[k] /\ ch.previous[k] = s.bytes[k] % RawModulus
    BY DEF Exact, LowBits
  <2>4. QED BY <2>1, <2>2, <2>3 DEF NewTotal, Raw
<1>3. RxCount(c, ch) = Saturated(overruns[c])
  BY <1>1 DEF Exact, RxCount, Saturated, Delta
<1>4. obs \in Observation
  BY <1>1 DEF Observed, Observation
<1>5. new.total = obs.bytes
  BY <1>1, <1>2 DEF Exact, Captured, Observed
<1>6. new.previous = LowBits(obs.bytes)
  BY <1>1 DEF Exact, Captured, Observed, LowBits, Raw
<1>7. /\ new.rxCount = Saturated(obs.overruns)
      /\ new.rxPrevious = Saturated(obs.overruns)
  BY <1>3 DEF Exact, Captured, Observed
<1>8. new \in Channel
  <2>1. LowBits(obs.bytes) \in [Counters -> 0..(RawModulus - 1)]
    <3>1. \A k \in Counters : obs.bytes[k] \in Nat
      BY <1>1, <1>4, HidAssumption DEF Observation
    <3>2. \A k \in Counters : obs.bytes[k] % RawModulus \in 0..(RawModulus - 1)
      BY <1>1, <3>1, ModRange
    <3>3. QED BY <3>2 DEF LowBits
  <2>2. Saturated(obs.overruns) \in 0..CounterMax
    BY <1>1, <1>4 DEF Saturated, Observation
  <2>3. obs.bytes \in [Counters -> 0..MaxBytes]
    BY <1>4 DEF Observation
  <2>4. new.sequence \in 0..(SeqModulus - 1)
    BY DEF Captured, Exact, Channel
  <2>5. new = [previous |-> new.previous, total |-> new.total,
               rxPrevious |-> new.rxPrevious, rxCount |-> new.rxCount,
               sequence |-> new.sequence]
    BY DEF Captured
  <2> HIDE DEF new, obs
  <2>6. QED BY <1>5, <1>6, <1>7, <2>1, <2>2, <2>3, <2>4, <2>5 DEF Channel
<1>9. /\ obs.overruns <= overruns[c]
      /\ \A k \in Counters : /\ obs.bytes[k] <= bytes[c][k]
                             /\ bytes[c][k] - obs.bytes[k] < RawModulus
  BY <1>1 DEF Exact, Observed
<1>10. \A k \in Accepted(coherent) : new.total[k] = bytes[c][k]
  BY <1>1, <1>2 DEF Captured
<1>11. new.sequence = ch.sequence
  BY DEF Captured
<1>12. Exact(c, new, obs)
  BY <1>4, <1>5, <1>6, <1>7, <1>8, <1>9 DEF Exact
<1>13. QED BY <1>10, <1>11, <1>12

(* A new sequence number leaves the counters alone.                          *)
LEMMA SequenceExact ==
  ASSUME NEW c, NEW ch, NEW s, Exact(c, ch, s), NEW n \in 0..(SeqModulus - 1)
  PROVE  /\ Exact(c, [ch EXCEPT !.sequence = n], s)
         /\ [ch EXCEPT !.sequence = n].sequence = n
<1>1. ch \in Channel
  BY DEF Exact
<1>2. /\ [ch EXCEPT !.sequence = n] \in Channel
      /\ [ch EXCEPT !.sequence = n].sequence = n
      /\ [ch EXCEPT !.sequence = n].total = ch.total
      /\ [ch EXCEPT !.sequence = n].previous = ch.previous
      /\ [ch EXCEPT !.sequence = n].rxCount = ch.rxCount
      /\ [ch EXCEPT !.sequence = n].rxPrevious = ch.rxPrevious
  BY <1>1 DEF Channel
<1>3. QED BY <1>2 DEF Exact

(* The sequence numbers stay in their range.                                 *)
LEMMA NextSequenceType ==
  ASSUME NEW n \in 0..(SeqModulus - 1)
  PROVE  NextSequence(n) \in 0..(SeqModulus - 1)
<1>1. SeqModulus \in Nat \ {0} /\ n + 1 \in Nat
  BY HidAssumption
<1>2. QED BY <1>1, ModRange DEF NextSequence

(* One poll: whatever is captured is exact, the channel that has its turn    *)
(* knows its counters as they are, and only an accepted report moves a       *)
(* sequence.                                                                 *)
LEMMA CaptureStep ==
  ASSUME CaptureInv, UNCHANGED traffic, NEW coherent,
         NEW attempted, NEW accepted, Capture(coherent, attempted, accepted)
  PROVE  /\ CaptureInv'
         /\ \A c \in Channels :
              channel'[c].sequence = IF c \in accepted
                                     THEN NextSequence(channel[c].sequence)
                                     ELSE channel[c].sequence
         /\ \A c \in Channels : c \in attempted =>
              \A k \in Accepted(c \in coherent) :
                channel'[c].total[k] = bytes[c][k]
<1> DEFINE captured == Captures(attempted)
           new(c) == IF c \in captured
                     THEN Captured(c, channel[c], c \in coherent)
                     ELSE channel[c]
           obs(c) == IF c \in captured
                     THEN Observed(c, seen[c], c \in coherent) ELSE seen[c]
<1>1. /\ channel' = [c \in Channels |->
                       IF c \in accepted
                       THEN [new(c) EXCEPT !.sequence = NextSequence(@)]
                       ELSE new(c)]
      /\ seen' = [c \in Channels |-> obs(c)]
  BY DEF Capture
<1>2. ASSUME NEW c \in Channels
      PROVE  /\ Exact(c, new(c), obs(c))
             /\ new(c).sequence = channel[c].sequence
             /\ c \in captured => \A k \in Accepted(c \in coherent) :
                                    new(c).total[k] = bytes[c][k]
  <2>1. TrafficOK /\ Exact(c, channel[c], seen[c])
    BY DEF CaptureInv
  <2>2. (c \in coherent) \in BOOLEAN
    OBVIOUS
  <2>3. CASE c \in captured
    <3>1. /\ Exact(c, Captured(c, channel[c], c \in coherent),
                      Observed(c, seen[c], c \in coherent))
          /\ Captured(c, channel[c], c \in coherent).sequence
               = channel[c].sequence
          /\ \A k \in Accepted(c \in coherent) :
               Captured(c, channel[c], c \in coherent).total[k] = bytes[c][k]
      BY <2>1, <2>2, CaptureExact
    <3>2. QED BY <2>3, <3>1
  <2>4. CASE c \notin captured
    BY <2>1, <2>4
  <2>5. QED BY <2>3, <2>4
<1> HIDE DEF new, obs
<1>3. ASSUME NEW c \in Channels
      PROVE  /\ Exact(c, channel'[c], seen'[c])
             /\ channel'[c].total = new(c).total
             /\ channel'[c].sequence = IF c \in accepted
                                       THEN NextSequence(channel[c].sequence)
                                       ELSE channel[c].sequence
  <2>1. new(c).sequence \in 0..(SeqModulus - 1) /\ new(c) \in Channel
    BY <1>2 DEF Exact, Channel
  <2>2. CASE c \in accepted
    <3>1. channel'[c] = [new(c) EXCEPT !.sequence =
                                         NextSequence(new(c).sequence)]
      BY <1>1, <2>2
    <3>2. NextSequence(new(c).sequence) \in 0..(SeqModulus - 1)
      BY <2>1, NextSequenceType
    <3>3. channel'[c].total = new(c).total
      BY <2>1, <3>1 DEF Channel
    <3>4. /\ Exact(c, channel'[c], obs(c))
          /\ channel'[c].sequence = NextSequence(new(c).sequence)
      <4>1. Exact(c, new(c), obs(c))
        BY <1>2
      <4>2. QED BY <3>1, <3>2, <4>1, SequenceExact
    <3>5. QED BY <1>1, <1>2, <2>2, <3>3, <3>4
  <2>3. CASE c \notin accepted
    BY <1>1, <1>2, <2>3
  <2>4. QED BY <2>2, <2>3
<1>4. CaptureInv'
  <2>1. TrafficOK'
    BY DEF CaptureInv, TrafficOK, traffic
  <2>2. /\ channel' \in [Channels -> Channel]
        /\ seen' \in [Channels -> Observation]
    BY <1>1, <1>3 DEF Exact
  <2>3. \A c \in Channels : Exact(c, channel[c], seen[c])'
    BY <1>3 DEF Exact, traffic
  <2>4. QED BY <2>1, <2>2, <2>3 DEF CaptureInv
<1>5. \A c \in Channels : c \in attempted =>
        \A k \in Accepted(c \in coherent) :
          channel'[c].total[k] = bytes[c][k]
  BY <1>2, <1>3 DEF Captures
<1>6. QED BY <1>3, <1>4, <1>5

(* A control read captures one channel and moves no sequence.                *)
LEMMA GetReportStep ==
  ASSUME CaptureInv, NEW c \in Channels, GetReport(c)
  PROVE  /\ CaptureInv'
         /\ \A d \in Channels : channel'[d].sequence = channel[d].sequence
<1>1. PICK coherent \in BOOLEAN :
        /\ channel' = [channel EXCEPT ![c] = Captured(c, @, coherent)]
        /\ seen' = [seen EXCEPT ![c] = Observed(c, @, coherent)]
  BY DEF GetReport
<1>2. UNCHANGED <<bytes, overruns>>
  BY DEF GetReport, traffic
<1>3. /\ Exact(c, Captured(c, channel[c], coherent),
                  Observed(c, seen[c], coherent))
      /\ Captured(c, channel[c], coherent).sequence = channel[c].sequence
  BY CaptureExact DEF CaptureInv
<1>4. \A d \in Channels : /\ Exact(d, channel'[d], seen'[d])
                          /\ channel'[d].sequence = channel[d].sequence
  BY <1>1, <1>3 DEF CaptureInv
<1>5. /\ channel' \in [Channels -> Channel]
      /\ seen' \in [Channels -> Observation]
  BY <1>1, <1>3 DEF CaptureInv, Exact
<1>6. \A d \in Channels : Exact(d, channel[d], seen[d])'
  BY <1>2, <1>4 DEF Exact
<1>7. QED BY <1>2, <1>4, <1>5, <1>6 DEF CaptureInv, TrafficOK

(* The counter k of report r is as of the end of its interval.               *)
Current(r, k) == k = "uart" => r.current

(* A report that waits is about the last interval of its channel.            *)
WireInv ==
  /\ published \in [Channels -> [Counters -> 0..MaxBytes]]
  /\ report \subseteq Reports
  /\ ready => report = {}
  /\ \A r, s \in report : r = s
  /\ \A c \in Channels, k \in Counters : published[c][k] <= bytes[c][k]
  /\ \A r \in report :
       /\ r.sequence = channel[r.channel].sequence
       /\ \A k \in Counters :
            /\ r.moved[k] <= published[r.channel][k]
            /\ r.timed => r.moved[k] < RawModulus
            /\ Current(r, k) =>
                 r.total[k] = published[r.channel][k] % RawModulus

DeviceInv == CaptureInv /\ WireInv

SameSequences == \A c \in Channels : channel'[c].sequence = channel[c].sequence

(* Nothing is published.                                                     *)
Quiet == UNCHANGED <<report, published>> /\ SameSequences

(* Report r of channel c takes the place of none.                            *)
Published(c, r) ==
  /\ report = {} /\ report' = {r} /\ r.channel = c
  /\ \A d \in Channels :
       channel'[d].sequence = IF d = c THEN NextSequence(channel[d].sequence)
                              ELSE channel[d].sequence
  /\ \A d \in Channels \ {c} : published'[d] = published[d]
  /\ \A k \in Counters : published'[c][k] - r.moved[k] = published[c][k]

(* While nothing is published, the wire stays what it was.                   *)
LEMMA QuietStep ==
  ASSUME DeviceInv, CaptureInv', Quiet, ready' => ready,
         \A c \in Channels, k \in Counters : bytes[c][k] <= bytes'[c][k]
  PROVE  WireInv'
<1>1. \A r \in report : r.channel \in Channels
  BY DEF DeviceInv, WireInv, Reports
<1>2. \A r \in report : channel'[r.channel].sequence
                        = channel[r.channel].sequence
  BY <1>1 DEF Quiet, SameSequences
<1>3. \A c \in Channels, k \in Counters : published'[c][k] <= bytes'[c][k]
  <2> SUFFICES ASSUME NEW c \in Channels, NEW k \in Counters
               PROVE  published'[c][k] <= bytes'[c][k]
    OBVIOUS
  <2>1. bytes[c][k] \in Int /\ bytes'[c][k] \in Int /\ published[c][k] \in Int
    BY HidAssumption DEF DeviceInv, CaptureInv, TrafficOK, WireInv
  <2>2. /\ published[c][k] <= bytes[c][k] /\ bytes[c][k] <= bytes'[c][k]
        /\ published'[c][k] = published[c][k]
    BY DEF DeviceInv, WireInv, Quiet
  <2>3. QED BY <2>1, <2>2
<1>4. QED BY <1>2, <1>3 DEF DeviceInv, WireInv, Quiet, Current

(* A report is made of what its capture found.                               *)
LEMMA PublishStep ==
  ASSUME DeviceInv, NEW c \in Channels, NEW coherent, NEW timed \in BOOLEAN,
         Publish(c, coherent, timed)
  PROVE  DeviceInv' /\ \E r \in report' : Published(c, r)
<1> DEFINE r == [channel |-> c, sequence |-> channel'[c].sequence,
                 current |-> c \in coherent, timed |-> timed,
                 total |-> LowBits(channel'[c].total), moved |-> Moved(c)]
<1>1. /\ ready /\ UNCHANGED traffic /\ Capture(coherent, {c}, {c})
      /\ report' = {r} /\ ready' = FALSE
      /\ published' = [published EXCEPT ![c] = bytes[c]]
      /\ timed => \A k \in Counters : Moved(c)[k] < RawModulus
  BY DEF Publish, Attempt
<1>2. UNCHANGED <<bytes, overruns>>
  BY <1>1 DEF traffic
<1>3. /\ CaptureInv'
      /\ \A d \in Channels :
           channel'[d].sequence = IF d = c THEN NextSequence(channel[d].sequence)
                                  ELSE channel[d].sequence
      /\ \A k \in Accepted(c \in coherent) : channel'[c].total[k] = bytes[c][k]
  BY <1>1, CaptureStep DEF DeviceInv
<1>4. /\ bytes[c] \in [Counters -> 0..MaxBytes]
      /\ published[c] \in [Counters -> 0..MaxBytes]
      /\ channel'[c] \in Channel
      /\ MaxBytes \in Nat /\ RawModulus \in Nat \ {0}
  BY <1>3, HidAssumption DEF DeviceInv, WireInv, CaptureInv, TrafficOK
<1>5. published'[c] = bytes[c] /\ \A d \in Channels \ {c} :
                                     published'[d] = published[d]
  BY <1>1 DEF DeviceInv, WireInv
<1>6. \A k \in Counters : /\ r.moved[k] = bytes[c][k] - published[c][k]
                          /\ r.moved[k] \in 0..MaxBytes
                          /\ r.moved[k] <= bytes[c][k]
                          /\ bytes[c][k] - r.moved[k] = published[c][k]
  <2> SUFFICES ASSUME NEW k \in Counters
               PROVE  /\ r.moved[k] = bytes[c][k] - published[c][k]
                      /\ r.moved[k] \in 0..MaxBytes
                      /\ r.moved[k] <= bytes[c][k]
                      /\ bytes[c][k] - r.moved[k] = published[c][k]
    OBVIOUS
  <2>1. r.moved[k] = bytes[c][k] - published[c][k]
    BY DEF Moved
  <2>2. published[c][k] <= bytes[c][k]
    BY DEF DeviceInv, WireInv
  <2>3. bytes[c][k] \in 0..MaxBytes /\ published[c][k] \in 0..MaxBytes
    BY <1>4
  <2> HIDE DEF r
  <2>4. QED BY <1>4, <2>1, <2>2, <2>3
<1>7. \A k \in Counters : Current(r, k) =>
                          r.total[k] = bytes[c][k] % RawModulus
  <2> SUFFICES ASSUME NEW k \in Counters, Current(r, k)
               PROVE  r.total[k] = bytes[c][k] % RawModulus
    OBVIOUS
  <2>1. k \in Accepted(c \in coherent)
    BY DEF Current, Accepted
  <2>2. QED BY <1>3, <2>1 DEF LowBits
<1>8. r \in Reports
  <2>1. channel'[c].sequence \in 0..(SeqModulus - 1)
    BY <1>4 DEF Channel
  <2>2. LowBits(channel'[c].total) \in [Counters -> 0..(RawModulus - 1)]
    <3>1. \A k \in Counters : channel'[c].total[k] \in Nat
      BY <1>4 DEF Channel
    <3>2. \A k \in Counters :
            channel'[c].total[k] % RawModulus \in 0..(RawModulus - 1)
      BY <1>4, <3>1, ModRange
    <3>3. QED BY <3>2 DEF LowBits
  <2>3. Moved(c) \in [Counters -> 0..MaxBytes]
    BY <1>6 DEF Moved
  <2>4. QED BY <2>1, <2>2, <2>3 DEF Reports
<1>9. /\ r.channel = c /\ r.sequence = channel'[c].sequence
      /\ r.timed => \A k \in Counters : r.moved[k] < RawModulus
  BY <1>1
<1> HIDE DEF r
<1>10. WireInv'
  <2>1. published' \in [Channels -> [Counters -> 0..MaxBytes]]
    BY <1>1, <1>4 DEF DeviceInv, WireInv
  <2>2. \A d \in Channels, k \in Counters : published'[d][k] <= bytes'[d][k]
    <3>1. \A k \in Counters : bytes[c][k] <= bytes[c][k]
      BY <1>4
    <3>2. QED BY <1>2, <1>5, <3>1 DEF DeviceInv, WireInv
  <2>3. \A k \in Counters : /\ r.moved[k] <= published'[c][k]
                            /\ r.timed => r.moved[k] < RawModulus
                            /\ Current(r, k) =>
                                 r.total[k] = published'[c][k] % RawModulus
    BY <1>5, <1>6, <1>7, <1>9
  <2>4. QED BY <1>1, <1>8, <1>9, <2>1, <2>2, <2>3 DEF WireInv, Current
<1>11. Published(c, r)
  <2>1. report = {}
    BY <1>1 DEF DeviceInv, WireInv
  <2>2. QED BY <1>1, <1>3, <1>5, <1>6, <1>9, <2>1 DEF Published
<1>12. QED BY <1>1, <1>3, <1>10, <1>11 DEF DeviceInv

(* What the bridge, the worker and the polls of the device do.               *)
LEMMA DeviceStep ==
  ASSUME DeviceInv, Device
  PROVE  /\ DeviceInv'
         /\ Quiet \/ \E c \in Channels, r \in report' : Published(c, r)
<1>1. ASSUME NEW c \in Channels, NEW k \in Counters, Transfer(c, k)
      PROVE  DeviceInv' /\ Quiet
  <2>1. /\ bytes' = [bytes EXCEPT ![c][k] = @ + 1] /\ bytes[c][k] < MaxBytes
        /\ bytes[c][k] - seen[c].bytes[k] < RawModulus - 1
        /\ UNCHANGED <<overruns, channel, seen, ready, report, published>>
    BY <1>1 DEF Transfer, wire
  <2>2. TrafficOK' /\ \A d \in Channels, j \in Counters :
                        /\ bytes[d][j] <= bytes'[d][j]
                        /\ d # c \/ j # k => bytes'[d][j] = bytes[d][j]
                        /\ bytes'[c][k] = bytes[c][k] + 1
    BY <2>1, HidAssumption DEF DeviceInv, CaptureInv, TrafficOK
  <2>3. ASSUME NEW d \in Channels, NEW j \in Counters
        PROVE  /\ seen[d].bytes[j] <= bytes'[d][j]
               /\ bytes'[d][j] - seen[d].bytes[j] < RawModulus
    <3>1. /\ seen[d].bytes[j] \in Int /\ bytes[d][j] \in Int
          /\ RawModulus \in Int
          /\ seen[d].bytes[j] <= bytes[d][j]
          /\ bytes[d][j] - seen[d].bytes[j] < RawModulus
      BY HidAssumption
      DEF DeviceInv, CaptureInv, TrafficOK, Exact, Observation
    <3>2. QED BY <2>1, <2>2, <3>1
  <2>4. \A d \in Channels : Exact(d, channel[d], seen[d])'
    BY <2>1, <2>3 DEF DeviceInv, CaptureInv, Exact
  <2>5. CaptureInv'
    BY <2>1, <2>2, <2>4 DEF DeviceInv, CaptureInv
  <2>6. Quiet
    BY <2>1 DEF Quiet, SameSequences
  <2>7. QED BY <2>1, <2>2, <2>5, <2>6, QuietStep DEF DeviceInv
<1>2. ASSUME NEW c \in Channels, Overrun(c)
      PROVE  DeviceInv' /\ Quiet
  <2>1. /\ overruns' = [overruns EXCEPT ![c] = @ + 1]
        /\ overruns[c] < MaxOverruns
        /\ UNCHANGED <<bytes, channel, seen, ready, report, published>>
    BY <1>2 DEF Overrun, wire
  <2>2. TrafficOK' /\ \A d \in Channels : overruns[d] <= overruns'[d]
    BY <2>1, HidAssumption DEF DeviceInv, CaptureInv, TrafficOK
  <2>3. ASSUME NEW d \in Channels
        PROVE  seen[d].overruns <= overruns'[d]
    <3>1. /\ seen[d].overruns \in Int /\ seen[d].overruns <= overruns[d]
          /\ overruns[d] \in Int /\ overruns'[d] \in Int
      BY <2>2, HidAssumption
      DEF DeviceInv, CaptureInv, TrafficOK, Exact, Observation
    <3>2. QED BY <2>2, <3>1
  <2>4. \A d \in Channels : Exact(d, channel[d], seen[d])'
    BY <2>1, <2>3 DEF DeviceInv, CaptureInv, Exact
  <2>5. CaptureInv'
    BY <2>1, <2>2, <2>4 DEF DeviceInv, CaptureInv
  <2>6. \A d \in Channels, j \in Counters : bytes[d][j] <= bytes'[d][j]
    BY <2>1, HidAssumption DEF DeviceInv, CaptureInv, TrafficOK
  <2>7. Quiet
    BY <2>1 DEF Quiet, SameSequences
  <2>8. QED BY <2>1, <2>5, <2>6, <2>7, QuietStep DEF DeviceInv
<1>3. ASSUME UNCHANGED <<traffic, wire>>, CaptureInv', SameSequences
      PROVE  DeviceInv' /\ Quiet
  <2>1. UNCHANGED <<bytes, ready, report, published>>
    BY <1>3 DEF traffic, wire
  <2>2. Quiet
    BY <1>3, <2>1 DEF Quiet
  <2>3. \A d \in Channels, j \in Counters : bytes[d][j] <= bytes'[d][j]
    BY <2>1, HidAssumption DEF DeviceInv, CaptureInv, TrafficOK
  <2>4. QED BY <1>3, <2>1, <2>2, <2>3, QuietStep DEF DeviceInv
<1>4. ASSUME NEW c \in Channels, GetReport(c)
      PROVE  DeviceInv' /\ Quiet
  <2>1. CaptureInv' /\ SameSequences
    BY <1>4, GetReportStep DEF DeviceInv, SameSequences
  <2>2. UNCHANGED <<traffic, wire>>
    BY <1>4 DEF GetReport
  <2>3. QED BY <1>3, <2>1, <2>2
<1>5. CASE Tick
  <2>1. UNCHANGED <<traffic, wire, channel, seen>>
    BY <1>5 DEF Tick
  <2>2. SameSequences
    BY <2>1 DEF SameSequences
  <2>3. CaptureInv'
    BY <2>1 DEF DeviceInv, CaptureInv, TrafficOK, Exact, traffic
  <2>4. QED BY <1>3, <2>1, <2>2, <2>3
<1>6. ASSUME NEW coherent, NEW attempted, Capture(coherent, attempted, {}),
             UNCHANGED <<traffic, wire>>
      PROVE  DeviceInv' /\ Quiet
  <2>1. CaptureInv' /\ SameSequences
    BY <1>6, CaptureStep DEF DeviceInv, SameSequences
  <2>2. QED BY <1>3, <1>6, <2>1
<1>7. CASE PollOnly
  BY <1>6, <1>7 DEF PollOnly
<1>8. ASSUME NEW c \in Channels, NEW coherent, Reject(c, coherent)
      PROVE  DeviceInv' /\ Quiet
  BY <1>6, <1>8 DEF Reject, Attempt
<1>9. QED BY <1>1, <1>2, <1>4, <1>5, <1>7, <1>8, PublishStep DEF Device, Poll

(* The host takes the report.                                                *)
LEMMA HostReadsStep ==
  ASSUME DeviceInv, HostReads
  PROVE  /\ DeviceInv' /\ report' = {} /\ SameSequences
         /\ UNCHANGED published
<1>1. /\ report' = {} /\ UNCHANGED <<bytes, overruns, channel, seen, published>>
  BY DEF HostReads, traffic
<1>2. CaptureInv'
  BY <1>1 DEF DeviceInv, CaptureInv, TrafficOK, Exact
<1>3. WireInv'
  BY <1>1 DEF DeviceInv, WireInv
<1>4. QED BY <1>1, <1>2, <1>3 DEF DeviceInv, SameSequences

(* A bus reset.                                                              *)
LEMMA ResetHostStep ==
  ASSUME DeviceInv, ResetHost
  PROVE  DeviceInv' /\ report' = {}
<1>1. /\ report' = {} /\ published' = bytes
      /\ channel' = [c \in Channels |-> [channel[c] EXCEPT !.sequence = 0]]
      /\ UNCHANGED <<bytes, overruns, seen>>
  BY DEF ResetHost, ResetChannel, traffic
<1>2. 0 \in 0..(SeqModulus - 1)
  BY HidAssumption
<1>3. \A c \in Channels : Exact(c, channel'[c], seen[c])
  BY <1>1, <1>2, SequenceExact DEF DeviceInv, CaptureInv
<1>4. channel' \in [Channels -> Channel]
  BY <1>1, <1>3 DEF Exact
<1>5. CaptureInv'
  BY <1>1, <1>3, <1>4 DEF DeviceInv, CaptureInv, TrafficOK, Exact
<1>6. WireInv'
  <2>1. \A c \in Channels, k \in Counters : bytes[c][k] <= bytes[c][k]
    BY HidAssumption DEF DeviceInv, CaptureInv, TrafficOK
  <2>2. QED BY <1>1, <2>1 DEF DeviceInv, CaptureInv, TrafficOK, WireInv
<1>7. QED BY <1>1, <1>5, <1>6 DEF DeviceInv

(* The device after boot.                                                    *)
LEMMA DeviceInit == Init => DeviceInv
<1> SUFFICES ASSUME Init PROVE DeviceInv
  OBVIOUS
<1>1. /\ 0 \in 0..MaxBytes /\ 0 \in 0..MaxOverruns /\ 0 \in 0..CounterMax
      /\ 0 \in 0..(RawModulus - 1) /\ 0 \in 0..(SeqModulus - 1)
      /\ RawModulus \in Nat \ {0} /\ 0 < CounterMax
  BY HidAssumption
<1>2. NoBytes \in [Counters -> 0..MaxBytes]
  BY <1>1 DEF NoBytes
<1>3. TrafficOK
  BY <1>1, <1>2 DEF Init, TrafficOK
<1>4. LowBits(NoBytes) = NoBytes
  BY <1>1, ModWhole DEF LowBits, NoBytes
<1>5. ASSUME NEW c \in Channels
      PROVE  Exact(c, channel[c], seen[c])
  <2>1. channel[c] \in Channel /\ seen[c] \in Observation
    BY <1>1, <1>2 DEF Init, Channel, Observation, NoBytes
  <2>2. /\ channel[c].total = NoBytes /\ channel[c].previous = NoBytes
        /\ channel[c].rxCount = 0 /\ channel[c].rxPrevious = 0
        /\ seen[c].bytes = NoBytes /\ seen[c].overruns = 0
        /\ bytes[c] = NoBytes /\ overruns[c] = 0
    BY DEF Init
  <2>3. Saturated(0) = 0
    BY <1>1 DEF Saturated
  <2>4. \A k \in Counters : NoBytes[k] <= NoBytes[k]
                           /\ NoBytes[k] - NoBytes[k] < RawModulus
    BY <1>1 DEF NoBytes
  <2>5. QED BY <1>4, <2>1, <2>2, <2>3, <2>4 DEF Exact
<1>6. CaptureInv
  BY <1>3, <1>5 DEF Init, CaptureInv, Exact
<1>7. WireInv
  BY <1>1, <1>2 DEF Init, WireInv, NoBytes
<1>8. QED BY <1>6, <1>7 DEF DeviceInv

LEMMA DeviceNext ==
  ASSUME DeviceInv, [Next]_vars
  PROVE  DeviceInv'
<1>1. CASE UNCHANGED vars
  BY <1>1 DEF vars, traffic, wire, DeviceInv, CaptureInv, TrafficOK, Exact,
     WireInv, Current
<1>2. QED BY <1>1, DeviceStep, HostReadsStep, ResetHostStep DEF Next

(* No byte and no overrun is lost or counted twice by any order of captures, *)
(* failed samples, rejected reports, control reads and bus resets            *)
(* (usb_hid_capture).                                                        *)
THEOREM DeviceTotalsExact == Spec => []TotalsExact
<1>1. DeviceInv => TotalsExact
  BY DEF DeviceInv, CaptureInv, Exact, TotalsExact
<1>2. QED BY <1>1, DeviceInit, DeviceNext, PTL DEF Spec
-----------------------------------------------------------------------------
(* The schedule of the device.                                               *)

(* How long ago the deadline of the fault sample was set.                    *)
Since == (clock - (nextSample - FaultInterval)) % ClockModulus

(* The deadline is where the last sample left it, or where the boot did.     *)
SampleInv ==
  /\ clock \in Int /\ nextSample \in Int
  /\ pollAge \in 0..PollGap /\ sampleAge \in Nat
  /\ sampleAge - pollAge < FaultInterval
  /\ \/ Since = sampleAge
     \/ sampleAge = pollAge /\ Since = sampleAge + FaultInterval

(* How many channels are asked before c.                                     *)
Distance(c) == (c - nextChannel) % N

(* Who had a turn while d was due is behind d.                               *)
TurnInv ==
  /\ nextChannel \in Channels
  /\ age \in [Channels -> 0..Interval]
  /\ passed \in [Channels -> [Channels -> 0..2]]
  /\ \A d, c \in Channels : passed[d][c] # 0 =>
       passed[d][c] = 1 /\ Due(d) /\ Distance(d) < Distance(c)

LEMMA SampleConstants ==
  /\ FaultInterval \in Nat \ {0} /\ PollGap \in Nat \ {0}
  /\ ClockModulus \in Nat \ {0} /\ 2 * (FaultInterval + PollGap) < ClockModulus
BY HidAssumption

(* The signed comparison sees the deadline as it is.                         *)
LEMMA DueWhenOld ==
  ASSUME SampleInv
  PROVE  SampleDue <=> FaultInterval <= Since
<1> DEFINE left == (clock - nextSample) % ClockModulus
           half == ClockModulus \div 2
<1>1. /\ clock \in Int /\ nextSample \in Int /\ clock - nextSample \in Int
      /\ nextSample - FaultInterval \in Int
      /\ clock - (nextSample - FaultInterval) \in Int
      /\ Since \in Nat /\ Since <= FaultInterval + PollGap
  BY SampleConstants DEF SampleInv
<1>2. /\ half \in Nat /\ 2 * half <= ClockModulus /\ ClockModulus < 2 * half + 2
  BY SampleConstants
<1>3. left \in 0..(ClockModulus - 1)
  BY <1>1, SampleConstants, ModRangeInt
<1>4. /\ (clock + FaultInterval) - nextSample
           = clock - (nextSample - FaultInterval)
      /\ (clock + (-FaultInterval)) - (nextSample - FaultInterval)
           = clock - nextSample
      /\ FaultInterval \in Int /\ -FaultInterval \in Int
      /\ ClockModulus \in Nat \ {0}
  BY <1>1, SampleConstants
<1> HIDE DEF left, half
<1>5. ASSUME left < half PROVE FaultInterval <= Since
  <2>1. left + FaultInterval \in 0..(ClockModulus - 1)
    BY <1>2, <1>3, <1>5, SampleConstants
  <2>2. ((clock + FaultInterval) - nextSample) % ClockModulus
          = left + FaultInterval
    <3>1. \A d \in Int :
            ((clock - nextSample) % ClockModulus) + d \in 0..(ClockModulus - 1) =>
              ((clock + d) - nextSample) % ClockModulus
                = ((clock - nextSample) % ClockModulus) + d
      BY <1>1, <1>4, ModShift
    <3>2. QED BY <1>4, <2>1, <3>1, Zenon DEF left
  <2>3. Since = left + FaultInterval
    BY <1>4, <2>2 DEF Since
  <2>4. QED BY <1>3, <2>3, SampleConstants
<1>6. ASSUME FaultInterval <= Since PROVE left < half
  <2>1. Since + (-FaultInterval) \in 0..(ClockModulus - 1)
    BY <1>1, <1>6, SampleConstants
  <2>2. ((clock + (-FaultInterval)) - (nextSample - FaultInterval)) % ClockModulus
          = Since + (-FaultInterval)
    <3>1. \A d \in Int : Since + d \in 0..(ClockModulus - 1) =>
            ((clock + d) - (nextSample - FaultInterval)) % ClockModulus = Since + d
      BY <1>1, <1>4, ModShift DEF Since
    <3>2. QED BY <1>4, <2>1, <3>1, Zenon
  <2>3. left = Since + (-FaultInterval)
    BY <1>4, <2>2 DEF left
  <2>4. QED BY <1>1, <1>2, <2>3, SampleConstants
<1>7. QED BY <1>5, <1>6 DEF SampleDue, left, half

(* A poll samples unless the last sample is young.                           *)
LEMMA SamplePollStep ==
  ASSUME SampleInv, NEW coherent, NEW attempted, NEW accepted,
         Capture(coherent, attempted, accepted), pollAge' = 0, UNCHANGED clock
  PROVE  SampleInv'
<1>1. clock' \in Int /\ pollAge' \in 0..PollGap
  BY SampleConstants DEF SampleInv
<1>2. CASE SampleDue
  <2>1. nextSample' = (clock + FaultInterval) % ClockModulus /\ sampleAge' = 0
    BY <1>2 DEF Capture
  <2>2. clock + FaultInterval \in Int
    BY SampleConstants DEF SampleInv
  <2> DEFINE s == (clock + FaultInterval) % ClockModulus
  <2>3. PICK q \in Int : clock + FaultInterval = (q * ClockModulus) + s
    BY <2>2, SampleConstants, ModTurnsInt
  <2>4. s \in 0..(ClockModulus - 1)
    BY <2>2, SampleConstants, ModRangeInt
  <2>5. s \in Int /\ 0 \in 0..(ClockModulus - 1)
    BY <2>4, SampleConstants
  <2> HIDE DEF s
  <2>6. clock - (s - FaultInterval) = (q * ClockModulus) + 0
    BY <2>3, <2>5, SampleConstants DEF SampleInv
  <2>7. (clock - (s - FaultInterval)) % ClockModulus = 0
    BY <2>5, <2>6, SampleConstants, ModWhole
  <2>8. nextSample' = s /\ nextSample' \in Int
    BY <2>1, <2>5 DEF s
  <2>9. Since' = sampleAge'
    BY <2>1, <2>7, <2>8 DEF Since
  <2>10. 0 \in Nat /\ 0 - 0 < FaultInterval
    BY SampleConstants
  <2>11. QED BY <1>1, <2>1, <2>8, <2>9, <2>10 DEF SampleInv
<1>3. CASE ~SampleDue
  <2>1. UNCHANGED <<nextSample, sampleAge>>
    BY <1>3 DEF Capture
  <2>2. Since' = Since
    BY <2>1 DEF Since
  <2>3. /\ sampleAge \in Nat /\ (Since = sampleAge \/ Since = sampleAge + FaultInterval)
        /\ ~(FaultInterval <= Since)
    BY <1>3, DueWhenOld DEF SampleInv
  <2>4. Since = sampleAge /\ sampleAge - 0 < FaultInterval
    BY <2>3, SampleConstants
  <2>5. QED BY <1>1, <2>1, <2>2, <2>4 DEF SampleInv
<1>4. QED BY <1>2, <1>3

(* A millisecond passes.                                                     *)
LEMMA SampleTickStep ==
  ASSUME SampleInv, Tick
  PROVE  SampleInv'
<1>1. /\ pollAge < PollGap /\ pollAge' = pollAge + 1
      /\ clock' = (clock + 1) % ClockModulus /\ nextSample' = nextSample
      /\ sampleAge' = Older(sampleAge, FaultInterval + PollGap)
  BY DEF Tick
<1>2. /\ clock \in Int /\ nextSample \in Int /\ nextSample - FaultInterval \in Int
      /\ pollAge \in 0..PollGap /\ sampleAge \in Nat
      /\ sampleAge - pollAge < FaultInterval
      /\ \/ Since = sampleAge
         \/ sampleAge = pollAge /\ Since = sampleAge + FaultInterval
      /\ clock + 1 \in Int /\ 1 \in Int
  BY SampleConstants DEF SampleInv
<1>3. pollAge < PollGap
  BY <1>1
<1>4. Older(sampleAge, FaultInterval + PollGap) = sampleAge + 1
  BY <1>2, <1>3, SampleConstants DEF Older
<1>5. Since + 1 \in 0..(ClockModulus - 1)
  BY <1>2, <1>3, SampleConstants
<1>6. (((clock + 1) % ClockModulus) - (nextSample - FaultInterval)) % ClockModulus
        = Since + 1
  <2>1. Since + 1 < ClockModulus /\ 1 \in Nat /\ ClockModulus \in Nat \ {0}
    BY <1>5, SampleConstants
  <2>2. QED BY <1>2, <2>1, ModEnd DEF Since
<1>7. Since' = Since + 1
  BY <1>1, <1>6 DEF Since
<1>8. clock' \in Int
  <2>1. (clock + 1) % ClockModulus \in 0..(ClockModulus - 1)
    BY <1>2, SampleConstants, ModRangeInt
  <2>2. \A n \in 0..(ClockModulus - 1) : n \in Int
    BY SampleConstants
  <2>3. QED BY <1>1, <2>1, <2>2
<1>9. /\ pollAge + 1 \in 0..PollGap /\ sampleAge + 1 \in Nat
      /\ (sampleAge + 1) - (pollAge + 1) < FaultInterval
      /\ \/ Since + 1 = sampleAge + 1
         \/ sampleAge + 1 = pollAge + 1 /\ Since + 1 = (sampleAge + 1) + FaultInterval
  BY <1>2, <1>3, SampleConstants
<1>10. QED BY <1>1, <1>2, <1>4, <1>7, <1>8, <1>9, Zenon DEF SampleInv

-----------------------------------------------------------------------------
(* Turns.                                                                    *)

(* A distance leads where it came from.                                      *)
LEMMA DistanceBack ==
  ASSUME TurnInv, NEW c \in Channels
  PROVE  /\ Distance(c) \in 0..(N - 1)
         /\ (nextChannel + Distance(c)) % N = c
<1> DEFINE r == Distance(c)
<1>1. /\ N \in Nat \ {0} /\ nextChannel \in Int /\ c \in Int
      /\ c \in 0..(N - 1) /\ c - nextChannel \in Int
  BY HidAssumption DEF TurnInv, Channels
<1>2. r \in 0..(N - 1)
  BY <1>1, ModRangeInt DEF Distance
<1>3. PICK p \in Int : c - nextChannel = (p * N) + r
  BY <1>1, ModTurnsInt DEF Distance
<1> HIDE DEF r
<1>4. nextChannel + r = ((-p) * N) + c /\ -p \in Int
  BY <1>1, <1>2, <1>3
<1>5. (nextChannel + r) % N = c
  BY <1>1, <1>4, ModWhole
<1>6. QED BY <1>2, <1>5 DEF r

(* And every offset leads to a channel at that distance.                     *)
LEMMA DistanceThere ==
  ASSUME TurnInv, NEW i \in 0..(N - 1)
  PROVE  /\ (nextChannel + i) % N \in Channels
         /\ Distance((nextChannel + i) % N) = i
<1>1. /\ N \in Nat \ {0} /\ nextChannel \in Int /\ i \in Int
      /\ nextChannel + i \in Int /\ 0 \in 0..(N - 1)
      /\ nextChannel - nextChannel = 0 /\ 0 + i = i
  BY HidAssumption DEF TurnInv, Channels
<1>2. (nextChannel + i) % N \in Channels
  BY <1>1, ModRangeInt DEF Channels
<1>3. (nextChannel - nextChannel) % N = 0
  <2>1. ((0 * N) + 0) % N = 0
    BY <1>1, ModWhole
  <2>2. (0 * N) + 0 = 0
    BY <1>1
  <2>3. QED BY <1>1, <2>1, <2>2
<1>4. (((nextChannel + i) % N) - nextChannel) % N
        = ((nextChannel - nextChannel) % N) + i
  <2>1. ((nextChannel - nextChannel) % N) + i < N /\ i \in Nat
    BY <1>1, <1>3
  <2>2. QED BY <1>1, <2>1, ModEnd, ZenonT(60)
<1>5. QED BY <1>1, <1>2, <1>3, <1>4, Zenon DEF Distance

(* The turn goes to the nearest channel that is due.                         *)
LEMMA TurnIsNearest ==
  ASSUME TurnInv, \E d \in Channels : Due(d)
  PROVE  /\ Turn \in Channels /\ Due(Turn)
         /\ \A d \in Channels : Due(d) => Distance(Turn) <= Distance(d)
<1> DEFINE S == {i \in 0..(N - 1) : Due((nextChannel + i) % N)}
<1>1. S \subseteq Nat
  OBVIOUS
<1>2. \A d \in Channels : Due(d) => Distance(d) \in S
  BY DistanceBack, Zenon
<1>3. S # {}
  BY <1>2
<1> HIDE DEF S
<1>4. Min(S) \in S /\ \A i \in S : Min(S) <= i
  BY <1>1, <1>3, MinIsFirst
<1>5. Min(S) \in 0..(N - 1) /\ Due((nextChannel + Min(S)) % N)
  BY <1>4 DEF S
<1>6. Turn = (nextChannel + Min(S)) % N
  BY DEF Turn, S
<1>7. Turn \in Channels /\ Distance(Turn) = Min(S)
  BY <1>5, <1>6, DistanceThere
<1>8. QED BY <1>2, <1>4, <1>5, <1>6, <1>7, Zenon

(* When c had its turn it is last, and who was behind it is closer by as     *)
(* much.                                                                     *)
LEMMA DistanceAfter ==
  ASSUME TurnInv, NEW c \in Channels, nextChannel' = (c + 1) % N
  PROVE  /\ nextChannel' \in Channels /\ Distance(c)' = N - 1
         /\ \A d \in Channels : Distance(c) < Distance(d) =>
              Distance(d)' = (Distance(d) - Distance(c)) - 1
<1> DEFINE s == (c + 1) % N
<1>1. N \in Nat \ {0} /\ nextChannel \in Int /\ c \in Int /\ c + 1 \in Int
  BY HidAssumption DEF TurnInv, Channels
<1>2. PICK u \in Int : c + 1 = (u * N) + s
  BY <1>1, ModTurnsInt
<1>3. s \in 0..(N - 1)
  BY <1>1, ModRangeInt
<1>4. nextChannel' = s
  OBVIOUS
<1> HIDE DEF s
<1>5. (c - s) % N = N - 1
  <2>1. c - s = ((u - 1) * N) + (N - 1)
    BY <1>1, <1>2, <1>3
  <2>2. u - 1 \in Int /\ N - 1 \in 0..(N - 1)
    BY <1>1
  <2>3. QED BY <1>1, <2>1, <2>2, ModWhole
<1>6. ASSUME NEW d \in Channels, Distance(c) < Distance(d)
      PROVE  (d - s) % N = (Distance(d) - Distance(c)) - 1
  <2>1. d \in Int /\ d - nextChannel \in Int /\ c - nextChannel \in Int
    BY <1>1 DEF Channels
  <2>2. PICK p \in Int : d - nextChannel = (p * N) + Distance(d)
    BY <1>1, <2>1, ModTurnsInt DEF Distance
  <2>3. PICK q \in Int : c - nextChannel = (q * N) + Distance(c)
    BY <1>1, <2>1, ModTurnsInt DEF Distance
  <2>4. Distance(c) \in 0..(N - 1) /\ Distance(d) \in 0..(N - 1)
    BY DistanceBack
  <2>5. d - s = (((p - q) + u) * N) + ((Distance(d) - Distance(c)) - 1)
    <3>1. ((p - q) + u) * N = ((p * N) - (q * N)) + (u * N)
      BY <1>1
    <3>2. d - s = (d - nextChannel) - (c - nextChannel) - 1 + ((c + 1) - s)
      BY <1>1, <1>3, <2>1
    <3>3. p * N \in Int /\ q * N \in Int /\ u * N \in Int
      BY <1>1
    <3>4. (c + 1) - s = u * N
      BY <1>1, <1>2, <1>3, <3>3
    <3>5. QED BY <1>3, <2>2, <2>3, <2>4, <3>1, <3>2, <3>3, <3>4
  <2>6. (p - q) + u \in Int /\ (Distance(d) - Distance(c)) - 1 \in 0..(N - 1)
    BY <1>1, <1>6, <2>4
  <2>7. QED BY <1>1, <2>5, <2>6, ModWhole
<1>7. nextChannel' \in Channels
  BY <1>3, <1>4 DEF Channels
<1>8. QED BY <1>4, <1>5, <1>6, <1>7, Zenon DEF Distance

(* The turn of a channel: the others that are due come before it now.        *)
LEMMA TurnStep ==
  ASSUME TurnInv, NEW c \in Channels, NEW coherent, NEW accepted,
         Attempt(c, coherent, accepted),
         age' \in [Channels -> 0..Interval],
         \A d \in Channels \ {c} : age'[d] = age[d]
  PROVE  TurnInv'
<1>1. /\ \E d \in Channels : Due(d)
      /\ Turn = c /\ nextChannel' = (c + 1) % N
      /\ passed' = [d \in Channels |->
                      IF Due(d) /\ d # c
                      THEN [passed[d] EXCEPT ![c] = Older(@, 2)] ELSE NoTurns]
  BY DEF Attempt, MoveOn
<1>2. \A d \in Channels : Due(d) => Distance(c) <= Distance(d)
  BY <1>1, TurnIsNearest
<1>3. /\ nextChannel' \in Channels /\ Distance(c)' = N - 1
      /\ \A d \in Channels : Distance(c) < Distance(d) =>
           Distance(d)' = (Distance(d) - Distance(c)) - 1
  BY <1>1, DistanceAfter
<1>4. passed \in [Channels -> [Channels -> 0..2]]
  BY DEF TurnInv
<1>5. passed' \in [Channels -> [Channels -> 0..2]]
  <2>1. \A n \in 0..2 : Older(n, 2) \in 0..2
    BY DEF Older
  <2>2. NoTurns \in [Channels -> 0..2]
    BY DEF NoTurns
  <2>3. QED BY <1>1, <1>4, <2>1, <2>2
<1>6. ASSUME NEW d \in Channels, NEW e \in Channels, passed'[d][e] # 0
      PROVE  passed'[d][e] = 1 /\ Due(d)' /\ Distance(d)' < Distance(e)'
  <2>1. Due(d) /\ d # c /\ passed'[d] = [passed[d] EXCEPT ![c] = Older(@, 2)]
    <3>1. NoTurns[e] = 0
      BY DEF NoTurns
    <3>2. QED BY <1>1, <1>6, <3>1
  <2>2. Due(d)'
    BY <2>1 DEF Due
  <2>3. \A x \in Channels : Distance(x) \in 0..(N - 1)
    BY DistanceBack
  <2>4. Distance(c) < Distance(d)
    <3>1. Distance(c) # Distance(d)
      BY <2>1, DistanceBack, Zenon
    <3>2. \A m, n \in 0..(N - 1) : m <= n /\ m # n => m < n
      BY HidAssumption
    <3>3. QED BY <1>2, <2>1, <2>3, <3>1, <3>2, Zenon
  <2>5. Distance(d)' = (Distance(d) - Distance(c)) - 1
    BY <1>3, <2>4
  <2>6. \A m, n, k \in 0..(N - 1) :
          /\ m < n => (n - m) - 1 < N - 1
          /\ m < n /\ n < k => m < k /\ (n - m) - 1 < (k - m) - 1
          /\ m < n => ~(n < m)
    BY HidAssumption
  <2>7. CASE e = c
    <3>1. passed[d][c] = 0
      BY <2>3, <2>4, <2>6, Zenon DEF TurnInv
    <3>2. passed'[d][e] = 1
      <4>1. DOMAIN passed[d] = Channels
        BY <1>4
      <4>2. Older(0, 2) = 1
        BY DEF Older
      <4>3. QED BY <2>1, <2>7, <3>1, <4>1, <4>2
    <3>3. Distance(d)' < Distance(e)'
      <4>1. (Distance(d) - Distance(c)) - 1 < N - 1
        BY <2>3, <2>4, <2>6, Zenon
      <4>2. Distance(e)' = N - 1
        BY <1>3, <2>7
      <4>3. QED BY <2>5, <4>1, <4>2
    <3>4. QED BY <2>2, <3>2, <3>3
  <2>8. CASE e # c
    <3>1. passed'[d][e] = passed[d][e]
      BY <1>4, <2>1, <2>8
    <3>2. passed[d][e] = 1 /\ Distance(d) < Distance(e)
      BY <1>6, <3>1 DEF TurnInv
    <3>3. Distance(c) < Distance(e)
      BY <2>3, <2>4, <2>6, <3>2, Zenon
    <3>4. Distance(e)' = (Distance(e) - Distance(c)) - 1
      BY <1>3, <3>3
    <3>5. (Distance(d) - Distance(c)) - 1 < (Distance(e) - Distance(c)) - 1
      BY <2>3, <2>4, <2>6, <3>2, Zenon
    <3>6. QED BY <2>2, <2>5, <3>1, <3>2, <3>4, <3>5, Zenon
  <2>9. QED BY <2>7, <2>8
<1>7. age' \in [Channels -> 0..Interval]
  OBVIOUS
<1>8. QED BY <1>3, <1>5, <1>6, <1>7, Zenon DEF TurnInv

(* Ages grow and saturate, so who is due stays due.                          *)
LEMMA TurnTickStep ==
  ASSUME TurnInv, Tick
  PROVE  TurnInv'
<1>1. /\ age' = [c \in Channels |-> Older(age[c], Interval)]
      /\ UNCHANGED <<nextChannel, passed>>
  BY DEF Tick, turns
<1>2. /\ \A n \in 0..Interval : Older(n, Interval) \in 0..Interval
      /\ Older(Interval, Interval) = Interval
  BY HidAssumption DEF Older
<1>3. age \in [Channels -> 0..Interval]
  BY DEF TurnInv
<1>4. age' \in [Channels -> 0..Interval]
  BY <1>1, <1>2, <1>3
<1>5. \A d \in Channels : Due(d) => Due(d)'
  BY <1>1, <1>2 DEF Due
<1>6. \A d \in Channels : Distance(d)' = Distance(d)
  BY <1>1 DEF Distance
<1>7. QED BY <1>1, <1>4, <1>5, <1>6 DEF TurnInv
-----------------------------------------------------------------------------
ScheduleInv == SampleInv /\ TurnInv

LEMMA ScheduleInit == Init => ScheduleInv
<1> SUFFICES ASSUME Init PROVE ScheduleInv
  OBVIOUS
<1>1. /\ clock = 0 /\ nextSample = 0 /\ nextChannel = 0 /\ pollAge = 0
      /\ sampleAge = 0 /\ age = [c \in Channels |-> 0]
      /\ passed = [c \in Channels |-> NoTurns]
  BY DEF Init
<1>2. SampleInv
  <2>1. /\ 0 - (0 - FaultInterval) = FaultInterval
        /\ FaultInterval \in 0..(ClockModulus - 1)
        /\ (0 * ClockModulus) + FaultInterval = FaultInterval
        /\ ClockModulus \in Nat \ {0}
    BY SampleConstants
  <2>2. FaultInterval % ClockModulus = FaultInterval
    <3>1. ((0 * ClockModulus) + FaultInterval) % ClockModulus = FaultInterval
      BY <2>1, ModWhole
    <3>2. QED BY <2>1, <3>1
  <2>3. Since = FaultInterval
    BY <1>1, <2>1, <2>2 DEF Since
  <2>4. /\ FaultInterval = 0 + FaultInterval /\ 0 - 0 < FaultInterval
        /\ 0 \in 0..PollGap
    BY SampleConstants
  <2>5. QED BY <1>1, <2>3, <2>4 DEF SampleInv
<1>3. TurnInv
  <2>1. 0 \in Channels /\ 0 \in 0..Interval
    BY HidAssumption DEF Channels
  <2>2. QED BY <1>1, <2>1 DEF TurnInv, NoTurns
<1>4. QED BY <1>2, <1>3 DEF ScheduleInv

LEMMA ScheduleNext ==
  ASSUME ScheduleInv, [Next]_vars
  PROVE  ScheduleInv'
<1>1. SampleInv /\ TurnInv
  BY DEF ScheduleInv
<1>2. ASSUME UNCHANGED <<nextSample, turns, time>> PROVE ScheduleInv'
  <2>1. /\ UNCHANGED <<clock, age, sampleAge, pollAge, nextSample, nextChannel,
                       passed>>
    BY <1>2 DEF turns, time
  <2>2. QED
    BY <1>1, <2>1 DEF ScheduleInv, SampleInv, Since, TurnInv, Distance, Due
<1>3. CASE Tick
  BY <1>1, <1>3, SampleTickStep, TurnTickStep DEF ScheduleInv
<1>4. CASE PollOnly
  <2>1. PICK coherent : Capture(coherent, {}, {})
    BY <1>4 DEF PollOnly
  <2>2. pollAge' = 0 /\ UNCHANGED <<clock, age, nextChannel, passed>>
    BY <1>4 DEF PollOnly, turns
  <2>3. SampleInv'
    BY <1>1, <2>1, <2>2, SamplePollStep
  <2>4. TurnInv'
    BY <1>1, <2>2 DEF TurnInv, Distance, Due
  <2>5. QED BY <2>3, <2>4 DEF ScheduleInv
<1>5. ASSUME NEW c \in Channels, NEW coherent, NEW accepted,
             Attempt(c, coherent, accepted),
             age' = age \/ age' = [age EXCEPT ![c] = 0]
      PROVE  ScheduleInv'
  <2>1. /\ Capture(coherent, {c}, accepted) /\ pollAge' = 0 /\ clock' = clock
    BY <1>5 DEF Attempt
  <2>2. SampleInv'
    BY <1>1, <2>1, SamplePollStep
  <2>3. age \in [Channels -> 0..Interval] /\ 0 \in 0..Interval
    BY <1>1, HidAssumption DEF TurnInv
  <2>4. /\ age' \in [Channels -> 0..Interval]
        /\ \A d \in Channels \ {c} : age'[d] = age[d]
    BY <1>5, <2>3
  <2>5. TurnInv'
    BY <1>1, <1>5, <2>4, TurnStep
  <2>6. QED BY <2>2, <2>5 DEF ScheduleInv
<1>6. CASE Poll
  BY <1>4, <1>5, <1>6 DEF Poll, Reject, Publish
<1>7. CASE ResetHost
  <2>1. /\ UNCHANGED <<clock, sampleAge, pollAge, nextSample>>
        /\ age' = [c \in Channels |-> 0] /\ nextChannel' = 0
        /\ passed' = [c \in Channels |-> NoTurns]
    BY <1>7 DEF ResetHost
  <2>2. 0 \in Channels /\ 0 \in 0..Interval
    BY HidAssumption DEF Channels
  <2>3. SampleInv'
    BY <1>1, <2>1 DEF SampleInv, Since
  <2>4. TurnInv'
    BY <2>1, <2>2 DEF TurnInv, NoTurns
  <2>5. QED BY <2>3, <2>4 DEF ScheduleInv
<1>8. QED
  BY <1>2, <1>3, <1>6, <1>7
     DEF Next, Device, Transfer, Overrun, GetReport, HostReads, vars

(* usb_hid_capture_due_faults: the faults are known as of less than the      *)
(* sample interval ago at the end of every poll, whatever the interval, the  *)
(* gap between polls and the width of the clock.                             *)
THEOREM FaultsAreSampled == Spec => []SampledInTime
<1>1. ScheduleInv => SampledInTime
  BY DEF ScheduleInv, SampleInv, SampledInTime
<1>2. QED BY <1>1, ScheduleInit, ScheduleNext, PTL DEF Spec

(* usb_hid_poll: for any number of channels, none gets a second turn while   *)
(* another that was due all the time waits for its first.                    *)
THEOREM TurnsAreTaken == Spec => []TurnTaking
<1>1. ASSUME ScheduleInv PROVE TurnTaking
  <2>1. \A c, d \in Channels : passed[c][d] = 0 \/ passed[c][d] = 1
    BY <1>1 DEF ScheduleInv, TurnInv
  <2>2. 0 < 2 /\ 1 < 2
    OBVIOUS
  <2>3. QED BY <2>1, <2>2, Zenon DEF TurnTaking
<1>2. QED BY <1>1, ScheduleInit, ScheduleNext, PTL DEF Spec
(* What TypeOK says beyond the invariants of the accounting and the schedule. *)
EndpointOK ==
  /\ clock \in 0..(ClockModulus - 1) /\ nextSample \in 0..(ClockModulus - 1)
  /\ ready \in BOOLEAN

LEMMA EndpointStep ==
  ASSUME EndpointOK, [Next]_vars
  PROVE  EndpointOK'
<1>1. ClockModulus \in Nat \ {0} /\ FaultInterval \in Nat
  BY SampleConstants
<1>2. clock \in 0..(ClockModulus - 1) /\ clock \in Int
  BY <1>1 DEF EndpointOK
<1>3. ASSUME NEW t \in Int PROVE t % ClockModulus \in 0..(ClockModulus - 1)
  BY <1>1, <1>3, ModRangeInt
<1>4. (clock + 1) % ClockModulus \in 0..(ClockModulus - 1)
  BY <1>2, <1>3
<1>5. (clock + FaultInterval) % ClockModulus \in 0..(ClockModulus - 1)
  <2>1. clock + FaultInterval \in Int
    BY <1>1, <1>2
  <2>2. QED BY <1>3, <2>1
<1>6. CASE UNCHANGED <<clock, nextSample>> /\ ready' \in {ready, TRUE, FALSE}
  BY <1>6 DEF EndpointOK
<1>7. CASE Tick
  BY <1>4, <1>7 DEF Tick, wire, EndpointOK
<1>8. CASE Poll
  <2>1. clock' = clock /\ ready' \in {ready, FALSE}
    BY <1>8 DEF Poll, PollOnly, Attempt, Reject, Publish, wire
  <2>2. PICK coherent, attempted, accepted :
          Capture(coherent, attempted, accepted)
    BY <1>8 DEF Poll, PollOnly, Reject, Publish, Attempt
  <2>3. nextSample' \in {nextSample, (clock + FaultInterval) % ClockModulus}
    BY <2>2 DEF Capture
  <2>4. QED BY <1>2, <1>5, <2>1, <2>3 DEF EndpointOK
<1>9. QED
  BY <1>6, <1>7, <1>8 DEF Next, Device, Transfer, Overrun, GetReport, HostReads,
     ResetHost, wire, time, vars

(* The service keeps its state well formed, whatever the bounds: totals stay  *)
(* below the traffic, baselines and deadlines below their moduli.             *)
THEOREM DeviceTypes == Spec => []TypeOK
<1>1. Init => EndpointOK
  <2>1. 0 \in 0..(ClockModulus - 1)
    BY SampleConstants
  <2>2. QED BY <2>1 DEF Init, EndpointOK
<1>2. DeviceInv /\ ScheduleInv /\ EndpointOK => TypeOK
  <2> SUFFICES ASSUME DeviceInv, ScheduleInv, EndpointOK PROVE TypeOK
    OBVIOUS
  <2>1. sampleAge \in 0..(FaultInterval + PollGap)
    BY SampleConstants DEF ScheduleInv, SampleInv
  <2>2. seen \in [Channels -> Observation] /\ channel \in [Channels -> Channel]
    BY DEF DeviceInv, CaptureInv
  <2>3. /\ published \in [Channels -> [Counters -> 0..MaxBytes]]
        /\ report \subseteq Reports
    BY DEF DeviceInv, WireInv
  <2>4. QED
    BY <2>1, <2>2, <2>3 DEF DeviceInv, CaptureInv, TrafficOK, Observation,
       ScheduleInv, SampleInv, TurnInv, EndpointOK, TypeOK
<1>3. QED BY <1>1, <1>2, DeviceInit, DeviceNext, ScheduleInit, ScheduleNext,
    EndpointStep, PTL DEF Spec
-----------------------------------------------------------------------------
(* The client.                                                               *)

ClientOK ==
  /\ client \in [Channels -> Client]
  /\ missed \in [Channels -> 0..StaleAfter]
  /\ breaks \in [Channels -> Nat]

Pending(c) == \E r \in report : r.channel = c

(* A client that is not stale is behind the device by what it missed.        *)
StreamInv ==
  \A c \in Channels : client[c].seen /\ missed[c] < StaleAfter =>
    channel[c].sequence
      = (client[c].sequence + (missed[c] + Count(Pending(c)))) % SeqModulus

(* A client that takes reports for old ones has missed half the numbers.     *)
LossInv ==
  \A c \in Channels :
    /\ client[c].ignored => client[c].seen /\ missed[c] > SeqModulus \div 2
    /\ client[c].gaps = breaks[c] + Count(client[c].ignored)
    /\ client[c].gaps > 0 => client[c].incomplete

(* A client that missed nothing knows the counters at the start of the       *)
(* interval that the next report is about.                                   *)
RateInv ==
  \A c \in Channels, k \in Counters :
    client[c].seen /\ missed[c] = 0 /\ Current(client[c], k) =>
      /\ ~Pending(c) => client[c].counters[k] = published[c][k] % RawModulus
      /\ \A r \in report : r.channel = c =>
           client[c].counters[k]
             = (published[c][k] - r.moved[k]) % RawModulus

HostInv ==
  /\ ClientOK
  /\ StreamInv
  /\ LossInv
  /\ RateInv

(* The client sees nothing of what the device does until it publishes.       *)
LEMMA HostQuietStep ==
  ASSUME HostInv, UNCHANGED host, Quiet
  PROVE  HostInv'
<1>1. UNCHANGED <<client, missed, breaks, report, published>>
  BY DEF host, Quiet
<1>2. ClientOK' /\ LossInv' /\ RateInv'
  BY <1>1 DEF HostInv, ClientOK, LossInv, RateInv, Pending
<1>3. StreamInv'
  BY <1>1 DEF HostInv, StreamInv, Pending, Quiet, SameSequences
<1>4. QED BY <1>2, <1>3 DEF HostInv

(* A publication moves the sequence and the boundary of its channel.         *)
LEMMA HostPublishedStep ==
  ASSUME DeviceInv, HostInv, UNCHANGED host,
         NEW c \in Channels, NEW r, Published(c, r)
  PROVE  HostInv'
<1>1. /\ UNCHANGED <<client, missed, breaks>>
      /\ report = {} /\ report' = {r} /\ r.channel = c
  BY DEF host, Published
<1>2. ClientOK' /\ LossInv'
  BY <1>1 DEF HostInv, ClientOK, LossInv
<1>3. /\ \A d \in Channels : ~Pending(d)
      /\ \A d \in Channels : Pending(d)' <=> d = c
  BY <1>1 DEF Pending
<1>4. StreamInv'
  <2> SUFFICES ASSUME NEW d \in Channels, client[d].seen,
                      missed[d] < StaleAfter
               PROVE  channel'[d].sequence
                        = (client[d].sequence
                            + (missed[d] + Count(Pending(d)'))) % SeqModulus
    BY <1>1 DEF StreamInv
  <2>1. /\ client[d].sequence \in Nat /\ missed[d] \in Nat
        /\ SeqModulus \in Nat \ {0}
    BY HidAssumption, HostAssumption DEF HostInv, ClientOK, Client
  <2>2. channel[d].sequence
          = (client[d].sequence + (missed[d] + 0)) % SeqModulus
    BY <1>3 DEF HostInv, StreamInv, Count
  <2>3. CASE d = c
    <3>1. channel'[d].sequence = (channel[d].sequence + 1) % SeqModulus
      BY <2>3 DEF Published, NextSequence
    <3>2. client[d].sequence + missed[d] \in Nat
      BY <2>1
    <3>3. (((client[d].sequence + missed[d]) % SeqModulus) + 1) % SeqModulus
            = ((client[d].sequence + missed[d]) + 1) % SeqModulus
      BY <2>1, <3>2, ModNext
    <3>4. /\ client[d].sequence + (missed[d] + 0)
               = client[d].sequence + missed[d]
          /\ client[d].sequence + (missed[d] + 1)
               = (client[d].sequence + missed[d]) + 1
      BY <2>1
    <3>5. Count(Pending(d)') = 1
      BY <1>3, <2>3 DEF Count
    <3>6. QED BY <2>2, <3>1, <3>3, <3>4, <3>5
  <2>4. CASE d # c
    <3>1. channel'[d].sequence = channel[d].sequence
      BY <2>4 DEF Published
    <3>2. Count(Pending(d)') = 0
      BY <1>3, <2>4 DEF Count
    <3>3. QED BY <2>2, <3>1, <3>2
  <2>5. QED BY <2>3, <2>4
<1>5. RateInv'
  <2> SUFFICES ASSUME NEW d \in Channels, NEW k \in Counters,
                      client[d].seen, missed[d] = 0, Current(client[d], k)
               PROVE  /\ ~Pending(d)' => client[d].counters[k]
                                        = published'[d][k] % RawModulus
                      /\ r.channel = d =>
                           client[d].counters[k]
                             = (published'[d][k] - r.moved[k]) % RawModulus
    BY <1>1 DEF RateInv, Current
  <2>1. client[d].counters[k] = published[d][k] % RawModulus
    BY <1>3 DEF HostInv, RateInv
  <2>2. CASE d = c
    BY <1>3, <2>1, <2>2 DEF Published
  <2>3. CASE d # c
    BY <1>1, <2>1, <2>3 DEF Published
  <2>4. QED BY <2>2, <2>3
<1>6. QED BY <1>2, <1>4, <1>5 DEF HostInv

(* A client is opened.                                                       *)
LEMMA OpenedStep ==
  ASSUME Opened
  PROVE  HostInv'
<1>1. /\ client' = [c \in Channels |-> NewClient]
      /\ missed' = [c \in Channels |-> 0] /\ breaks' = [c \in Channels |-> 0]
  BY DEF Opened
<1>2. NewClient \in Client
  BY HidAssumption DEF NewClient, Client, NoBytes
<1>3. /\ ~NewClient.seen /\ ~NewClient.ignored /\ NewClient.gaps = 0
  BY DEF NewClient
<1>4. ClientOK'
  BY <1>1, <1>2, HostAssumption DEF ClientOK
<1>5. StreamInv' /\ RateInv'
  BY <1>1, <1>3 DEF StreamInv, RateInv
<1>6. LossInv'
  BY <1>1, <1>3 DEF LossInv, Count
<1>7. QED BY <1>4, <1>5, <1>6 DEF HostInv

(* A report is gone without being applied.                                   *)
LEMMA MissedStep ==
  ASSUME DeviceInv, HostInv, NEW c \in Channels, Pending(c), HostReads, Miss(c),
         \A d \in Channels : /\ client'[d].seen = client[d].seen
                             /\ client'[d].sequence = client[d].sequence
                             /\ d # c => client'[d] = client[d]
  PROVE  /\ StreamInv' /\ RateInv'
         /\ missed' \in [Channels -> 0..StaleAfter]
         /\ missed'[c] > 0 /\ missed'[c] >= missed[c]
         /\ missed[c] < StaleAfter => missed'[c] = missed[c] + 1
         /\ \A d \in Channels \ {c} : missed'[d] = missed[d]
<1>1. report' = {} /\ SameSequences /\ UNCHANGED published
  BY HostReadsStep
<1>2. /\ \A d \in Channels : Pending(d) <=> d = c
      /\ \A d \in Channels : ~Pending(d)'
  BY <1>1 DEF Pending, DeviceInv, WireInv
<1>3. missed \in [Channels -> 0..StaleAfter] /\ StaleAfter \in Nat \ {0}
  BY HidAssumption, HostAssumption DEF HostInv, ClientOK
<1>4. /\ missed' \in [Channels -> 0..StaleAfter]
      /\ missed'[c] > 0 /\ missed'[c] >= missed[c]
      /\ missed[c] < StaleAfter => missed'[c] = missed[c] + 1
      /\ missed[c] = StaleAfter => missed'[c] = StaleAfter
      /\ \A d \in Channels \ {c} : missed'[d] = missed[d]
  BY <1>3 DEF Miss, Older
<1>5. StreamInv'
  <2> SUFFICES ASSUME NEW d \in Channels, client[d].seen,
                      missed'[d] < StaleAfter
               PROVE  channel[d].sequence
                        = (client[d].sequence + (missed'[d] + 0)) % SeqModulus
    BY <1>1, <1>2 DEF StreamInv, Count, SameSequences
  <2>1. CASE d = c
    <3>1. missed[c] < StaleAfter
      BY <1>3, <1>4, <2>1
    <3>2. channel[c].sequence
            = (client[c].sequence + (missed[c] + 1)) % SeqModulus
      BY <1>2, <2>1, <3>1 DEF HostInv, StreamInv, Count
    <3>3. missed'[c] + 0 = missed[c] + 1
      BY <1>3, <1>4, <3>1
    <3>4. QED BY <2>1, <3>2, <3>3
  <2>2. CASE d # c
    BY <1>2, <1>4, <2>2 DEF HostInv, StreamInv, Count
  <2>3. QED BY <2>1, <2>2
<1>6. RateInv'
  <2> SUFFICES ASSUME NEW d \in Channels, NEW k \in Counters,
                      client'[d].seen, missed'[d] = 0, Current(client'[d], k)
               PROVE  client'[d].counters[k] = published[d][k] % RawModulus
    BY <1>1 DEF RateInv, Current
  <2>1. d # c /\ missed[d] = 0 /\ client'[d] = client[d]
    BY <1>3, <1>4
  <2>2. QED BY <1>2, <2>1 DEF HostInv, RateInv
<1>7. QED BY <1>4, <1>5, <1>6

LEMMA LoseStep ==
  ASSUME DeviceInv, HostInv, NEW c \in Channels, Lose(c)
  PROVE  DeviceInv' /\ HostInv'
<1>1. /\ Pending(c) /\ HostReads /\ Miss(c)
      /\ UNCHANGED <<client, breaks>>
  BY DEF Lose, Pending
<1>2. DeviceInv'
  BY <1>1, HostReadsStep
<1>3. /\ StreamInv' /\ RateInv'
      /\ missed' \in [Channels -> 0..StaleAfter]
      /\ missed'[c] >= missed[c]
      /\ \A d \in Channels \ {c} : missed'[d] = missed[d]
  BY <1>1, MissedStep
<1>4. \A d \in Channels : missed'[d] >= missed[d] /\ missed[d] \in Int
                        /\ missed'[d] \in Int
  BY <1>3, HostAssumption, HidAssumption DEF HostInv, ClientOK
<1>5. LossInv'
  <2>1. SeqModulus \div 2 \in Int
    BY HidAssumption
  <2>2. \A d \in Channels :
          missed[d] > SeqModulus \div 2 => missed'[d] > SeqModulus \div 2
    BY <1>4, <2>1
  <2>3. QED BY <1>1, <2>2 DEF HostInv, LossInv
<1>6. QED BY <1>1, <1>2, <1>3, <1>5 DEF HostInv, ClientOK

(* What a client that is not stale reads from the sequence of a report is    *)
(* what it missed.                                                           *)
LEMMA DeltaIsMissed ==
  ASSUME DeviceInv, HostInv, NEW c \in Channels, NEW r \in report,
         r.channel = c, client[c].seen, missed[c] # StaleAfter
  PROVE  /\ SequenceDelta(client[c], r) = missed[c] + 1
         /\ missed[c] \in Nat /\ missed[c] < StaleAfter
<1>1. /\ missed[c] \in 0..StaleAfter /\ SeqModulus \in Nat \ {0}
      /\ StaleAfter \in 1..(SeqModulus - 1)
      /\ client[c].sequence \in 0..(SeqModulus - 1)
  BY HidAssumption, HostAssumption DEF HostInv, ClientOK, Client
<1>2. Count(Pending(c)) = 1
  BY DEF Pending, Count
<1>3. r.sequence = (client[c].sequence + (missed[c] + 1)) % SeqModulus
  <2>1. r.sequence = channel[c].sequence
    BY DEF DeviceInv, WireInv
  <2>2. channel[c].sequence
          = (client[c].sequence + (missed[c] + 1)) % SeqModulus
    BY <1>1, <1>2 DEF HostInv, StreamInv
  <2>3. QED BY <2>1, <2>2
<1>4. missed[c] + 1 \in 0..(SeqModulus - 1)
  BY <1>1
<1>5. (((client[c].sequence + (missed[c] + 1)) % SeqModulus)
         - client[c].sequence) % SeqModulus = missed[c] + 1
  BY <1>1, <1>4, ModAhead
<1>6. QED BY <1>1, <1>3, <1>5 DEF SequenceDelta

(* A report is taken for an old one.                                         *)
LEMMA IgnoreStep ==
  ASSUME DeviceInv, HostInv, NEW c \in Channels, NEW r \in report,
         NEW stale \in BOOLEAN, Receive(c, r, stale),
         ~Applies(client[c], r, stale)
  PROVE  HostInv'
<1>1. /\ r.channel = c /\ HostReads /\ Miss(c) /\ UNCHANGED breaks
      /\ client' = [client EXCEPT ![c] = Applied(client[c], r, stale)]
  BY DEF Receive
<1>2. client[c].seen /\ ~stale /\ missed[c] # StaleAfter
  BY DEF Receive, Applies, Duplicate, Old, First
<1>3. /\ SequenceDelta(client[c], r) = missed[c] + 1
      /\ missed[c] \in Nat /\ missed[c] < StaleAfter
  BY <1>1, <1>2, DeltaIsMissed
<1>4. Old(client[c], r, stale)
  BY <1>3 DEF Applies, Duplicate
<1>5. missed[c] + 1 > SeqModulus \div 2
  BY <1>3, <1>4 DEF Old
<1>6. /\ client[c] \in Client
      /\ client' = [client EXCEPT ![c] = Ignored(client[c])]
  BY <1>1, <1>4 DEF Applied, HostInv, ClientOK
<1>7. /\ Ignored(client[c]) \in Client
      /\ Ignored(client[c]).seen = client[c].seen
      /\ Ignored(client[c]).sequence = client[c].sequence
      /\ Ignored(client[c]).ignored /\ Ignored(client[c]).incomplete
      /\ Ignored(client[c]).gaps
           = client[c].gaps + Count(~client[c].ignored)
  <2>1. client[c].gaps + Count(~client[c].ignored) \in Nat
    BY <1>6 DEF Client, Count
  <2>2. QED BY <1>6, <2>1 DEF Ignored, Client
<1>8. \A d \in Channels : /\ client'[d].seen = client[d].seen
                          /\ client'[d].sequence = client[d].sequence
                          /\ d # c => client'[d] = client[d]
  BY <1>6, <1>7 DEF HostInv, ClientOK
<1>9. /\ StreamInv' /\ RateInv'
      /\ missed' \in [Channels -> 0..StaleAfter]
      /\ missed'[c] = missed[c] + 1
      /\ \A d \in Channels \ {c} : missed'[d] = missed[d]
  BY <1>1, <1>3, <1>8, MissedStep DEF Pending
<1>10. ClientOK'
  <2>1. client' \in [Channels -> Client]
    BY <1>6, <1>7 DEF HostInv, ClientOK
  <2>2. breaks' \in [Channels -> Nat]
    BY <1>1 DEF HostInv, ClientOK
  <2>3. QED BY <1>9, <2>1, <2>2 DEF ClientOK
<1>11. LossInv'
  <2> SUFFICES ASSUME NEW d \in Channels
               PROVE  /\ client'[d].ignored => /\ client'[d].seen
                                               /\ missed'[d] > SeqModulus \div 2
                      /\ client'[d].gaps = breaks[d] + Count(client'[d].ignored)
                      /\ client'[d].gaps > 0 => client'[d].incomplete
    BY <1>1 DEF LossInv
  <2>1. CASE d = c
    <3>1. client'[c] = Ignored(client[c])
      BY <1>6 DEF HostInv, ClientOK
    <3>2. /\ client[c].gaps = breaks[c] + Count(client[c].ignored)
          /\ breaks[c] \in Nat
      BY DEF HostInv, LossInv, ClientOK
    <3>3. client'[c].gaps = breaks[c] + Count(client'[c].ignored)
      BY <1>7, <3>1, <3>2 DEF Count
    <3>4. QED BY <1>2, <1>5, <1>7, <1>9, <2>1, <3>1, <3>3
  <2>2. CASE d # c
    BY <1>8, <1>9, <2>2 DEF HostInv, LossInv
  <2>3. QED BY <2>1, <2>2
<1>12. QED BY <1>9, <1>10, <1>11 DEF HostInv

(* A report is applied.                                                      *)
LEMMA ApplyStep ==
  ASSUME DeviceInv, HostInv, NEW c \in Channels, NEW r \in report,
         NEW stale \in BOOLEAN, Receive(c, r, stale),
         Applies(client[c], r, stale)
  PROVE  HostInv'
<1> DEFINE cl == client[c]
           new == Taken(cl, r, stale)
<1>1. /\ r.channel = c /\ HostReads
      /\ client' = [client EXCEPT ![c] = new]
      /\ missed' = [missed EXCEPT ![c] = 0]
      /\ breaks' = [breaks EXCEPT
           ![c] = @ + Count(cl.seen /\ (stale \/ missed[c] > 0))]
      /\ stale => cl.seen
      /\ cl.seen /\ ~stale => missed[c] # StaleAfter
  BY DEF Receive, Applied
<1>2. /\ cl \in Client /\ r \in Reports /\ breaks[c] \in Nat
      /\ missed[c] \in 0..StaleAfter
  BY DEF HostInv, ClientOK, DeviceInv, WireInv
<1>3. /\ report' = {} /\ SameSequences /\ UNCHANGED published
  BY <1>1, HostReadsStep
<1>4. /\ new.seen /\ ~new.ignored /\ new.sequence = r.sequence
      /\ new.counters = r.total /\ new.current = r.current
      /\ new.gaps = cl.gaps + Count(stale /\ ~cl.ignored)
                             + Count(Gap(cl, r, stale))
      /\ new.incomplete = (cl.incomplete \/ stale \/ Gap(cl, r, stale)
                                         \/ ~r.timed)
  BY DEF Taken
<1>5. new \in Client
  <2>1. (cl.incomplete \/ stale \/ Gap(cl, r, stale) \/ ~r.timed) \in BOOLEAN
    OBVIOUS
  <2>2. cl.gaps + Count(stale /\ ~cl.ignored) + Count(Gap(cl, r, stale)) \in Nat
    BY <1>2 DEF Client, Count
  <2>3. QED BY <1>2, <2>1, <2>2 DEF Taken, Client, Reports
<1> HIDE DEF new
<1>6. ClientOK'
  BY <1>1, <1>2, <1>5, HostAssumption DEF HostInv, ClientOK, Count
<1>7. /\ client'[c] = new /\ missed'[c] = 0
      /\ breaks'[c] = breaks[c] + Count(cl.seen /\ (stale \/ missed[c] > 0))
      /\ \A d \in Channels \ {c} : /\ client'[d] = client[d]
                                  /\ missed'[d] = missed[d]
                                  /\ breaks'[d] = breaks[d]
  BY <1>1 DEF HostInv, ClientOK
<1>8. /\ \A d \in Channels : Pending(d) <=> d = c
      /\ \A d \in Channels : ~Pending(d)'
  BY <1>1, <1>3 DEF Pending, DeviceInv, WireInv
<1>9. /\ r.sequence = channel[c].sequence
      /\ \A k \in Counters : Current(r, k) =>
           r.total[k] = published[c][k] % RawModulus
  BY <1>1 DEF DeviceInv, WireInv
<1>10. StreamInv'
  <2> SUFFICES ASSUME NEW d \in Channels, client'[d].seen,
                      missed'[d] < StaleAfter
               PROVE  channel[d].sequence
                        = (client'[d].sequence + (missed'[d] + 0)) % SeqModulus
    BY <1>3, <1>8 DEF StreamInv, Count, SameSequences
  <2>1. CASE d = c
    <3>1. r.sequence \in 0..(SeqModulus - 1) /\ SeqModulus \in Nat \ {0}
      BY <1>2, HidAssumption DEF Reports
    <3>2. ((0 * SeqModulus) + r.sequence) % SeqModulus = r.sequence
      BY <3>1, ModWhole
    <3>3. r.sequence + (0 + 0) = (0 * SeqModulus) + r.sequence
      BY <3>1
    <3>4. QED BY <1>4, <1>7, <1>9, <2>1, <3>2, <3>3
  <2>2. CASE d # c
    BY <1>7, <1>8, <2>2 DEF HostInv, StreamInv, Count
  <2>3. QED BY <2>1, <2>2
<1>11. RateInv'
  <2> SUFFICES ASSUME NEW d \in Channels, NEW k \in Counters,
                      client'[d].seen, missed'[d] = 0, Current(client'[d], k)
               PROVE  client'[d].counters[k] = published[d][k] % RawModulus
    BY <1>3 DEF RateInv, Current
  <2>1. CASE d = c
    BY <1>4, <1>7, <1>9, <2>1 DEF Current
  <2>2. CASE d # c
    BY <1>7, <1>8, <2>2 DEF HostInv, RateInv
  <2>3. QED BY <2>1, <2>2
<1>12. new.gaps = breaks'[c] + Count(new.ignored)
  <2>1. /\ cl.gaps = breaks[c] + Count(cl.ignored) /\ cl.gaps \in Nat
        /\ cl.ignored => cl.seen /\ missed[c] > SeqModulus \div 2
    BY <1>2 DEF HostInv, LossInv, Client
  <2>2. CASE ~cl.seen
    <3>1. ~cl.ignored /\ ~stale /\ ~Gap(cl, r, stale)
      BY <1>1, <2>1, <2>2 DEF Gap, First
    <3>2. QED BY <1>2, <1>4, <1>7, <2>1, <2>2, <3>1 DEF Count
  <2>3. CASE cl.seen /\ stale
    <3>1. ~Gap(cl, r, stale)
      BY <2>3 DEF Gap, First
    <3>2. QED BY <1>2, <1>4, <1>7, <2>1, <2>3, <3>1 DEF Count
  <2>4. CASE cl.seen /\ ~stale
    <3>1. /\ SequenceDelta(cl, r) = missed[c] + 1
          /\ missed[c] \in Nat
      BY <1>1, <2>4, DeltaIsMissed
    <3>2. Gap(cl, r, stale) <=> missed[c] > 0
      BY <2>4, <3>1 DEF Gap, First
    <3>3. ~cl.ignored
      <4>1. ~(missed[c] + 1 > SeqModulus \div 2)
        BY <2>4, <3>1 DEF Applies, Old, First
      <4>2. SeqModulus \div 2 \in Int
        BY HidAssumption
      <4>3. QED BY <2>1, <3>1, <4>1, <4>2
    <3>4. QED BY <1>2, <1>4, <1>7, <2>1, <2>4, <3>2, <3>3 DEF Count
  <2>5. QED BY <2>2, <2>3, <2>4
<1>13. new.gaps > 0 => new.incomplete
  <2>1. (cl.gaps > 0 => cl.incomplete) /\ cl.gaps \in Nat
    BY <1>2 DEF HostInv, LossInv, Client
  <2>2. CASE cl.incomplete \/ stale \/ Gap(cl, r, stale)
    <3>1. new.incomplete = TRUE
      BY <1>4, <2>2
    <3>2. QED BY <3>1
  <2>3. CASE ~(cl.incomplete \/ stale \/ Gap(cl, r, stale))
    <3>1. cl.gaps = 0
      BY <2>1, <2>3
    <3>2. new.gaps = 0
      BY <1>4, <2>3, <3>1 DEF Count
    <3>3. QED BY <3>2
  <2>4. QED BY <2>2, <2>3
<1>14. LossInv'
  BY <1>4, <1>7, <1>12, <1>13 DEF HostInv, LossInv
<1>15. QED BY <1>6, <1>10, <1>11, <1>14 DEF HostInv

(* What a client gives for a rate is exact.                                  *)
LEMMA RateStep ==
  ASSUME DeviceInv, HostInv, NEW c \in Channels, NEW r \in report,
         NEW stale \in BOOLEAN, Receive(c, r, stale),
         Clean(client[c], r, stale),
         NEW k \in Counters, Rated(client[c], r, k)
  PROVE  (r.total[k] - client[c].counters[k]) % RawModulus = r.moved[k]
<1>1. /\ r.channel = c /\ client[c].seen /\ ~stale /\ missed[c] # StaleAfter
      /\ SequenceDelta(client[c], r) = 1 /\ r.timed
  BY DEF Receive, Clean, First, Gap
<1>2. missed[c] = 0
  BY <1>1, DeltaIsMissed
<1>3. Current(client[c], k) /\ Current(r, k)
  BY DEF Rated, Current
<1>4. /\ r.moved[k] <= published[c][k] /\ r.moved[k] < RawModulus
      /\ r.total[k] = published[c][k] % RawModulus
  BY <1>1, <1>3 DEF DeviceInv, WireInv
<1>5. client[c].counters[k] = (published[c][k] - r.moved[k]) % RawModulus
  BY <1>1, <1>2, <1>3 DEF HostInv, RateInv
<1>6. /\ published[c][k] \in Nat /\ r.moved[k] \in Nat
      /\ RawModulus \in Nat \ {0}
  BY HidAssumption DEF DeviceInv, WireInv, Reports
<1> DEFINE before == published[c][k] - r.moved[k]
<1>7. /\ before \in Nat /\ before <= published[c][k]
      /\ published[c][k] - before = r.moved[k]
  BY <1>4, <1>6
<1> HIDE DEF before
<1>8. ((published[c][k] % RawModulus) - (before % RawModulus)) % RawModulus
        = published[c][k] - before
  BY <1>4, <1>6, <1>7, ModDifference
<1>9. client[c].counters[k] = before % RawModulus
  BY <1>5 DEF before
<1>10. QED BY <1>4, <1>7, <1>8, <1>9
-----------------------------------------------------------------------------
(* Device and client together.                                               *)

(* Whatever the host does, the device makes a step of its own or none.       *)
LEMMA HostDeviceStep ==
  ASSUME DeviceInv, [HostNext]_allVars
  PROVE  DeviceInv'
<1>1. [Next]_vars
  BY DEF HostNext, Next, allVars, Lose, Receive, Configure, BusReset, Open
<1>2. QED BY <1>1, DeviceNext

LEMMA HostStep ==
  ASSUME Reconnects, DeviceInv, HostInv, [HostNext]_allVars
  PROVE  HostInv'
<1>1. CASE Device /\ UNCHANGED host
  BY <1>1, DeviceStep, HostQuietStep, HostPublishedStep
<1>2. ASSUME NEW c \in Channels, Lose(c)
      PROVE  HostInv'
  BY <1>2, LoseStep
<1>3. ASSUME NEW c \in Channels, NEW r \in report, NEW stale \in BOOLEAN,
             Receive(c, r, stale)
      PROVE  HostInv'
  BY <1>3, IgnoreStep, ApplyStep
<1>4. CASE Configure
  <2>1. Quiet /\ UNCHANGED host
    BY <1>4, HostReadsStep DEF Configure, Quiet
  <2>2. QED BY <2>1, HostQuietStep
<1>5. CASE BusReset
  BY <1>5, OpenedStep DEF BusReset
<1>6. CASE Open
  BY <1>6, OpenedStep DEF Open
<1>7. CASE UNCHANGED allVars
  <2>1. Quiet /\ UNCHANGED host
    BY <1>7 DEF allVars, vars, wire, Quiet, SameSequences
  <2>2. QED BY <2>1, HostQuietStep
<1>8. QED BY <1>1, <1>2, <1>3, <1>4, <1>5, <1>6, <1>7 DEF HostNext

LEMMA HostInitially == HostInit => DeviceInv /\ HostInv
<1> SUFFICES ASSUME HostInit PROVE DeviceInv /\ HostInv
  OBVIOUS
<1>1. DeviceInv
  BY DeviceInit DEF HostInit
<1>2. /\ client = [c \in Channels |-> NewClient]
      /\ missed = [c \in Channels |-> 0] /\ breaks = [c \in Channels |-> 0]
  BY DEF HostInit
<1>3. /\ NewClient \in Client
      /\ ~NewClient.seen /\ ~NewClient.ignored /\ NewClient.gaps = 0
  BY HidAssumption DEF NewClient, Client, NoBytes
<1>4. ClientOK
  BY <1>2, <1>3, HostAssumption DEF ClientOK
<1>5. StreamInv /\ RateInv /\ LossInv
  BY <1>2, <1>3 DEF StreamInv, RateInv, LossInv, Count
<1>6. QED BY <1>1, <1>4, <1>5 DEF HostInv

(* The totals stay exact whatever the clients do, also those that keep their *)
(* handle across a bus reset.                                                *)
THEOREM TotalsAreExact == HostSpec => []TotalsExact
<1>1. DeviceInv => TotalsExact
  BY DEF DeviceInv, CaptureInv, Exact, TotalsExact
<1>2. QED BY <1>1, HostInitially, HostDeviceStep, PTL DEF HostSpec

(* A client that ends with its connection counts every break of a stream     *)
(* once: _apply_input, with reports that are lost, streams that go stale and *)
(* sequences that look old.                                                  *)
THEOREM GapsAreCounted == Reconnects => (HostSpec => []GapsAreLosses)
<1> SUFFICES ASSUME Reconnects PROVE HostSpec => []GapsAreLosses
  OBVIOUS
<1>1. HostInv => GapsAreLosses
  BY DEF HostInv, LossInv, GapsAreLosses
<1>2. DeviceInv /\ HostInv /\ [HostNext]_allVars => (DeviceInv /\ HostInv)'
  BY HostDeviceStep, HostStep
<1>3. QED BY <1>1, <1>2, HostInitially, PTL DEF HostSpec

(* A client that ends with its connection never gives a wrong rate.          *)
THEOREM RatesAreExact == Reconnects => (HostSpec => RateExact)
<1> SUFFICES ASSUME Reconnects PROVE HostSpec => RateExact
  OBVIOUS
<1>1. ASSUME DeviceInv, HostInv
      PROVE  \A c \in Channels, r \in report, stale \in BOOLEAN :
               Receive(c, r, stale) /\ Applies(client[c], r, stale) =>
                 \A k \in Counters :
                   Traffic(client[c], r, stale)[k] \in {NoRate, r.moved[k]}
  BY <1>1, RateStep DEF Traffic
<1>2. DeviceInv /\ HostInv /\ [HostNext]_allVars => (DeviceInv /\ HostInv)'
  BY HostDeviceStep, HostStep
<1>3. QED BY <1>1, <1>2, HostInitially, PTL DEF HostSpec, RateExact
=============================================================================
