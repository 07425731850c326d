--------------------------- MODULE PortStatsProofs ---------------------------
(* StatsInv is inductive, for every set of fields and number of attempts:    *)
(* every sample is coherent.                                                 *)
EXTENDS PortStats, TLAPS

USE StatsAssumption

(* Incrementing the sequence changes its parity.                             *)
LEMMA ParityFlips ==
  ASSUME NEW s \in Nat
  PROVE  Even(s + 1) <=> ~Even(s)
BY DEF Even

(* Nothing is read and nothing changed before the start.                     *)
LEMMA StatsInit == Init => StatsInv
<1> SUFFICES ASSUME Init PROVE StatsInv
  OBVIOUS
<1>1. 0 \in 0..MaxSeq /\ 0 \in 0..(Attempts - 1) /\ Blank \in Values
  BY DEF Blank, Values
<1>2. TypeOK
  BY <1>1 DEF Init, TypeOK
<1>3. ParityInv /\ StableInv /\ ReadingInv /\ SampleCoherent
  BY <1>1 DEF Init, ParityInv, StableInv, ReadingInv, SampleCoherent, Even
<1>4. QED
  BY <1>2, <1>3 DEF StatsInv

(* Core 1: an update leaves every sequence before it as it was.              *)
LEMMA WorkerStep == StatsInv /\ Worker => StatsInv'
<1> SUFFICES ASSUME StatsInv, Worker PROVE StatsInv'
  OBVIOUS
<1>1. seq \in Nat /\ called \in Nat /\ first \in Nat
  BY DEF StatsInv, TypeOK
<1>2. CASE BeginUpdate
  <2>1. TypeOK'
    BY <1>1, <1>2 DEF StatsInv, TypeOK, BeginUpdate, reader
  <2>2. ParityInv' /\ StableInv'
    BY <1>1, <1>2, ParityFlips
       DEF StatsInv, ParityInv, StableInv, BeginUpdate
  <2>3. ReadingInv'
    BY <1>1, <1>2 DEF StatsInv, ReadingInv, BeginUpdate, reader, Even
  <2>4. SampleCoherent'
    BY <1>1, <1>2 DEF StatsInv, SampleCoherent, BeginUpdate, reader, Even
  <2>5. QED
    BY <2>1, <2>2, <2>3, <2>4 DEF StatsInv
<1>3. CASE \E f \in Fields : Change(f)
  <2>1. PICK f \in Fields : Change(f)
    BY <1>3
  <2>2. TypeOK'
    BY <2>1 DEF StatsInv, TypeOK, Change, reader, Values
  <2>3. ParityInv' /\ StableInv'
    BY <2>1 DEF StatsInv, ParityInv, StableInv, Change, Even
  <2>4. ReadingInv'
    BY <2>1 DEF StatsInv, ReadingInv, Change, reader, Even
  <2>5. SampleCoherent'
    BY <2>1 DEF StatsInv, SampleCoherent, Change, reader, Even
  <2>6. QED
    BY <2>2, <2>3, <2>4, <2>5 DEF StatsInv
<1>4. CASE EndUpdate
  <2>1. seq + 1 \in 0..MaxSeq
    BY <1>1, <1>4 DEF StatsInv, TypeOK, EndUpdate, ParityInv
  <2>2. TypeOK'
    BY <1>4, <2>1 DEF StatsInv, TypeOK, EndUpdate, reader
  <2>3. ParityInv' /\ StableInv'
    BY <1>1, <1>4, <2>1, ParityFlips
       DEF StatsInv, ParityInv, StableInv, EndUpdate, TypeOK
  <2>4. ReadingInv'
    BY <1>1, <1>4 DEF StatsInv, ReadingInv, EndUpdate, reader, Even
  <2>5. SampleCoherent'
    BY <1>1, <1>4, <2>1
       DEF StatsInv, TypeOK, SampleCoherent, EndUpdate, reader, Even
  <2>6. QED
    BY <2>2, <2>3, <2>4, <2>5 DEF StatsInv
<1>5. QED
  BY <1>2, <1>3, <1>4 DEF Worker

(* Core 0: a field that is copied while the sequence stands still at an even *)
(* value is as the last update left it.                                      *)
LEMMA ReaderStep == StatsInv /\ Reader => StatsInv'
<1> SUFFICES ASSUME StatsInv, Reader PROVE StatsInv'
  OBVIOUS
<1>1. seq \in Nat /\ called \in Nat /\ first \in Nat /\ attempt \in Nat
  BY DEF StatsInv, TypeOK
<1>2. UNCHANGED worker
  BY DEF Reader, Call, TakeSequence, NoStorage, Copy, CheckSequence
<1>3. ParityInv' /\ StableInv'
  BY <1>2 DEF StatsInv, ParityInv, StableInv, worker, Even
<1>4. CASE Call
  BY <1>1, <1>2, <1>3, <1>4
     DEF StatsInv, TypeOK, ReadingInv, SampleCoherent, Call, worker
<1>5. CASE TakeSequence
  BY <1>1, <1>2, <1>3, <1>5
     DEF StatsInv, TypeOK, ReadingInv, SampleCoherent, TakeSequence, Retry,
         Fail, worker, Even
<1>6. CASE NoStorage
  BY <1>1, <1>2, <1>3, <1>6
     DEF StatsInv, TypeOK, ReadingInv, SampleCoherent, NoStorage, Fail, worker
<1>7. CASE \E f \in Fields : Copy(f)
  <2>1. PICK f \in Fields : Copy(f)
    BY <1>7
  <2>2. TypeOK'
    BY <1>2, <2>1 DEF StatsInv, TypeOK, Copy, worker, Values
  <2>3. rpc = "read" /\ first = seq => value[f] = stable[seq][f]
    BY DEF StatsInv, ReadingInv, ParityInv, StableInv
  <2>4. ReadingInv'
    BY <1>2, <2>1, <2>3
       DEF StatsInv, TypeOK, ReadingInv, Copy, worker, Values
  <2>5. SampleCoherent'
    BY <1>2, <2>1 DEF StatsInv, ReadingInv, SampleCoherent, Copy, worker
  <2>6. QED
    BY <1>3, <2>2, <2>4, <2>5 DEF StatsInv
<1>8. CASE CheckSequence
  <2>1. CASE seq = first
    <3>1. sample = stable[seq] /\ Even(seq) /\ seq \in called..seq
      BY <1>1, <1>8, <2>1
         DEF StatsInv, TypeOK, ReadingInv, CheckSequence, Values
    <3>2. QED
      BY <1>1, <1>2, <1>3, <1>8, <2>1, <3>1
         DEF StatsInv, TypeOK, ReadingInv, SampleCoherent, CheckSequence,
             worker
  <2>2. CASE seq # first
    BY <1>1, <1>2, <1>3, <1>8, <2>2
       DEF StatsInv, TypeOK, ReadingInv, SampleCoherent, CheckSequence,
           Retry, Fail, worker
  <2>3. QED
    BY <2>1, <2>2
<1>9. QED
  BY <1>4, <1>5, <1>6, <1>7, <1>8 DEF Reader

(* The inductive invariant of the sequence lock.                             *)
THEOREM StatsInductive == Spec => []StatsInv
<1>1. StatsInv /\ [Next]_vars => StatsInv'
  <2> SUFFICES ASSUME StatsInv, UNCHANGED vars PROVE StatsInv'
    BY WorkerStep, ReaderStep DEF Next
  <2> QED
    BY DEF vars, StatsInv, TypeOK, ParityInv, StableInv, ReadingInv,
       SampleCoherent, Even
<1>2. QED
  BY <1>1, StatsInit, PTL DEF Spec

(* uart_driver_port_stats never returns a torn sample.                       *)
THEOREM SamplesCoherent == Spec => []SampleCoherent
<1>1. StatsInv => SampleCoherent
  BY DEF StatsInv
<1>2. QED
  BY <1>1, StatsInductive, PTL
=============================================================================
