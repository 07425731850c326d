----------------------------- MODULE HostInputs ------------------------------
(* The Input reports of the HID service at the host: a client of the Python  *)
(* package derives from them what each counter moved, and says when it does  *)
(* not know.  Reports get lost on the way (the host's queue is short, and a  *)
(* client may not read for long), the device may be reset by the bus, and a  *)
(* client may be opened at any time.                                         *)
EXTENDS HidChannels

CONSTANTS
  StaleAfter,  \* so many missed publications take longer than 3 s
  Reconnects,  \* a bus reset ends the client's connection
  MaxGaps,     \* bound: a client that counts more is not followed
  NoRate

(* The sequence numbers go round in hours, a client is stale after seconds.  *)
ASSUME HostAssumption ==
  /\ StaleAfter \in 1..(SeqModulus - 1) /\ MaxGaps \in Nat
  /\ Reconnects \in BOOLEAN /\ NoRate \notin Nat

VARIABLES
  client,   \* per channel, what _apply_input keeps
  (* history *)
  missed,   \* publications since the last one that was applied
  breaks    \* how often the stream was not continuous

host == <<client, missed, breaks>>
allVars == <<vars, host>>

Client == [seen : BOOLEAN, sequence : 0..(SeqModulus - 1),
           counters : [Counters -> 0..(RawModulus - 1)], current : BOOLEAN,
           ignored : BOOLEAN, incomplete : BOOLEAN, gaps : Nat]

HostTypeOK ==
  /\ TypeOK
  /\ client \in [Channels -> Client]
  /\ missed \in [Channels -> 0..StaleAfter]
  /\ breaks \in [Channels -> Nat]

(* PicoUartHid.__init__                                                      *)
NewClient ==
  [seen |-> FALSE, sequence |-> 0, counters |-> NoBytes, current |-> FALSE,
   ignored |-> FALSE, incomplete |-> FALSE, gaps |-> 0]

Opened ==
  /\ client' = [c \in Channels |-> NewClient]
  /\ missed' = [c \in Channels |-> 0] /\ breaks' = [c \in Channels |-> 0]

HostInit ==
  /\ Init
  /\ client = [c \in Channels |-> NewClient]
  /\ missed = [c \in Channels |-> 0] /\ breaks = [c \in Channels |-> 0]
-----------------------------------------------------------------------------
(* _apply_input.                                                             *)

SequenceDelta(cl, r) == (r.sequence - cl.sequence) % SeqModulus

First(cl, stale) == ~cl.seen \/ stale

Duplicate(cl, r, stale) == ~First(cl, stale) /\ SequenceDelta(cl, r) = 0

Old(cl, r, stale) ==
  ~First(cl, stale) /\ SequenceDelta(cl, r) > SeqModulus \div 2

Gap(cl, r, stale) == ~First(cl, stale) /\ SequenceDelta(cl, r) # 1

Clean(cl, r, stale) == ~First(cl, stale) /\ ~Gap(cl, r, stale) /\ r.timed

Rated_Always(cl, r, k) == TRUE

(* A cached UART sample says nothing about this interval, nor about the next.*)
Rated(cl, r, k) == k = "uart" => r.current /\ cl.current

(* channel["traffic"]                                                        *)
Traffic(cl, r, stale) ==
  [k \in Counters |-> IF Clean(cl, r, stale) /\ Rated(cl, r, k)
                      THEN (r.total[k] - cl.counters[k]) % RawModulus
                      ELSE NoRate]

Count(b) == IF b THEN 1 ELSE 0

Ignored(cl) ==
  [cl EXCEPT !.incomplete = TRUE, !.ignored = TRUE,
             !.gaps = @ + Count(~cl.ignored)]

Taken(cl, r, stale) ==
  [seen |-> TRUE, sequence |-> r.sequence, counters |-> r.total,
   current |-> r.current, ignored |-> FALSE,
   incomplete |-> cl.incomplete \/ stale \/ Gap(cl, r, stale) \/ ~r.timed,
   gaps |-> cl.gaps + Count(stale /\ ~cl.ignored) + Count(Gap(cl, r, stale))]

Applies(cl, r, stale) == ~Duplicate(cl, r, stale) /\ ~Old(cl, r, stale)

Applied(cl, r, stale) ==
  IF Applies(cl, r, stale) THEN Taken(cl, r, stale)
  ELSE IF Old(cl, r, stale) THEN Ignored(cl) ELSE cl
-----------------------------------------------------------------------------
Miss(c) == missed' = [missed EXCEPT ![c] = Older(@, StaleAfter)]

(* read_status: the client may have been away for long at any report, and    *)
(* was when too many have passed.                                            *)
Receive(c, r, stale) ==
  /\ r \in report /\ r.channel = c
  /\ stale => client[c].seen
  /\ client[c].seen /\ missed[c] = StaleAfter => stale
  /\ HostReads
  /\ client' = [client EXCEPT ![c] = Applied(@, r, stale)]
  /\ client'[c].gaps <= MaxGaps
  /\ IF Applies(client[c], r, stale)
     THEN /\ missed' = [missed EXCEPT ![c] = 0]
          /\ breaks' = [breaks EXCEPT
               ![c] = @ + Count(client[c].seen /\ (stale \/ missed[c] > 0))]
     ELSE Miss(c) /\ UNCHANGED breaks

(* The report is in nobody's queue.                                          *)
Lose(c) ==
  /\ \E r \in report : r.channel = c
  /\ HostReads
  /\ Miss(c) /\ UNCHANGED <<client, breaks>>

(* The host has configured the device, and asks for reports again.           *)
Configure == report = {} /\ HostReads /\ UNCHANGED host

BusReset ==
  /\ ResetHost
  /\ IF Reconnects THEN Opened ELSE UNCHANGED host

Open == Opened /\ UNCHANGED vars

HostNext ==
  \/ Device /\ UNCHANGED host
  \/ \E c \in Channels : \/ Lose(c)
                         \/ \E r \in report, stale \in BOOLEAN :
                              Receive(c, r, stale)
  \/ Configure \/ BusReset \/ Open

HostSpec == HostInit /\ [][HostNext]_allVars
-----------------------------------------------------------------------------
(* Properties.                                                               *)

(* A rate is exact or not given: the bytes a client divides by the interval  *)
(* of a report are those that moved in that interval, whatever reports were  *)
(* lost, rejected or read over the control pipe, whatever samples failed and *)
(* however the counters wrapped meanwhile.                                   *)
RateExact ==
  [][\A c \in Channels, r \in report, stale \in BOOLEAN :
       LET cl == client[c]
       IN  Receive(c, r, stale) /\ Applies(cl, r, stale) =>
             \A k \in Counters :
               Traffic(cl, r, stale)[k] \in {NoRate, r.moved[k]}]_allVars

(* Every break of the stream of a channel is counted, and counted once, also *)
(* when the reports after it look like old ones for a while; a client that   *)
(* shows a complete stream has applied every publication since its first.    *)
GapsAreLosses ==
  \A c \in Channels :
    /\ client[c].gaps = breaks[c] + Count(client[c].ignored)
    /\ client[c].gaps > 0 => client[c].incomplete
=============================================================================
