----------------------------- MODULE MarketData -----------------------------
(***************************************************************************)
(* Market data up to the strategy: ReplayReader, SequenceTracker,          *)
(* CsvParser, FeedHealth, MarketDataHandler::next and the part of          *)
(* Simulator::run_replay that feeds BookManager and decides whether the    *)
(* strategy may look at the quotes.                                        *)
(*                                                                         *)
(* The packets of the day are numbered per venue and channel.  The replay  *)
(* file is whatever the recorder received: packets may be missing, late,   *)
(* repeated, cut short, or carry the number 0.  Of a book only the time of *)
(* its last update is kept; which packets went into it is history.         *)
(***************************************************************************)
EXTENDS Integers

CONSTANTS
  Instruments,
  Channels,
  ChannelOf,    \* the channel on which an instrument's packets travel
  Garbling,     \* the file may hold rows too short to parse
  MaxSeq,       \* bound: packets per channel
  MaxTime,      \* bound: largest ingest timestamp
  NsPerUs,      \* 1000 in the code
  AgeBits,      \* 32 in the code: the width of book_age_us
  StrategyMaxBookAge

ASSUME MarketDataAssumption ==
  /\ ChannelOf \in [Instruments -> Channels]
  /\ Garbling \in BOOLEAN
  /\ MaxSeq \in Nat /\ MaxTime \in Nat /\ NsPerUs \in Nat \ {0}
  /\ AgeBits \in Nat /\ StrategyMaxBookAge \in Nat

VARIABLES
  day,          \* the instrument each packet of the day is about
  last_seq,     \* SequenceTracker: last_seq_
  health,       \* FeedHealth: states_
  last_update,  \* OrderBook: last_update_ns_, 0 when there is no book yet
  now,          \* ingest time of the last packet read
  applied,      \* history: the packets each channel's books were built from
  garbled,      \* history: the channels of which a row did not parse
  result        \* what became of the last packet: MdResult and the gate

vars == <<day, last_seq, health, last_update, now, applied, garbled, result>>

Venues == {"NSE", "BSE"}
Times == 1..MaxTime

(* A day: a channel carries the packets of its own instruments only.       *)
Days ==
  {d \in [Venues -> [Channels -> [1..MaxSeq -> Instruments]]] :
     \A v \in Venues, c \in Channels, k \in 1..MaxSeq : ChannelOf[d[v][c][k]] = c}

NoState == [healthy |-> FALSE, reason |-> "NO_STATE", last_event |-> 0]
NewState == [healthy |-> TRUE, reason |-> "none", last_event |-> 0]

Init ==
  /\ day \in Days
  /\ last_seq = [v \in Venues |-> [c \in Channels |-> 0]]
  /\ health = [v \in Venues |-> [i \in Instruments |-> NoState]]
  /\ last_update = [v \in Venues |-> [i \in Instruments |-> 0]]
  /\ now = 1
  /\ applied = [v \in Venues |-> [c \in Channels |-> {}]]
  /\ garbled = [v \in Venues |-> {}]
  /\ result = [status |-> "none"]
-----------------------------------------------------------------------------
(* SequenceTracker::on_packet.  Only a packet that is Ok or opens a gap    *)
(* moves last_seq_.                                                        *)
on_packetStrict(last, seq) ==
  IF seq = 0 THEN "Reset"
  ELSE IF last = 0 \/ seq = last + 1 THEN "Ok"
  ELSE IF seq < last THEN "Duplicate" ELSE "Gap"
on_packetNoGap(last, seq) ==
  IF seq = 0 THEN "Reset" ELSE IF last = 0 \/ seq > last THEN "Ok" ELSE "Duplicate"
on_packet(last, seq) ==
  IF seq = 0 THEN "Reset"
  ELSE IF last = 0 \/ seq = last + 1 THEN "Ok"
  ELSE IF seq <= last THEN "Duplicate" ELSE "Gap"

LastAfter(last, seq) == IF on_packet(last, seq) \in {"Ok", "Gap"} THEN seq ELSE last
-----------------------------------------------------------------------------
(* FeedHealth.  A state that is not in the map is created on first use.    *)
Existing(s) == IF s = NoState THEN NewState ELSE s

on_eventHeals(s, ts) == [Existing(s) EXCEPT !.last_event = ts, !.healthy = TRUE]
on_eventOnce(s, ts) == IF s = NoState THEN [NewState EXCEPT !.last_event = ts] ELSE s
on_event(s, ts) ==
  LET e == Existing(s)
  IN  [healthy |-> IF e.reason = "none" THEN TRUE ELSE e.healthy,
       reason |-> e.reason, last_event |-> ts]

mark_unhealthy(s) ==
  [healthy |-> FALSE, reason |-> "SEQUENCE_GAP", last_event |-> Existing(s).last_event]

is_healthy(s) == s # NoState /\ s.healthy

ToAge(ns) == (ns \div NsPerUs) % 2^AgeBits   \* static_cast<uint32_t>

book_age_us(s, ts) ==
  IF s.last_event = 0 THEN 2^AgeBits - 1
  ELSE IF ts < s.last_event THEN 0 ELSE ToAge(ts - s.last_event)

(* The age OrderBook::best_quote puts into a quote.                        *)
quote_age(last, ts) == IF last > 0 /\ ts >= last THEN ToAge(ts - last) ELSE 0
-----------------------------------------------------------------------------
(* run_replay after an event on instrument i: both books must exist, both  *)
(* feeds be healthy and both quotes fresh.  The prices decide the rest.    *)
GateOneVenue(h, u, i, ts) ==
  IF \E v \in Venues : u[v][i] = 0 THEN "NO_QUOTE"
  ELSE IF \E v \in Venues : ~is_healthy(h[v][i]) THEN "UNHEALTHY_FEED"
  ELSE IF quote_age(u["NSE"][i], ts) > StrategyMaxBookAge THEN "STALE_BOOK"
  ELSE "EVALUATED"
Gate(h, u, i, ts) ==
  IF \E v \in Venues : u[v][i] = 0 THEN "NO_QUOTE"
  ELSE IF \E v \in Venues : ~is_healthy(h[v][i]) THEN "UNHEALTHY_FEED"
  ELSE IF \E v \in Venues : quote_age(u[v][i], ts) > StrategyMaxBookAge THEN "STALE_BOOK"
  ELSE "EVALUATED"

(* next_packet returns packet seq of a channel.                            *)
Read(v, c, seq, ts) ==
  /\ ts >= now /\ now' = ts
  /\ last_seq' = [last_seq EXCEPT ![v][c] = LastAfter(@, seq)]
  /\ UNCHANGED day

DuplicatePacket(v, c, seq, ts) ==
  /\ on_packet(last_seq[v][c], seq) = "Duplicate"
  /\ Read(v, c, seq, ts)
  /\ result' = [status |-> "Duplicate"]
  /\ UNCHANGED <<health, last_update, applied, garbled>>

ParseFailure(v, c, seq, ts) ==
  /\ Garbling
  /\ on_packet(last_seq[v][c], seq) # "Duplicate"
  /\ Read(v, c, seq, ts)
  /\ result' = [status |-> "ParseFailure"]
  /\ garbled' = [garbled EXCEPT ![v] = @ \cup {c}]
  /\ UNCHANGED <<health, last_update, applied>>

Event(v, c, seq, i, ts) ==
  LET status == on_packet(last_seq[v][c], seq)
  IN  /\ status # "Duplicate"
      /\ Read(v, c, seq, ts)
      /\ health' = [health EXCEPT ![v][i] = IF status = "Gap" THEN mark_unhealthy(@)
                                            ELSE on_event(@, ts)]
      /\ last_update' = [last_update EXCEPT ![v][i] = ts]
      /\ applied' = [applied EXCEPT ![v][c] = IF seq > 0 THEN @ \cup {seq} ELSE @]
      /\ result' = [status |-> "Event", venue |-> v, channel |-> c, seq |-> seq,
                    instrument |-> i, verdict |-> Gate(health', last_update', i, ts)]
      /\ UNCHANGED garbled

Next ==
  \E v \in Venues, c \in Channels, seq \in 0..MaxSeq, ts \in Times :
    \/ DuplicatePacket(v, c, seq, ts)
    \/ ParseFailure(v, c, seq, ts)
    \/ \E i \in Instruments :
         /\ IF seq > 0 THEN i = day[v][c][seq] ELSE ChannelOf[i] = c
         /\ Event(v, c, seq, i, ts)

Spec == Init /\ [][Next]_vars
-----------------------------------------------------------------------------
FeedRecord == [healthy : BOOLEAN, reason : {"none", "SEQUENCE_GAP"}, last_event : Nat]
FeedState == {NoState} \cup {s \in FeedRecord : s.healthy <=> s.reason = "none"}

Results ==
  [status : {"none", "Duplicate", "ParseFailure"}]
    \cup [status : {"Event"}, venue : Venues, channel : Channels, seq : 0..MaxSeq,
          instrument : Instruments,
          verdict : {"NO_QUOTE", "UNHEALTHY_FEED", "STALE_BOOK", "EVALUATED"}]

(* Every variable stays in its type; a feed is unhealthy exactly when it   *)
(* has a reason, and the reason never goes away.                           *)
TypeOK ==
  /\ day \in Days
  /\ last_seq \in [Venues -> [Channels -> 0..MaxSeq]]
  /\ health \in [Venues -> [Instruments -> FeedState]]
  /\ last_update \in [Venues -> [Instruments -> Nat]]
  /\ now \in Nat
  /\ applied \in [Venues -> [Channels -> SUBSET (1..MaxSeq)]]
  /\ garbled \in [Venues -> SUBSET Channels]
  /\ result \in Results

(* However the packets of a channel arrive, the books take each at most    *)
(* once and in the order of the numbers.                                   *)
InOrderOnce ==
  [][result'.status = "Event" =>
       LET r == result'
       IN  r.seq > 0 => \A k \in applied[r.venue][r.channel] : k < r.seq]_vars

Evaluated == result.status = "Event" /\ result.verdict = "EVALUATED"

(* The strategy looks at an instrument only when neither of its books      *)
(* lacks a packet: nothing about it is missing between the first packet    *)
(* seen and the last number on its channel.  A row that does not parse is  *)
(* counted and dropped; of its channel nothing is promised.                *)
NoSilentGap ==
  Evaluated =>
    \A v \in Venues :
      LET i == result.instrument
          c == ChannelOf[i]
      IN  \/ c \in garbled[v]
          \/ \A k \in 1..last_seq[v][c], j \in applied[v][c] :
               j < k /\ day[v][c][k] = i => k \in applied[v][c]

(* The strategy looks at an instrument only when both of its books were    *)
(* updated less than max_book_age_us, and a rounding microsecond, ago.     *)
FreshQuotes ==
  Evaluated =>
    \A v \in Venues :
      now - last_update[v][result.instrument] < (StrategyMaxBookAge + 1) * NsPerUs

(* FeedHealth and OrderBook each keep the time of the last event; as long  *)
(* as a feed is healthy they report the same age at any time.              *)
AgesAgree ==
  \A v \in Venues, i \in Instruments, ts \in Times :
    is_healthy(health[v][i]) =>
      book_age_us(health[v][i], ts) = quote_age(last_update[v][i], ts)
=============================================================================
