-------------------------- MODULE MarketDataProofs --------------------------
(* Theorems about MarketData, for any number of instruments, channels and  *)
(* packets, and any ages.                                                  *)
EXTENDS MarketData, ArithmeticTheorems

(* Every instrument has a channel of its own.                              *)
OwnChannels == \A i, j \in Instruments : ChannelOf[i] = ChannelOf[j] => i = j

(* No book holds a packet the tracker has not counted.                     *)
Counted ==
  \A v \in Venues, c \in Channels : \A k \in applied[v][c] : k <= last_seq[v][c]

(* A healthy feed and its book have the same last event.                   *)
Stamped ==
  \A v \in Venues, i \in Instruments :
    health[v][i].healthy =>
      last_update[v][i] > 0 /\ health[v][i].last_event = last_update[v][i]

(* A channel without a gap, all of whose rows parsed, has lost nothing     *)
(* since its first packet.                                                 *)
Gapless(v, c) ==
  \A k \in 1..last_seq[v][c], j \in applied[v][c] : j < k => k \in applied[v][c]

Complete ==
  OwnChannels =>
    \A v \in Venues, i \in Instruments :
      \/ health[v][i].reason = "SEQUENCE_GAP"
      \/ ChannelOf[i] \in garbled[v]
      \/ Gapless(v, ChannelOf[i])

(* What the gate let pass is healthy at both venues.                       *)
Gated == Evaluated => \A v \in Venues : health[v][result.instrument].healthy

(* The inductive invariant: what tracker, health and books know of each    *)
(* other.                                                                  *)
IndInv == TypeOK /\ Counted /\ Stamped /\ Complete /\ Gated
-----------------------------------------------------------------------------
(* What on_packet says determines the number it leaves behind.             *)
LEMMA Tracker ==
  ASSUME NEW last \in Nat, NEW seq \in Nat
  PROVE  /\ on_packet(last, seq) \in {"Reset", "Ok", "Duplicate", "Gap"}
         /\ on_packet(last, seq) = "Reset" => seq = 0 /\ LastAfter(last, seq) = last
         /\ on_packet(last, seq) = "Duplicate" => LastAfter(last, seq) = last
         /\ on_packet(last, seq) = "Ok" =>
              seq > 0 /\ (last = 0 \/ seq = last + 1) /\ LastAfter(last, seq) = seq
         /\ on_packet(last, seq) = "Gap" =>
              seq > last /\ LastAfter(last, seq) = seq
  BY DEF on_packet, LastAfter

(* on_event keeps the reason and stamps the state; mark_unhealthy leaves   *)
(* the feed unhealthy.                                                     *)
LEMMA Feed ==
  ASSUME NEW s \in FeedState, NEW ts \in Nat
  PROVE  /\ on_event(s, ts) \in FeedState
         /\ on_event(s, ts).last_event = ts
         /\ s.reason = "SEQUENCE_GAP" => on_event(s, ts).reason = "SEQUENCE_GAP"
         /\ mark_unhealthy(s) \in FeedState
         /\ ~mark_unhealthy(s).healthy
         /\ mark_unhealthy(s).reason = "SEQUENCE_GAP"
<1>1. CASE s = NoState
  <2>1. Existing(s) = [healthy |-> TRUE, reason |-> "none", last_event |-> 0]
    BY <1>1 DEF Existing, NewState
  <2>2. on_event(s, ts) = [healthy |-> TRUE, reason |-> "none", last_event |-> ts]
    BY <2>1 DEF on_event
  <2>3. mark_unhealthy(s) = [healthy |-> FALSE, reason |-> "SEQUENCE_GAP", last_event |-> 0]
    BY <2>1 DEF mark_unhealthy
  <2>4. /\ on_event(s, ts) \in FeedRecord
        /\ on_event(s, ts).healthy /\ on_event(s, ts).reason = "none"
    BY <2>2 DEF FeedRecord
  <2>5. /\ mark_unhealthy(s) \in FeedRecord
        /\ ~mark_unhealthy(s).healthy /\ mark_unhealthy(s).reason = "SEQUENCE_GAP"
    BY <2>3 DEF FeedRecord
  <2>6. on_event(s, ts) \in FeedState
    BY <2>4, Zenon DEF FeedState
  <2>7. mark_unhealthy(s) \in FeedState
    BY <2>5 DEF FeedState
  <2> QED BY <1>1, <2>2, <2>3, <2>5, <2>6, <2>7 DEF NoState
<1>2. CASE s # NoState
  <2>1. /\ s \in FeedRecord
        /\ s.healthy <=> s.reason = "none"
    BY <1>2 DEF FeedState
  <2>2. on_event(s, ts) = [healthy |-> IF s.reason = "none" THEN TRUE ELSE s.healthy,
                           reason |-> s.reason, last_event |-> ts]
    BY <1>2 DEF on_event, Existing
  <2>3. mark_unhealthy(s) = [healthy |-> FALSE, reason |-> "SEQUENCE_GAP",
                             last_event |-> s.last_event]
    BY <1>2 DEF mark_unhealthy, Existing
  <2>4. /\ on_event(s, ts) \in FeedRecord
        /\ on_event(s, ts).healthy <=> on_event(s, ts).reason = "none"
        /\ on_event(s, ts).last_event = ts
        /\ on_event(s, ts).reason = s.reason
    <3>1. CASE s.reason = "none"
      <4>1. on_event(s, ts) = [healthy |-> TRUE, reason |-> "none", last_event |-> ts]
        BY <2>2, <3>1
      <4> QED BY <3>1, <4>1 DEF FeedRecord
    <3>2. CASE s.reason = "SEQUENCE_GAP"
      <4>1. on_event(s, ts) = [healthy |-> FALSE, reason |-> "SEQUENCE_GAP", last_event |-> ts]
        BY <2>1, <2>2, <3>2 DEF FeedRecord
      <4> QED BY <3>2, <4>1 DEF FeedRecord
    <3> QED BY <2>1, <3>1, <3>2 DEF FeedRecord
  <2>5. /\ mark_unhealthy(s) \in FeedRecord
        /\ mark_unhealthy(s).healthy = FALSE
        /\ mark_unhealthy(s).reason = "SEQUENCE_GAP"
    BY <2>1, <2>3 DEF FeedRecord
  <2> QED BY <2>4, <2>5 DEF FeedState
<1> QED BY <1>1, <1>2
-----------------------------------------------------------------------------
(* At the start no packet has been read.                                   *)
LEMMA Initially == Init => IndInv
<1> SUFFICES ASSUME Init PROVE IndInv
  OBVIOUS
<1> USE MarketDataAssumption
<1>1. TypeOK
  BY DEF Init, TypeOK, FeedState, Results
<1>2. Counted
  BY DEF Init, Counted
<1>3. Stamped
  BY DEF Init, Stamped, NoState
<1>4. Complete
  BY DEF Init, Complete, Gapless
<1>5. Gated
  BY DEF Init, Gated, Evaluated
<1> QED BY <1>1, <1>2, <1>3, <1>4, <1>5 DEF IndInv
-----------------------------------------------------------------------------
(* A packet that is dropped as a duplicate, or that does not parse, only   *)
(* moves the tracker and the clock.                                        *)
LEMMA Dropped ==
  ASSUME IndInv, NEW v \in Venues, NEW c \in Channels, NEW seq \in 0..MaxSeq,
         NEW ts \in Times,
         DuplicatePacket(v, c, seq, ts) \/ ParseFailure(v, c, seq, ts)
  PROVE  IndInv'
<1> USE MarketDataAssumption
<1>1. /\ TypeOK /\ Counted /\ Stamped /\ Complete
      /\ Read(v, c, seq, ts)
      /\ result' \in [status : {"none", "Duplicate", "ParseFailure"}]
      /\ garbled' \in {garbled, [garbled EXCEPT ![v] = @ \cup {c}]}
      /\ UNCHANGED <<health, last_update, applied, day>>
  BY DEF IndInv, DuplicatePacket, ParseFailure, Read
<1>2. last_seq[v][c] \in 0..MaxSeq /\ last_seq[v][c] \in Nat /\ seq \in Nat
  BY <1>1 DEF TypeOK
<1>3. /\ LastAfter(last_seq[v][c], seq) \in 0..MaxSeq
      /\ LastAfter(last_seq[v][c], seq) >= last_seq[v][c]
  BY <1>2, Tracker
<1>4. last_seq' = [last_seq EXCEPT ![v][c] = LastAfter(last_seq[v][c], seq)]
  BY <1>1 DEF Read
<1>5. TypeOK'
  <2>1. last_seq' \in [Venues -> [Channels -> 0..MaxSeq]]
    BY <1>1, <1>3, <1>4 DEF TypeOK
  <2>2. now' \in Nat
    BY <1>1 DEF Read, Times
  <2>3. result' \in Results
    BY <1>1 DEF Results
  <2>4. garbled' \in [Venues -> SUBSET Channels]
    <3>1. garbled \in [Venues -> SUBSET Channels] /\ garbled[v] \cup {c} \in SUBSET Channels
      BY <1>1 DEF TypeOK
    <3>2. CASE garbled' = garbled
      BY <3>1, <3>2
    <3>3. CASE garbled' = [garbled EXCEPT ![v] = garbled[v] \cup {c}]
      BY <3>1, <3>3
    <3> QED BY <1>1, <3>2, <3>3
  <2> QED BY <1>1, <2>1, <2>2, <2>3, <2>4 DEF TypeOK
<1>6. Counted'
  <2> SUFFICES ASSUME NEW w \in Venues, NEW d \in Channels, NEW k \in applied[w][d]
               PROVE  k <= last_seq'[w][d]
    BY <1>1 DEF Counted
  <2>1. k \in Int /\ last_seq[w][d] \in Int /\ k <= last_seq[w][d]
    BY <1>1 DEF TypeOK, Counted
  <2>2. last_seq'[w][d] >= last_seq[w][d] /\ last_seq'[w][d] \in Int
    BY <1>1, <1>3, <1>4 DEF TypeOK
  <2> QED BY <2>1, <2>2
<1>7. Stamped'
  BY <1>1 DEF Stamped
<1>8. Complete'
  <2> SUFFICES ASSUME OwnChannels, NEW w \in Venues, NEW j \in Instruments,
                      health[w][j].reason # "SEQUENCE_GAP",
                      ChannelOf[j] \notin garbled'[w]
               PROVE  Gapless(w, ChannelOf[j])'
    BY <1>1 DEF Complete, OwnChannels
  <2>1. ChannelOf[j] \in Channels /\ ChannelOf[j] \notin garbled[w]
    BY <1>1, ZenonT(60) DEF TypeOK
  <2>2. Gapless(w, ChannelOf[j])
    BY <1>1, <2>1 DEF Complete
  <2>3. last_seq'[w][ChannelOf[j]] = last_seq[w][ChannelOf[j]]
    <3>1. CASE DuplicatePacket(v, c, seq, ts)
      BY <1>1, <1>2, <1>4, <2>1, <3>1, Tracker DEF DuplicatePacket, TypeOK
    <3>2. CASE ParseFailure(v, c, seq, ts)
      <4>1. garbled' = [garbled EXCEPT ![v] = garbled[v] \cup {c}]
        BY <3>2 DEF ParseFailure
      <4>2. ~(w = v /\ ChannelOf[j] = c)
        BY <1>1, <4>1 DEF TypeOK
      <4> QED BY <1>1, <1>4, <2>1, <4>2 DEF TypeOK
    <3> QED BY <3>1, <3>2
  <2> QED BY <1>1, <2>2, <2>3 DEF Gapless
<1>9. Gated'
  BY <1>1 DEF Gated, Evaluated
<1> QED BY <1>5, <1>6, <1>7, <1>8, <1>9 DEF IndInv
-----------------------------------------------------------------------------
(* A packet that reaches the books.                                        *)
LEMMA Taken ==
  ASSUME IndInv, NEW v \in Venues, NEW c \in Channels, NEW seq \in 0..MaxSeq,
         NEW i \in Instruments, NEW ts \in Times, ChannelOf[i] = c,
         Event(v, c, seq, i, ts)
  PROVE  IndInv'
<1> USE MarketDataAssumption
<1> DEFINE status == on_packet(last_seq[v][c], seq)
           last == LastAfter(last_seq[v][c], seq)
           state == IF status = "Gap" THEN mark_unhealthy(health[v][i])
                    ELSE on_event(health[v][i], ts)
<1>1. TypeOK /\ Counted /\ Stamped /\ Complete
  BY DEF IndInv
<1>2. /\ status # "Duplicate"
      /\ day' = day /\ garbled' = garbled /\ now' = ts /\ now' \in Nat /\ ts > 0 /\ ts \in Nat
      /\ last_seq' = [last_seq EXCEPT ![v][c] = last]
      /\ health' = [health EXCEPT ![v][i] = state]
      /\ last_update' = [last_update EXCEPT ![v][i] = ts]
      /\ applied' = [applied EXCEPT ![v][c] = IF seq > 0 THEN @ \cup {seq} ELSE @]
      /\ result' = [status |-> "Event", venue |-> v, channel |-> c, seq |-> seq,
                    instrument |-> i, verdict |-> Gate(health', last_update', i, ts)]
  BY DEF Event, Read, Times
<1>3. last_seq[v][c] \in 0..MaxSeq /\ last_seq[v][c] \in Nat /\ seq \in Nat
  BY <1>1 DEF TypeOK
<1>4. /\ last \in 0..MaxSeq /\ last >= last_seq[v][c] /\ last >= seq
      /\ status \in {"Reset", "Ok", "Gap"}
      /\ status = "Reset" => seq = 0 /\ last = last_seq[v][c]
      /\ status = "Ok" => seq > 0 /\ (last_seq[v][c] = 0 \/ seq = last_seq[v][c] + 1) /\ last = seq
      /\ status = "Gap" => seq > last_seq[v][c] /\ last = seq
  BY <1>2, <1>3, Tracker
<1>5. /\ health[v][i] \in FeedState /\ state \in FeedState
      /\ state.healthy => status # "Gap" /\ state.last_event = ts
      /\ status = "Gap" => state.reason = "SEQUENCE_GAP"
      /\ health[v][i].reason = "SEQUENCE_GAP" => state.reason = "SEQUENCE_GAP"
  <2>1. health[v][i] \in FeedState
    BY <1>1 DEF TypeOK
  <2>2. CASE status = "Gap"
    BY <2>1, <2>2, <1>2, Feed
  <2>3. CASE status # "Gap"
    BY <2>1, <2>3, <1>2, Feed
  <2> QED BY <2>1, <2>2, <2>3
<1> HIDE DEF state, last, status
<1>6. TypeOK'
  <2>1. last_seq' \in [Venues -> [Channels -> 0..MaxSeq]]
    BY <1>1, <1>2, <1>4 DEF TypeOK
  <2>2. health' \in [Venues -> [Instruments -> FeedState]]
    BY <1>1, <1>2, <1>5 DEF TypeOK
  <2>3. last_update' \in [Venues -> [Instruments -> Nat]]
    BY <1>1, <1>2 DEF TypeOK
  <2>4. applied' \in [Venues -> [Channels -> SUBSET (1..MaxSeq)]]
    <3>1. (IF seq > 0 THEN applied[v][c] \cup {seq} ELSE applied[v][c]) \in SUBSET (1..MaxSeq)
      BY <1>1 DEF TypeOK
    <3> QED BY <1>1, <1>2, <3>1 DEF TypeOK
  <2>5. Gate(health', last_update', i, ts)
          \in {"NO_QUOTE", "UNHEALTHY_FEED", "STALE_BOOK", "EVALUATED"}
    BY DEF Gate
  <2>6. result' \in Results
    BY <1>2, <2>5 DEF Results
  <2> QED BY <1>1, <1>2, <2>1, <2>2, <2>3, <2>4, <2>6 DEF TypeOK
<1>7. \A w \in Venues, d \in Channels :
        /\ last_seq'[w][d] = IF w = v /\ d = c THEN last ELSE last_seq[w][d]
        /\ applied'[w][d] = IF w = v /\ d = c /\ seq > 0 THEN applied[w][d] \cup {seq}
                            ELSE applied[w][d]
        /\ last_seq[w][d] \in Nat
        /\ \A k \in applied[w][d] : k \in Nat /\ k > 0
  <2> SUFFICES ASSUME NEW w \in Venues, NEW d \in Channels
               PROVE  /\ last_seq'[w][d] = IF w = v /\ d = c THEN last ELSE last_seq[w][d]
                      /\ applied'[w][d] = IF w = v /\ d = c /\ seq > 0
                                          THEN applied[w][d] \cup {seq} ELSE applied[w][d]
                      /\ last_seq[w][d] \in Nat
                      /\ \A k \in applied[w][d] : k \in Nat /\ k > 0
    OBVIOUS
  <2>1. last_seq'[w][d] = IF w = v /\ d = c THEN last ELSE last_seq[w][d]
    BY <1>1, <1>2 DEF TypeOK
  <2>2. applied'[w][d] = IF w = v /\ d = c /\ seq > 0
                         THEN applied[w][d] \cup {seq} ELSE applied[w][d]
    BY <1>1, <1>2 DEF TypeOK
  <2>3. last_seq[w][d] \in Nat
    BY <1>1 DEF TypeOK
  <2>4. \A k \in applied[w][d] : k \in Nat /\ k > 0
    BY <1>1 DEF TypeOK
  <2> QED BY <2>1, <2>2, <2>3, <2>4
<1>8. \A w \in Venues, j \in Instruments :
        /\ health'[w][j] = IF w = v /\ j = i THEN state ELSE health[w][j]
        /\ last_update'[w][j] = IF w = v /\ j = i THEN ts ELSE last_update[w][j]
  BY <1>1, <1>2 DEF TypeOK
<1>9. Counted'
  <2> SUFFICES ASSUME NEW w \in Venues, NEW d \in Channels, NEW k \in applied'[w][d]
               PROVE  k <= last_seq'[w][d]
    BY DEF Counted
  <2>1. CASE k \in applied[w][d]
    <3>1. k <= last_seq[w][d]
      BY <1>1, <2>1 DEF Counted
    <3>2. k \in Nat /\ last_seq[w][d] \in Nat
      BY <1>7, <2>1
    <3>3. last_seq'[w][d] = IF w = v /\ d = c THEN last ELSE last_seq[w][d]
      BY <1>7
    <3> QED BY <1>3, <1>4, <3>1, <3>2, <3>3
  <2>2. CASE k \notin applied[w][d]
    <3>1. applied'[w][d] = IF w = v /\ d = c /\ seq > 0 THEN applied[w][d] \cup {seq}
                           ELSE applied[w][d]
      BY <1>7
    <3>2. w = v /\ d = c /\ k = seq
      BY <2>2, <3>1
    <3> QED BY <1>4, <1>7, <3>2
  <2> QED BY <2>1, <2>2
<1>10. Stamped'
  BY <1>1, <1>2, <1>5, <1>8 DEF Stamped
<1>11. Complete'
  <2> SUFFICES ASSUME OwnChannels, NEW w \in Venues, NEW j \in Instruments,
                      health'[w][j].reason # "SEQUENCE_GAP",
                      ChannelOf[j] \notin garbled'[w]
               PROVE  Gapless(w, ChannelOf[j])'
    BY DEF Complete, OwnChannels
  <2>1. health[w][j].reason # "SEQUENCE_GAP" /\ Gapless(w, ChannelOf[j])
    BY <1>1, <1>2, <1>5, <1>8 DEF Complete
  <2>2. CASE w = v /\ j = i
    <3>1. status # "Gap"
      BY <1>5, <1>8, <2>2
    <3> SUFFICES ASSUME NEW k \in 1..last_seq'[v][c], NEW b \in applied'[v][c], b < k
                 PROVE  k \in applied'[v][c]
      BY <2>2 DEF Gapless
    <3>2. CASE status = "Reset"
      BY <1>3, <1>4, <1>7, <2>1, <2>2, <3>2 DEF Gapless
    <3>3. CASE status = "Ok"
      <4>1. last_seq'[v][c] = seq /\ seq > 0 /\ applied'[v][c] = applied[v][c] \cup {seq}
        BY <1>4, <1>7, <3>3
      <4>2. k = seq \/ (k < seq /\ b \in applied[v][c])
        BY <1>3, <4>1
      <4>3. CASE k < seq /\ b \in applied[v][c]
        <5>1. 0 < b /\ b <= last_seq[v][c] /\ b \in Nat
          <6>1. b <= last_seq[v][c]
            BY <1>1, <4>3 DEF Counted
          <6> QED BY <1>7, <4>3, <6>1
        <5>2. seq = last_seq[v][c] + 1
          BY <1>3, <1>4, <3>3, <5>1
        <5>3. k \in 1..last_seq[v][c]
          BY <1>3, <4>3, <5>2
        <5> QED BY <2>1, <2>2, <4>1, <4>3, <5>3 DEF Gapless
      <4> QED BY <4>1, <4>2, <4>3
    <3> QED BY <1>4, <3>1, <3>2, <3>3
  <2>3. CASE ~(w = v /\ j = i)
    <3>1. ChannelOf[j] \in Channels /\ ~(w = v /\ ChannelOf[j] = c)
      BY <2>3 DEF OwnChannels
    <3>2. /\ last_seq'[w][ChannelOf[j]] = last_seq[w][ChannelOf[j]]
          /\ applied'[w][ChannelOf[j]] = applied[w][ChannelOf[j]]
      BY <1>7, <3>1, ZenonT(60)
    <3> QED BY <2>1, <3>2 DEF Gapless
  <2> QED BY <2>2, <2>3
<1>12. Gated'
  <2> SUFFICES ASSUME Gate(health', last_update', i, ts) = "EVALUATED", NEW w \in Venues
               PROVE  health'[w][i].healthy
    BY <1>2 DEF Gated, Evaluated
  <2> QED BY DEF Gate, is_healthy
<1> QED BY <1>6, <1>9, <1>10, <1>11, <1>12 DEF IndInv

(* IndInv is an invariant of the market data path.                         *)
THEOREM Invariance == Spec => []IndInv
<1>1. IndInv /\ [Next]_vars => IndInv'
  <2> SUFFICES ASSUME IndInv, [Next]_vars PROVE IndInv'
    OBVIOUS
  <2>1. CASE UNCHANGED vars
    BY <2>1 DEF vars, IndInv, TypeOK, Counted, Stamped, Complete, Gapless, OwnChannels,
                Gated, Evaluated
  <2>2. ASSUME NEW v \in Venues, NEW c \in Channels, NEW seq \in 0..MaxSeq, NEW ts \in Times,
               DuplicatePacket(v, c, seq, ts) \/ ParseFailure(v, c, seq, ts)
        PROVE  IndInv'
    BY <2>2, Dropped
  <2>3. ASSUME NEW v \in Venues, NEW c \in Channels, NEW seq \in 0..MaxSeq, NEW ts \in Times,
               NEW i \in Instruments,
               IF seq > 0 THEN i = day[v][c][seq] ELSE ChannelOf[i] = c,
               Event(v, c, seq, i, ts)
        PROVE  IndInv'
    <3>1. ChannelOf[i] = c
      <4>1. CASE seq > 0
        <5>1. seq \in 1..MaxSeq
          BY <4>1, MarketDataAssumption
        <5> QED BY <2>3, <4>1, <5>1 DEF IndInv, TypeOK, Days
      <4>2. CASE ~(seq > 0)
        BY <2>3, <4>2
      <4> QED BY <4>1, <4>2
    <3> QED BY <2>3, <3>1, Taken
  <2> QED BY <2>1, <2>2, <2>3 DEF Next
<1> QED BY <1>1, Initially, PTL DEF Spec

(* The market data path keeps its types, health reasons included.          *)
THEOREM TypeCorrect == Spec => []TypeOK
<1>1. IndInv => TypeOK
  BY DEF IndInv
<1> QED BY <1>1, Invariance, PTL

(* FeedHealth and the books agree on the age of every healthy feed.        *)
THEOREM AgesHold == Spec => []AgesAgree
<1>1. IndInv => AgesAgree
  <2> SUFFICES ASSUME IndInv, NEW v \in Venues, NEW i \in Instruments, NEW ts \in Times,
                      health[v][i].healthy
               PROVE  book_age_us(health[v][i], ts) = quote_age(last_update[v][i], ts)
    BY DEF AgesAgree, is_healthy
  <2>1. /\ last_update[v][i] > 0 /\ last_update[v][i] \in Nat
        /\ health[v][i].last_event = last_update[v][i]
    BY DEF IndInv, Stamped, TypeOK
  <2> QED BY <2>1 DEF book_age_us, quote_age, Times
<1> QED BY <1>1, Invariance, PTL

(* With a channel per instrument, the strategy never looks at a book that  *)
(* lacks a packet, whatever is lost, late or repeated, unless a row of the *)
(* book's channel did not parse.                                           *)
THEOREM GaplessHolds ==
  ASSUME OwnChannels
  PROVE  Spec => []NoSilentGap
<1>1. ASSUME IndInv PROVE NoSilentGap
  <2> SUFFICES ASSUME Evaluated, NEW v \in Venues
               PROVE  \/ ChannelOf[result.instrument] \in garbled[v]
                      \/ Gapless(v, ChannelOf[result.instrument])
    BY DEF NoSilentGap, Gapless
  <2>1. result.instrument \in Instruments
    BY <1>1 DEF IndInv, TypeOK, Results, Evaluated
  <2>2. health[v][result.instrument].healthy
    BY <1>1 DEF IndInv, Gated
  <2>3. health[v][result.instrument] \in FeedState
    BY <1>1, <2>1 DEF IndInv, TypeOK
  <2>4. health[v][result.instrument].reason # "SEQUENCE_GAP"
    BY <2>2, <2>3 DEF FeedState, NoState
  <2> QED BY <1>1, <2>1, <2>4 DEF IndInv, Complete
<1>2. IndInv => NoSilentGap
  BY <1>1
<1> QED BY <1>2, Invariance, PTL

(* Each packet is applied at most once and in order: a consequence of what *)
(* the tracker has counted.                                                *)
THEOREM OrderHolds == Spec => InOrderOnce
<1>1. ASSUME IndInv, Next, result'.status = "Event", result'.seq > 0,
             NEW k \in applied[result'.venue][result'.channel]
      PROVE  k < result'.seq
  <2>1. PICK v \in Venues, c \in Channels, seq \in 0..MaxSeq, ts \in Times, i \in Instruments :
          Event(v, c, seq, i, ts)
    BY <1>1 DEF Next, vars, DuplicatePacket, ParseFailure
  <2>2. /\ result'.venue = v /\ result'.channel = c /\ result'.seq = seq
        /\ on_packet(last_seq[v][c], seq) # "Duplicate"
    BY <2>1 DEF Event
  <2>3. /\ last_seq[v][c] \in Nat /\ k \in Nat /\ k > 0 /\ k <= last_seq[v][c] /\ seq \in Nat
    BY <1>1, <2>2 DEF IndInv, TypeOK, Counted
  <2> QED BY <1>1, <2>2, <2>3, Tracker
<1>2. IndInv /\ [Next]_vars =>
        [result'.status = "Event" =>
           LET r == result'
           IN  r.seq > 0 => \A k \in applied[r.venue][r.channel] : k < r.seq]_vars
  BY <1>1
<1> QED BY <1>2, Invariance, PTL DEF InOrderOnce, Spec
-----------------------------------------------------------------------------
(* The replay is too short for the age in microseconds to outgrow its      *)
(* AgeBits.                                                                *)
AgeNeverWraps == \A ns \in 0..MaxTime : ToAge(ns) = ns \div NsPerUs

(* No book was updated after the last packet was read.                     *)
Past == \A v \in Venues, i \in Instruments : last_update[v][i] <= now

(* An age is rounded down by less than a microsecond.                      *)
LEMMA Rounding ==
  ASSUME NEW ns \in Nat, NEW us \in Nat, ns \div NsPerUs <= us
  PROVE  ns < (us + 1) * NsPerUs
<1>1. NsPerUs \in Nat /\ NsPerUs > 0
  BY MarketDataAssumption
<1>2. /\ ns \div NsPerUs \in Int /\ ns % NsPerUs \in 0..(NsPerUs - 1)
      /\ ns = NsPerUs * (ns \div NsPerUs) + (ns % NsPerUs)
  BY <1>1, DivMod
<1> DEFINE q == ns \div NsPerUs
           r == ns % NsPerUs
<1>3. q \in Int /\ r \in 0..(NsPerUs - 1) /\ ns = NsPerUs * q + r /\ q <= us
  BY <1>2
<1> HIDE DEF q, r
<1>4. NsPerUs * q <= NsPerUs * us
  <2>1. us - q \in Nat /\ NsPerUs * us = NsPerUs * q + NsPerUs * (us - q)
    BY <1>1, <1>3
  <2>2. \A d \in Nat : NsPerUs * d >= 0 /\ NsPerUs * d \in Int
    BY <1>1
  <2> QED BY <1>1, <1>3, <2>1, <2>2
<1> QED BY <1>1, <1>3, <1>4

(* As long as the age does not wrap, the strategy never looks at a book    *)
(* that has been silent too long, at either venue, whichever venue's event *)
(* made it look.                                                           *)
THEOREM FreshHolds ==
  ASSUME AgeNeverWraps
  PROVE  Spec => []FreshQuotes
<1> DEFINE Inv == Past /\ FreshQuotes
<1> USE MarketDataAssumption
<1>1. Init => Inv
  BY DEF Init, Past, FreshQuotes, Evaluated
<1>2. IndInv /\ Inv /\ [Next]_vars => Inv'
  <2> SUFFICES ASSUME IndInv, Inv, [Next]_vars PROVE Inv'
    OBVIOUS
  <2>1. CASE UNCHANGED vars
    BY <2>1 DEF vars, Past, FreshQuotes, Evaluated
  <2>2. ASSUME NEW v \in Venues, NEW c \in Channels, NEW seq \in 0..MaxSeq, NEW ts \in Times,
               DuplicatePacket(v, c, seq, ts) \/ ParseFailure(v, c, seq, ts)
        PROVE  Inv'
    <3>1. /\ now' = ts /\ ts >= now /\ last_update' = last_update
          /\ result'.status \in {"Duplicate", "ParseFailure"}
      BY <2>2 DEF DuplicatePacket, ParseFailure, Read
    <3>2. Past'
      BY <3>1 DEF IndInv, TypeOK, Past, Times
    <3> QED BY <3>1, <3>2 DEF FreshQuotes, Evaluated
  <2>3. ASSUME NEW v \in Venues, NEW c \in Channels, NEW seq \in 0..MaxSeq, NEW ts \in Times,
               NEW i \in Instruments, Event(v, c, seq, i, ts)
        PROVE  Inv'
    <3>1. /\ now' = ts /\ ts >= now /\ last_update' = [last_update EXCEPT ![v][i] = ts]
          /\ result'.instrument = i /\ result'.verdict = Gate(health', last_update', i, ts)
      BY <2>3 DEF Event, Read
    <3>2. ts \in Nat /\ now \in Nat /\ last_update \in [Venues -> [Instruments -> Nat]]
      BY DEF IndInv, TypeOK, Times
    <3>3. last_update' \in [Venues -> [Instruments -> Nat]]
      BY <3>1, <3>2
    <3>4. Past'
      <4> SUFFICES ASSUME NEW w \in Venues, NEW j \in Instruments
                   PROVE  last_update'[w][j] <= ts
        BY <3>1 DEF Past
      <4>1. last_update[w][j] <= now /\ last_update[w][j] \in Nat
        BY <3>2 DEF Past
      <4> QED BY <3>1, <3>2, <4>1
    <3>5. FreshQuotes'
      <4> SUFFICES ASSUME Gate(health', last_update', i, ts) = "EVALUATED", NEW w \in Venues
                   PROVE  ts - last_update'[w][i] < (StrategyMaxBookAge + 1) * NsPerUs
        BY <3>1 DEF FreshQuotes, Evaluated
      <4> DEFINE u == last_update'[w][i]
                 ns == ts - u
      <4>1. u # 0 /\ ~(quote_age(u, ts) > StrategyMaxBookAge)
        BY DEF Gate
      <4>2. u \in Nat /\ u <= ts
        BY <3>1, <3>3, <3>4 DEF Past
      <4>3. ns \in 0..MaxTime /\ ns \in Nat
        <5> HIDE DEF u
        <5> QED BY <3>2, <4>1, <4>2 DEF Times
      <4>4. quote_age(u, ts) = ns \div NsPerUs
        <5>1. quote_age(u, ts) = ToAge(ns)
          <6> HIDE DEF u
          <6> QED BY <3>2, <4>1, <4>2 DEF quote_age
        <5>2. ToAge(ns) = ns \div NsPerUs
          BY <4>3 DEF AgeNeverWraps
        <5> QED BY <5>1, <5>2
      <4>5. ns \div NsPerUs \in Int
        BY <4>3, DivMod
      <4>6. ns \div NsPerUs <= StrategyMaxBookAge
        BY <4>1, <4>4, <4>5
      <4> HIDE DEF ns
      <4>7. ns < (StrategyMaxBookAge + 1) * NsPerUs
        BY <4>3, <4>6, Rounding
      <4> QED BY <4>7 DEF ns
    <3> QED BY <3>4, <3>5
  <2> QED BY <2>1, <2>2, <2>3 DEF Next
<1>3. Inv => FreshQuotes
  OBVIOUS
<1> QED BY <1>1, <1>2, <1>3, Invariance, PTL DEF Spec
=============================================================================
