------------------------- MODULE OrderManagerProofs -------------------------
(* Theorems about OrderManager, for any intents and prices and any number  *)
(* of orders and of reports delivered twice.                               *)
EXTENDS OrderManager, ArithmeticTheorems, SequenceTheorems

States == {"Sent", "Acked", "Partial", "Filled", "Rejected", "Expired", "Canceled"}
Orders ==
  [intent : Intents, filled : Nat, state : States, done : BOOLEAN, err : {"none", "REASON"}]
FillRecords == [id : Nat, side : {"Buy", "Sell"}, px : Nat, qty : Nat]
Reports ==
  [id : Nat, n : Nat, type : {"Ack", "Fill", "Reject", "Expire", "Cancel"},
   qty : Nat, px : Nat, reason : {"REASON"}]
Managers ==
  [orders : Seq(Orders), fills : Seq(FillRecords), net : [Instruments -> Int],
   cash : [Instruments -> Int]]

TypeOK ==
  /\ oms \in Managers
  /\ consumed \in 0..Len(oms.fills) /\ handed \in Seq(FillRecords)
  /\ exch \in Seq(Seq(Reports))
  /\ calling \in 0..Len(exch) /\ returned \in Seq(Reports)
  /\ inflight \in SUBSET Reports /\ doubled \in SUBSET Reports

(* Fills are of orders that are known.                                     *)
Known(m) == \A k \in DOMAIN m.fills : m.fills[k].id \in DOMAIN m.orders

(* Every report is one the exchange has made, and submit has those that    *)
(* come first and nobody else.                                             *)
Traced ==
  /\ Len(oms.orders) = Len(exch)
  /\ \A r \in inflight \cup ToSet(returned) \cup doubled :
       r.id \in DOMAIN exch /\ r.n \in DOMAIN exch[r.id] /\ r = exch[r.id][r.n]
  /\ returned # <<>> =>
       /\ calling # 0 /\ Len(returned) <= Len(exch[calling])
       /\ \A k \in DOMAIN returned : returned[k] = exch[calling][k] /\ returned[k] \notin inflight
-----------------------------------------------------------------------------
(* What the reports of s at the places D fill, and which of them end the   *)
(* order, or acknowledge or fail it.                                       *)
Filled(s, D) == SumFunctionOnSet([k \in DOMAIN s |-> s[k].qty], D)
Has(s, D, types) == \E k \in D : s[k].type \in types
EndTypes == {"Reject", "Expire", "Cancel"}

(* The reports s on order id, whose quantity is qty: at most one end, and  *)
(* that only where the fills leave a rest; a cancellation comes last.      *)
Shape(id, s, qty) ==
  /\ \A k \in DOMAIN s :
       /\ s[k].id = id /\ s[k].n = k
       /\ s[k].qty > 0 <=> s[k].type = "Fill"
       /\ s[k].type = "Cancel" => k = Len(s)
       /\ s[k].type = "Reject" => Filled(s, DOMAIN s) = 0
  /\ \A j, k \in DOMAIN s : s[j].type \in EndTypes /\ s[k].type \in EndTypes => j = k
  /\ Filled(s, DOMAIN s) <= qty
  /\ Has(s, DOMAIN s, EndTypes) <=> Filled(s, DOMAIN s) < qty

(* The order o once the reports of s at the places D have come, in any     *)
(* order and the fills among them once.                                    *)
Follows(o, s, D) ==
  LET filled == Filled(s, D)
      ended == Has(s, D, EndTypes)
  IN  /\ o.filled = filled
      /\ o.done <=> filled >= o.intent.qty \/ ended
      /\ o.err = IF Has(s, D, {"Reject", "Expire"}) THEN "REASON" ELSE "none"
      /\ filled = 0 /\ ~ended =>
           o.state = IF Has(s, D, {"Ack"}) THEN "Acked" ELSE "Sent"
      /\ filled = 0 /\ ended =>
           o.state = IF Has(s, D, {"Cancel"}) THEN "Canceled"
                     ELSE IF Has(s, D, {"Reject"}) THEN "Rejected" ELSE "Expired"
      /\ filled > 0 =>
           IF filled >= o.intent.qty THEN o.state = "Filled"
           ELSE o.state = "Partial" \/ (o.state = "Canceled" /\ Has(s, D, {"Cancel"}))

(* The reports on an order that have come at least once.                   *)
Delivered(id) ==
  {k \in DOMAIN exch[id] : \/ exch[id][k] \notin inflight \cup ToSet(returned)
                           \/ exch[id][k] \in doubled}

Once(id) == \A r \in doubled : r.id = id => r.type # "Fill"

Tracked ==
  \A id \in DOMAIN exch :
    /\ Shape(id, exch[id], oms.orders[id].intent.qty)
    /\ Once(id) => Follows(oms.orders[id], exch[id], Delivered(id))

(* The inductive invariant.                                                *)
IndInv ==
  /\ TypeOK /\ Known(oms) /\ Balanced(oms) /\ Traced /\ Tracked
  /\ handed = SubSeq(oms.fills, 1, consumed)
-----------------------------------------------------------------------------
(* submit applies the reports that send returned one after the other.      *)
Reported(h, b, s) ==
  h = [t \in SUBSET DOMAIN s |->
         IF t = {} THEN b ELSE on_report(h[t \ {Max(t)}], s[Max(t)])]

LEMMA ReportedUnfold ==
  ASSUME NEW b, NEW s
  PROVE  FoldLeft(on_report, b, s) = (CHOOSE h : Reported(h, b, s))[DOMAIN s]
BY DEF FoldLeft, MapThenFoldSet, Reported

LEMMA ReportedAlong ==
  ASSUME NEW R, NEW X, NEW s \in Seq(R), NEW b \in X,
         \A x \in X, r \in R : on_report(x, r) \in X,
         NEW Z, <<0, b>> \in Z,
         \A j \in 0..(Len(s) - 1), x \in X :
           <<j, x>> \in Z => <<j + 1, on_report(x, s[j + 1])>> \in Z
  PROVE  <<Len(s), FoldLeft(on_report, b, s)>> \in Z
<1> DEFINE g == [p \in X \X R |-> on_report(p[1], p[2])]
<1>1. g \in [X \X R -> X]
  OBVIOUS
<1>2. \A x \in X, r \in R : g[<<x, r>>] = on_report(x, r)
  OBVIOUS
<1> HIDE DEF g
<1>3. PICK f : FoldsAll(f, g, b, s, X)
  BY <1>1, FoldsExist
<1>4. <<Len(s), f[DOMAIN s]>> \in Z
  <2>1. \A j \in 0..(Len(s) - 1), x \in X :
          <<j, x>> \in Z => <<j + 1, g[<<x, s[j + 1]>>]>> \in Z
    <3>1. \A j \in 0..(Len(s) - 1) : s[j + 1] \in R
      OBVIOUS
    <3> QED BY <1>2, <3>1
  <2> QED BY <1>3, <2>1, FoldAlong
<1>5. ASSUME NEW t \in SUBSET DOMAIN s, t # {}
      PROVE  /\ Max(t) \in t /\ t \ {Max(t)} \in SUBSET DOMAIN s
             /\ f[t] = on_report(f[t \ {Max(t)}], s[Max(t)])
  <2>1. Max(t) \in t /\ s[Max(t)] \in R
    BY <1>5, Places
  <2>2. f[t \ {Max(t)}] \in X /\ f[t] = g[<<f[t \ {Max(t)}], s[Max(t)]>>]
    BY <1>3, <1>5 DEF FoldsAll, FoldTerm
  <2> QED BY <1>2, <2>1, <2>2
<1>6. Reported(f, b, s)
  <2>1. f = [t \in SUBSET DOMAIN s |-> f[t]] /\ f[{}] = b
    BY <1>3 DEF FoldsAll, FoldTerm
  <2>2. \A t \in SUBSET DOMAIN s :
          f[t] = IF t = {} THEN b ELSE on_report(f[t \ {Max(t)}], s[Max(t)])
    BY <1>5, <2>1
  <2> QED BY <2>1, <2>2 DEF Reported
<1>7. ASSUME NEW h, Reported(h, b, s) PROVE h[DOMAIN s] = f[DOMAIN s]
  <2> DEFINE P == {t \in SUBSET DOMAIN s : h[t] = f[t]}
  <2>1. \A t \in SUBSET DOMAIN s :
          h[t] = IF t = {} THEN b ELSE on_report(h[t \ {Max(t)}], s[Max(t)])
    BY <1>7 DEF Reported
  <2>2. {} \in P
    BY <1>3, <2>1 DEF FoldsAll, FoldTerm
  <2>3. ASSUME NEW t \in SUBSET DOMAIN s, t # {}, \A x \in t : t \ {x} \in P PROVE t \in P
    <3>1. h[t \ {Max(t)}] = f[t \ {Max(t)}]
      BY <1>5, <2>3
    <3> QED BY <1>5, <2>1, <2>3, <3>1
  <2>4. IsFiniteSet(DOMAIN s)
    BY Places
  <2>5. SUBSET DOMAIN s \subseteq P
    <3> DEFINE S == DOMAIN s
    <3>1. \A t \in SUBSET S : t # {} /\ (\A x \in t : t \ {x} \in P) => t \in P
      BY <2>3
    <3>2. {} \in P /\ IsFiniteSet(S)
      BY <2>2, <2>4
    <3>3. SUBSET S \subseteq P
      <4> HIDE DEF P, S
      <4> QED BY ONLY <3>1, <3>2, InductionOnSubsets
    <3> QED BY <3>3
  <2> QED BY <2>5
<1>8. FoldLeft(on_report, b, s) = f[DOMAIN s]
  <2>1. Reported(CHOOSE h : Reported(h, b, s), b, s)
    BY <1>6
  <2> QED BY <1>7, <2>1, ReportedUnfold
<1> QED BY <1>4, <1>8
-----------------------------------------------------------------------------
(* The reports on an order in the order in which the exchange made them.   *)
InOrder(h, b, s) ==
  h = [t \in SUBSET DOMAIN s |->
         IF t = {} THEN b ELSE OrderAfter(h[t \ {Max(t)}], s[Max(t)])]

LEMMA InOrderUnfold ==
  ASSUME NEW b, NEW s
  PROVE  FoldLeft(OrderAfter, b, s) = (CHOOSE h : InOrder(h, b, s))[DOMAIN s]
BY DEF FoldLeft, MapThenFoldSet, InOrder

LEMMA InOrderAlong ==
  ASSUME NEW R, NEW X, NEW s \in Seq(R), NEW b \in X,
         \A x \in X, r \in R : OrderAfter(x, r) \in X,
         NEW Z, <<0, b>> \in Z,
         \A j \in 0..(Len(s) - 1), x \in X :
           <<j, x>> \in Z => <<j + 1, OrderAfter(x, s[j + 1])>> \in Z
  PROVE  <<Len(s), FoldLeft(OrderAfter, b, s)>> \in Z
<1> DEFINE g == [p \in X \X R |-> OrderAfter(p[1], p[2])]
<1>1. g \in [X \X R -> X]
  OBVIOUS
<1>2. \A x \in X, r \in R : g[<<x, r>>] = OrderAfter(x, r)
  OBVIOUS
<1> HIDE DEF g
<1>3. PICK f : FoldsAll(f, g, b, s, X)
  BY <1>1, FoldsExist
<1>4. <<Len(s), f[DOMAIN s]>> \in Z
  <2>1. \A j \in 0..(Len(s) - 1), x \in X :
          <<j, x>> \in Z => <<j + 1, g[<<x, s[j + 1]>>]>> \in Z
    <3>1. \A j \in 0..(Len(s) - 1) : s[j + 1] \in R
      OBVIOUS
    <3> QED BY <1>2, <3>1
  <2> QED BY <1>3, <2>1, FoldAlong
<1>5. ASSUME NEW t \in SUBSET DOMAIN s, t # {}
      PROVE  /\ Max(t) \in t /\ t \ {Max(t)} \in SUBSET DOMAIN s
             /\ f[t] = OrderAfter(f[t \ {Max(t)}], s[Max(t)])
  <2>1. Max(t) \in t /\ s[Max(t)] \in R
    BY <1>5, Places
  <2>2. f[t \ {Max(t)}] \in X /\ f[t] = g[<<f[t \ {Max(t)}], s[Max(t)]>>]
    BY <1>3, <1>5 DEF FoldsAll, FoldTerm
  <2> QED BY <1>2, <2>1, <2>2
<1>6. InOrder(f, b, s)
  <2>1. f = [t \in SUBSET DOMAIN s |-> f[t]] /\ f[{}] = b
    BY <1>3 DEF FoldsAll, FoldTerm
  <2>2. \A t \in SUBSET DOMAIN s :
          f[t] = IF t = {} THEN b ELSE OrderAfter(f[t \ {Max(t)}], s[Max(t)])
    BY <1>5, <2>1
  <2> QED BY <2>1, <2>2 DEF InOrder
<1>7. ASSUME NEW h, InOrder(h, b, s) PROVE h[DOMAIN s] = f[DOMAIN s]
  <2> DEFINE P == {t \in SUBSET DOMAIN s : h[t] = f[t]}
  <2>1. \A t \in SUBSET DOMAIN s :
          h[t] = IF t = {} THEN b ELSE OrderAfter(h[t \ {Max(t)}], s[Max(t)])
    BY <1>7 DEF InOrder
  <2>2. {} \in P
    BY <1>3, <2>1 DEF FoldsAll, FoldTerm
  <2>3. ASSUME NEW t \in SUBSET DOMAIN s, t # {}, \A x \in t : t \ {x} \in P PROVE t \in P
    <3>1. h[t \ {Max(t)}] = f[t \ {Max(t)}]
      BY <1>5, <2>3
    <3> QED BY <1>5, <2>1, <2>3, <3>1
  <2>4. IsFiniteSet(DOMAIN s)
    BY Places
  <2>5. SUBSET DOMAIN s \subseteq P
    <3> DEFINE S == DOMAIN s
    <3>1. \A t \in SUBSET S : t # {} /\ (\A x \in t : t \ {x} \in P) => t \in P
      BY <2>3
    <3>2. {} \in P /\ IsFiniteSet(S)
      BY <2>2, <2>4
    <3>3. SUBSET S \subseteq P
      <4> HIDE DEF P, S
      <4> QED BY ONLY <3>1, <3>2, InductionOnSubsets
    <3> QED BY <3>3
  <2> QED BY <2>5
<1>8. FoldLeft(OrderAfter, b, s) = f[DOMAIN s]
  <2>1. InOrder(CHOOSE h : InOrder(h, b, s), b, s)
    BY <1>6
  <2> QED BY <1>7, <2>1, InOrderUnfold
<1> QED BY <1>4, <1>8
-----------------------------------------------------------------------------
LEMMA IntentFacts ==
  ASSUME NEW i \in Intents
  PROVE  /\ i.qty \in Nat /\ i.qty > 0 /\ i.side \in {"Buy", "Sell"}
         /\ i.instrument \in Instruments
BY OrdersAssumption DEF Instruments

(* OrderAfter field by field.                                              *)
LEMMA OrderAfterFields ==
  ASSUME NEW o \in Orders, NEW r \in Reports
  PROVE  /\ OrderAfter(o, r) \in Orders /\ OrderAfter(o, r).intent = o.intent
         /\ OrderAfter(o, r).filled = IF r.type = "Fill" THEN o.filled + r.qty ELSE o.filled
<1>0. /\ o.intent \in Intents /\ o.filled \in Nat /\ o.done \in BOOLEAN /\ r.qty \in Nat
      /\ r.reason = "REASON"
  BY DEF Orders, Reports
<1>1. CASE r.type = "Ack"
  <2>1. OrderAfter(o, r) = OnAck(o)
    BY <1>1 DEF OrderAfter
  <2>2. OnAck(o) \in Orders /\ OnAck(o).intent = o.intent /\ OnAck(o).filled = o.filled
    BY DEF OnAck, Orders, States
  <2> QED BY <1>1, <2>1, <2>2
<1>2. CASE r.type = "Fill"
  <2>1. OrderAfter(o, r) = OnFill(o, r.qty)
    BY <1>2 DEF OrderAfter
  <2> DEFINE full == o.filled + r.qty >= o.intent.qty
             st == IF full THEN "Filled" ELSE "Partial"
             dn == o.done \/ full
             p == [o EXCEPT !.filled = o.filled + r.qty, !.state = st, !.done = dn]
  <2>2. OnFill(o, r.qty) = p
    BY DEF OnFill, Orders
  <2>3. o.filled + r.qty \in Nat /\ st \in States /\ dn \in BOOLEAN
    BY <1>0 DEF States
  <2> HIDE DEF st, dn
  <2>4. p \in Orders /\ p.intent = o.intent /\ p.filled = o.filled + r.qty
    BY <2>3 DEF Orders
  <2> QED BY <1>2, <2>1, <2>2, <2>4
<1>3. CASE r.type \notin {"Ack", "Fill"}
  <2>1. OrderAfter(o, r) = OnEnd(o, r.type, r.reason)
    BY <1>3 DEF OrderAfter
  <2> DEFINE st == IF r.type = "Cancel" THEN "Canceled"
                   ELSE IF o.filled > 0 THEN "Partial"
                   ELSE IF r.type = "Reject" THEN "Rejected" ELSE "Expired"
             er == IF r.type = "Cancel" THEN o.err ELSE r.reason
             p == [o EXCEPT !.done = TRUE, !.state = st, !.err = er]
  <2>2. OnEnd(o, r.type, r.reason) = p
    BY DEF OnEnd, Orders
  <2>3. st \in States /\ er \in {"none", "REASON"}
    BY <1>0 DEF States, Orders
  <2> HIDE DEF st, er
  <2>4. p \in Orders /\ p.intent = o.intent /\ p.filled = o.filled
    BY <2>3 DEF Orders
  <2> QED BY <1>3, <2>1, <2>2, <2>4
<1> QED BY <1>1, <1>2, <1>3

(* What a report records when it is a fill.                                *)
Recorded(m, r) ==
  [id |-> r.id, side |-> m.orders[r.id].intent.side, px |-> r.px, qty |-> r.qty]
Moved(m, r) == Signed(m.orders[r.id].intent.side, r.qty)

(* on_report field by field, of a report on an order that is known.        *)
LEMMA OnReportFields ==
  ASSUME NEW m \in Managers, NEW r \in Reports, r.id \in DOMAIN m.orders
  PROVE  /\ on_report(m, r) \in Managers
         /\ on_report(m, r).orders
              = [m.orders EXCEPT ![r.id] = OrderAfter(m.orders[r.id], r)]
         /\ r.type # "Fill" =>
              /\ on_report(m, r).fills = m.fills /\ on_report(m, r).net = m.net
              /\ on_report(m, r).cash = m.cash
         /\ r.type = "Fill" =>
              LET i == m.orders[r.id].intent.instrument
              IN  /\ on_report(m, r).fills = Append(m.fills, Recorded(m, r))
                  /\ on_report(m, r).net = [m.net EXCEPT ![i] = @ + Moved(m, r)]
                  /\ on_report(m, r).cash = [m.cash EXCEPT ![i] = @ - Moved(m, r) * r.px]
<1> DEFINE o == m.orders[r.id]
           i == o.intent.instrument
           os == [m.orders EXCEPT ![r.id] = OrderAfter(o, r)]
           c == Recorded(m, r)
           n == Moved(m, r)
<1>1. o \in Orders /\ m.orders \in Seq(Orders) /\ m.fills \in Seq(FillRecords)
  BY DEF Managers
<1>2. OrderAfter(o, r) \in Orders /\ o.intent \in Intents
  BY <1>1, OrderAfterFields DEF Orders
<1>3. os \in Seq(Orders)
  BY <1>1, <1>2, ExceptSeq
<1>4. i \in Instruments /\ o.intent.side \in {"Buy", "Sell"}
  BY <1>2, IntentFacts
<1>5. n \in Int /\ r.px \in Nat /\ n * r.px \in Int
  <2>1. r.qty \in Nat /\ r.px \in Nat
    BY DEF Reports
  <2>2. n \in Int
    BY <2>1 DEF Moved, Signed
  <2> QED BY <2>1, <2>2
<1>6. c \in FillRecords
  BY <1>4 DEF Recorded, FillRecords, Reports
<1>7. CASE r.type # "Fill"
  <2>1. on_report(m, r) = [m EXCEPT !.orders = os]
    BY <1>7 DEF on_report, known_order, Managers
  <2> HIDE DEF os
  <2>2. [m EXCEPT !.orders = os] \in Managers
    BY <1>3 DEF Managers
  <2>3. /\ [m EXCEPT !.orders = os].orders = os
        /\ [m EXCEPT !.orders = os].fills = m.fills
        /\ [m EXCEPT !.orders = os].net = m.net
        /\ [m EXCEPT !.orders = os].cash = m.cash
    BY DEF Managers
  <2> QED BY <1>7, <2>1, <2>2, <2>3 DEF os
<1>8. CASE r.type = "Fill"
  <2> DEFINE fs == Append(m.fills, c)
             nt == [m.net EXCEPT ![i] = @ + n]
             cs == [m.cash EXCEPT ![i] = @ - n * r.px]
             p == [orders |-> os, fills |-> fs, net |-> nt, cash |-> cs]
  <2>1. on_report(m, r) = p
    BY <1>8 DEF on_report, known_order, Managers, Recorded, Moved
  <2>2. fs \in Seq(FillRecords)
    BY <1>1, <1>6, AppendProperties
  <2>3. nt \in [Instruments -> Int] /\ cs \in [Instruments -> Int]
    <3>1. m.net \in [Instruments -> Int] /\ m.cash \in [Instruments -> Int]
      BY DEF Managers
    <3> HIDE DEF i, n
    <3>2. m.net[i] + n \in Int /\ m.cash[i] - n * r.px \in Int
      BY <1>4, <1>5, <3>1
    <3> QED BY <3>1, <3>2
  <2>4. p \in Managers
    <3> HIDE DEF fs, nt, cs, os
    <3> QED BY <1>3, <2>2, <2>3 DEF Managers
  <2>5. p.orders = os /\ p.fills = fs /\ p.net = nt /\ p.cash = cs
    OBVIOUS
  <2> HIDE DEF p
  <2> QED BY <1>8, <2>1, <2>4, <2>5
<1> QED BY <1>7, <1>8

(* A report on an order nobody submitted changes nothing.                  *)
LEMMA OnReportUnknown ==
  ASSUME NEW m, NEW r, r.id \notin DOMAIN m.orders
  PROVE  on_report(m, r) = m
BY DEF on_report, known_order
-----------------------------------------------------------------------------
(* A sum over places of a sequence that grows by one.                      *)
LEMMA SumAppend ==
  ASSUME NEW n \in Nat, NEW f, NEW h, \A k \in 1..n : f[k] \in Int /\ h[k] = f[k],
         h[n + 1] \in Int, NEW T \in SUBSET (1..n)
  PROVE  /\ SumFunctionOnSet(h, T) = SumFunctionOnSet(f, T)
         /\ SumFunctionOnSet(h, T \cup {n + 1}) = SumFunctionOnSet(f, T) + h[n + 1]
<1> DEFINE S == 1..(n + 1)
           z == n + 1
<1>1. IsFiniteSet(S) /\ IsFiniteSet(1..n)
  BY FS_Interval
<1>2. IsFiniteSet(T)
  BY <1>1, FS_Subset
<1>3. SumFunctionOnSet(h, T) = SumFunctionOnSet(f, T)
  BY <1>2, SumEqual
<1>4. T \in SUBSET S /\ z \in S /\ z \notin T
  OBVIOUS
<1>5. \A k \in S : h[k] \in Int
  OBVIOUS
<1> HIDE DEF S, z
<1> DEFINE U == T \cup {z}
<1>6. U \in SUBSET S /\ z \in U /\ U \ {z} = T
  BY <1>4
<1>7. SumFunctionOnSet(h, U \ {z}) = SumFunctionOnSet(h, T)
  BY <1>6
<1> HIDE DEF U
<1>8. SumFunctionOnSet(h, U) = SumFunctionOnSet(h, U \ {z}) + h[z]
  BY ONLY <1>1, <1>5, <1>6, SumAdd
<1> QED BY <1>3, <1>7, <1>8 DEF z, U

(* The functions the books are balanced with.                              *)
ShareFn(m) == [k \in DOMAIN m.fills |-> Shares(m, k)]
ValueFn(m) == [k \in DOMAIN m.fills |-> Shares(m, k) * m.fills[k].px]
QtyFn(m) == [k \in DOMAIN m.fills |-> m.fills[k].qty]

LEMMA FillFnTypes ==
  ASSUME NEW m \in Managers
  PROVE  /\ DOMAIN m.fills = 1..Len(m.fills) /\ Len(m.fills) \in Nat
         /\ \A k \in DOMAIN m.fills :
              /\ m.fills[k] \in FillRecords
              /\ ShareFn(m)[k] \in Int /\ ValueFn(m)[k] \in Int /\ QtyFn(m)[k] \in Nat
<1>1. m.fills \in Seq(FillRecords)
  BY DEF Managers
<1>2. DOMAIN m.fills = 1..Len(m.fills) /\ Len(m.fills) \in Nat
  BY <1>1
<1>3. ASSUME NEW k \in DOMAIN m.fills
      PROVE  /\ m.fills[k] \in FillRecords
             /\ ShareFn(m)[k] \in Int /\ ValueFn(m)[k] \in Int /\ QtyFn(m)[k] \in Nat
  <2>1. m.fills[k] \in FillRecords
    BY <1>1
  <2>2. m.fills[k].qty \in Nat /\ m.fills[k].px \in Nat
    BY <2>1 DEF FillRecords
  <2>3. Shares(m, k) \in Int
    BY <2>2 DEF Shares, Signed
  <2>4. Shares(m, k) * m.fills[k].px \in Int
    BY <2>2, <2>3
  <2> QED BY <2>1, <2>2, <2>3, <2>4 DEF ShareFn, ValueFn, QtyFn
<1> QED BY <1>2, <1>3

(* on_report keeps the books balanced.                                     *)
LEMMA ReportBalances ==
  ASSUME NEW m \in Managers, NEW r \in Reports, r.id \in DOMAIN m.orders,
         Known(m), Balanced(m)
  PROVE  Known(on_report(m, r)) /\ Balanced(on_report(m, r))
<1> DEFINE p == on_report(m, r)
           o == m.orders[r.id]
           n == Len(m.fills)
<1>1. /\ p \in Managers /\ p.orders = [m.orders EXCEPT ![r.id] = OrderAfter(o, r)]
      /\ r.type # "Fill" => p.fills = m.fills /\ p.net = m.net /\ p.cash = m.cash
  BY OnReportFields
<1>2. o \in Orders /\ m.orders \in Seq(Orders)
  BY DEF Managers
<1>3. /\ DOMAIN p.orders = DOMAIN m.orders
      /\ \A id \in DOMAIN m.orders : p.orders[id].intent = m.orders[id].intent
  BY <1>1, <1>2, OrderAfterFields
<1>4. \A id \in DOMAIN m.orders :
        p.orders[id].filled
          = IF id = r.id /\ r.type = "Fill" THEN m.orders[id].filled + r.qty
            ELSE m.orders[id].filled
  BY <1>1, <1>2, OrderAfterFields
<1>5. /\ DOMAIN m.fills = 1..n /\ n \in Nat
      /\ \A k \in 1..n :
           /\ m.fills[k] \in FillRecords
           /\ ShareFn(m)[k] \in Int /\ ValueFn(m)[k] \in Int /\ QtyFn(m)[k] \in Nat
  BY FillFnTypes
<1>6. \A k \in 1..n : m.fills[k].id \in DOMAIN m.orders
  BY <1>5 DEF Known
<1>7. /\ \A i \in Instruments :
           /\ m.net[i] = SumFunctionOnSet(ShareFn(m), InstrumentFills(m, i))
           /\ m.cash[i] = -SumFunctionOnSet(ValueFn(m), InstrumentFills(m, i))
      /\ \A id \in DOMAIN m.orders :
           m.orders[id].filled = SumFunctionOnSet(QtyFn(m), OrderFills(m, id))
  BY DEF Balanced, ShareFn, ValueFn, QtyFn
<1>8. ASSUME NEW q \in Managers, q = p,
             \A i \in Instruments :
               /\ q.net[i] = SumFunctionOnSet(ShareFn(q), InstrumentFills(q, i))
               /\ q.cash[i] = -SumFunctionOnSet(ValueFn(q), InstrumentFills(q, i)),
             \A id \in DOMAIN q.orders :
               q.orders[id].filled = SumFunctionOnSet(QtyFn(q), OrderFills(q, id))
      PROVE  Balanced(p)
  <2>1. Balanced(q)
    BY <1>8 DEF Balanced, ShareFn, ValueFn, QtyFn
  <2> QED BY <1>8, <2>1
<1> HIDE DEF p
<1>9. CASE r.type # "Fill"
  <2>1. p.fills = m.fills /\ p.net = m.net /\ p.cash = m.cash
    BY <1>1, <1>9
  <2>2. ShareFn(p) = ShareFn(m) /\ ValueFn(p) = ValueFn(m) /\ QtyFn(p) = QtyFn(m)
    BY <2>1 DEF ShareFn, ValueFn, QtyFn, Shares
  <2>3. \A i \in Instruments : InstrumentFills(p, i) = InstrumentFills(m, i)
    BY <1>3, <1>5, <1>6, <2>1 DEF InstrumentFills
  <2>4. \A id \in DOMAIN m.orders : OrderFills(p, id) = OrderFills(m, id)
    BY <2>1 DEF OrderFills
  <2>5. Known(p)
    BY <1>3, <1>5, <1>6, <2>1 DEF Known
  <2>6. Balanced(p)
    BY <1>1, <1>3, <1>4, <1>7, <1>8, <1>9, <2>1, <2>2, <2>3, <2>4
  <2> QED BY <2>5, <2>6 DEF p
<1>10. CASE r.type = "Fill"
  <2> DEFINE i0 == o.intent.instrument
             c == Recorded(m, r)
             mv == Moved(m, r)
  <2>1. /\ p.fills = Append(m.fills, c)
        /\ p.net = [m.net EXCEPT ![i0] = @ + mv]
        /\ p.cash = [m.cash EXCEPT ![i0] = @ - mv * r.px]
    BY <1>10, OnReportFields DEF p
  <2>2. /\ DOMAIN p.fills = 1..(n + 1) /\ p.fills[n + 1] = c
        /\ \A k \in 1..n : p.fills[k] = m.fills[k]
    <3>1. m.fills \in Seq(FillRecords)
      BY DEF Managers
    <3>2. c \in FillRecords
      BY <1>2, IntentFacts DEF Recorded, FillRecords, Reports, Orders
    <3> DEFINE s == m.fills
    <3> HIDE DEF c, s
    <3>3. /\ DOMAIN Append(s, c) = 1..(Len(s) + 1) /\ Append(s, c)[Len(s) + 1] = c
          /\ \A k \in 1..Len(s) : Append(s, c)[k] = s[k]
      <4>1. s \in Seq(FillRecords)
        BY <3>1 DEF s
      <4> QED BY ONLY <3>2, <4>1
    <3> QED BY <2>1, <3>3 DEF s
  <2>3. c.id = r.id /\ c.side = o.intent.side /\ c.px = r.px /\ c.qty = r.qty
    BY DEF Recorded
  <2>4. /\ \A k \in 1..n : /\ ShareFn(p)[k] = ShareFn(m)[k]
                          /\ ValueFn(p)[k] = ValueFn(m)[k] /\ QtyFn(p)[k] = QtyFn(m)[k]
        /\ ShareFn(p)[n + 1] = mv /\ ValueFn(p)[n + 1] = mv * r.px /\ QtyFn(p)[n + 1] = r.qty
    <3>1. n + 1 \in DOMAIN p.fills /\ \A k \in 1..n : k \in DOMAIN p.fills
      BY <1>5, <2>2
    <3>2. Shares(p, n + 1) = mv
      BY <2>2, <2>3 DEF Shares, Moved
    <3>3. \A k \in 1..n : Shares(p, k) = Shares(m, k)
      BY <2>2 DEF Shares
    <3> HIDE DEF c, mv
    <3> QED BY <1>5, <2>2, <2>3, <3>1, <3>2, <3>3 DEF ShareFn, ValueFn, QtyFn
  <2>5. mv \in Int /\ mv * r.px \in Int /\ r.qty \in Nat
    <3>1. r.qty \in Nat /\ r.px \in Nat
      BY DEF Reports
    <3>2. mv \in Int
      BY <3>1 DEF Moved, Signed
    <3> QED BY <3>1, <3>2
  <2>6. Known(p)
    BY <1>3, <1>5, <1>6, <2>2, <2>3 DEF Known
  <2>7. i0 \in Instruments
    BY <1>2, IntentFacts DEF Orders
  <2> HIDE DEF c, mv
  <2>8. ASSUME NEW i \in Instruments
        PROVE  /\ InstrumentFills(m, i) \in SUBSET (1..n)
               /\ InstrumentFills(p, i) = IF i = i0 THEN InstrumentFills(m, i) \cup {n + 1}
                                          ELSE InstrumentFills(m, i)
    <3>1. InstrumentFills(m, i) \in SUBSET (1..n)
      BY <1>5 DEF InstrumentFills
    <3>2. \A k \in 1..n : k \in InstrumentFills(p, i) <=> k \in InstrumentFills(m, i)
      <4> SUFFICES ASSUME NEW k \in 1..n
                   PROVE  k \in InstrumentFills(p, i) <=> k \in InstrumentFills(m, i)
        OBVIOUS
      <4>1. k \in DOMAIN p.fills /\ k \in DOMAIN m.fills
        BY <1>5, <2>2
      <4>2. p.orders[p.fills[k].id].intent = m.orders[m.fills[k].id].intent
        BY <1>3, <1>6, <2>2
      <4> HIDE DEF n
      <4> QED BY <4>1, <4>2 DEF InstrumentFills
    <3>3. n + 1 \in InstrumentFills(p, i) <=> i = i0
      <4>1. n + 1 \in DOMAIN p.fills
        BY <1>5, <2>2
      <4>2. p.orders[p.fills[n + 1].id].intent.instrument = i0
        BY <1>3, <2>2, <2>3
      <4> DEFINE z == n + 1
      <4> HIDE DEF z, i0, n
      <4>3. z \in InstrumentFills(p, i) <=> i = i0
        BY <4>1, <4>2 DEF InstrumentFills, z
      <4> QED BY <4>3 DEF z
    <3>4. InstrumentFills(p, i) \in SUBSET (1..(n + 1))
      BY <2>2 DEF InstrumentFills
    <3>5. \A k \in 1..(n + 1) : k \in 1..n \/ k = n + 1
      BY <1>5
    <3>7. CASE i = i0
      <4>1. InstrumentFills(p, i) = InstrumentFills(m, i) \cup {n + 1}
        <5> HIDE DEF n
        <5> QED BY <3>1, <3>2, <3>3, <3>4, <3>5, <3>7
      <4> QED BY <3>1, <3>7, <4>1
    <3>8. CASE ~(i = i0)
      <4>1. InstrumentFills(p, i) = InstrumentFills(m, i)
        <5> HIDE DEF n
        <5> QED BY <3>1, <3>2, <3>3, <3>4, <3>5, <3>8
      <4> QED BY <3>1, <3>8, <4>1
    <3> QED BY <3>7, <3>8
  <2>9. ASSUME NEW id \in DOMAIN m.orders
        PROVE  /\ OrderFills(m, id) \in SUBSET (1..n)
               /\ OrderFills(p, id) = IF id = r.id THEN OrderFills(m, id) \cup {n + 1}
                                      ELSE OrderFills(m, id)
    <3>1. OrderFills(m, id) \in SUBSET (1..n)
      BY <1>5 DEF OrderFills
    <3>2. \A k \in 1..n : k \in OrderFills(p, id) <=> k \in OrderFills(m, id)
      BY <1>5, <2>2 DEF OrderFills
    <3>3. n + 1 \in OrderFills(p, id) <=> id = r.id
      BY <1>5, <2>2, <2>3 DEF OrderFills
    <3>4. OrderFills(p, id) \in SUBSET (1..(n + 1))
      BY <2>2 DEF OrderFills
    <3>5. \A k \in 1..(n + 1) : k \in 1..n \/ k = n + 1
      BY <1>5
    <3>7. CASE id = r.id
      <4>1. OrderFills(p, id) = OrderFills(m, id) \cup {n + 1}
        <5> HIDE DEF n
        <5> QED BY <3>1, <3>2, <3>3, <3>4, <3>5, <3>7
      <4> QED BY <3>1, <3>7, <4>1
    <3>8. CASE ~(id = r.id)
      <4>1. OrderFills(p, id) = OrderFills(m, id)
        <5> HIDE DEF n
        <5> QED BY <3>1, <3>2, <3>3, <3>4, <3>5, <3>8
      <4> QED BY <3>1, <3>8, <4>1
    <3> QED BY <3>7, <3>8
  <2>10. ASSUME NEW T \in SUBSET (1..n)
         PROVE  /\ SumFunctionOnSet(ShareFn(p), T) = SumFunctionOnSet(ShareFn(m), T)
                /\ SumFunctionOnSet(ShareFn(p), T \cup {n + 1})
                     = SumFunctionOnSet(ShareFn(m), T) + mv
                /\ SumFunctionOnSet(ValueFn(p), T) = SumFunctionOnSet(ValueFn(m), T)
                /\ SumFunctionOnSet(ValueFn(p), T \cup {n + 1})
                     = SumFunctionOnSet(ValueFn(m), T) + mv * r.px
                /\ SumFunctionOnSet(QtyFn(p), T) = SumFunctionOnSet(QtyFn(m), T)
                /\ SumFunctionOnSet(QtyFn(p), T \cup {n + 1})
                     = SumFunctionOnSet(QtyFn(m), T) + r.qty
                /\ SumFunctionOnSet(ValueFn(m), T) \in Int
    <3> DEFINE a1 == ShareFn(m)
               a2 == ShareFn(p)
               b1 == ValueFn(m)
               b2 == ValueFn(p)
               c1 == QtyFn(m)
               c2 == QtyFn(p)
    <3>a. \A k \in 1..n : a1[k] \in Int /\ a2[k] = a1[k]
      BY <1>5, <2>4
    <3>b. \A k \in 1..n : b1[k] \in Int /\ b2[k] = b1[k]
      BY <1>5, <2>4
    <3>c. \A k \in 1..n : c1[k] \in Int /\ c2[k] = c1[k]
      BY <1>5, <2>4
    <3>2. a2[n + 1] = mv /\ b2[n + 1] = mv * r.px /\ c2[n + 1] = r.qty
      BY <2>4
    <3>3. a2[n + 1] \in Int /\ b2[n + 1] \in Int /\ c2[n + 1] \in Int /\ n \in Nat
      BY <1>5, <2>5, <3>2
    <3> HIDE DEF a1, a2, b1, b2, c1, c2, n
    <3>0. T \in SUBSET (1..n)
      OBVIOUS
    <3>4. /\ SumFunctionOnSet(a2, T) = SumFunctionOnSet(a1, T)
          /\ SumFunctionOnSet(a2, T \cup {n + 1}) = SumFunctionOnSet(a1, T) + a2[n + 1]
      BY ONLY <3>a, <3>3, <3>0, SumAppend
    <3>5. /\ SumFunctionOnSet(b2, T) = SumFunctionOnSet(b1, T)
          /\ SumFunctionOnSet(b2, T \cup {n + 1}) = SumFunctionOnSet(b1, T) + b2[n + 1]
      BY ONLY <3>b, <3>3, <3>0, SumAppend
    <3>6. /\ SumFunctionOnSet(c2, T) = SumFunctionOnSet(c1, T)
          /\ SumFunctionOnSet(c2, T \cup {n + 1}) = SumFunctionOnSet(c1, T) + c2[n + 1]
      BY ONLY <3>c, <3>3, <3>0, SumAppend
    <3>7. IsFiniteSet(T)
      <4>1. IsFiniteSet(1..n)
        BY <3>3, FS_Interval
      <4> QED BY <4>1, FS_Subset
    <3>8. SumFunctionOnSet(b1, T) \in Int
      <4>1. \A k \in T : b1[k] \in Int
        BY <3>b
      <4> QED BY <3>7, <4>1, SumType
    <3> QED BY <3>2, <3>4, <3>5, <3>6, <3>8 DEF a1, a2, b1, b2, c1, c2
  <2>11. ASSUME NEW i \in Instruments
         PROVE  /\ p.net[i] = SumFunctionOnSet(ShareFn(p), InstrumentFills(p, i))
                /\ p.cash[i] = -SumFunctionOnSet(ValueFn(p), InstrumentFills(p, i))
    <3> DEFINE T == InstrumentFills(m, i)
               x == SumFunctionOnSet(ShareFn(m), T)
               y == SumFunctionOnSet(ValueFn(m), T)
    <3>1. T \in SUBSET (1..n) /\ m.net[i] = x /\ m.cash[i] = -y
      BY <1>7, <2>8
    <3>2. m.net \in [Instruments -> Int] /\ m.cash \in [Instruments -> Int]
      BY DEF Managers
    <3>3. CASE i = i0
      <4>1. p.net[i] = m.net[i] + mv /\ p.cash[i] = m.cash[i] - mv * r.px
        <5> HIDE DEF i0
        <5> QED BY <2>1, <2>7, <3>2, <3>3
      <4>2. InstrumentFills(p, i) = T \cup {n + 1}
        BY <2>8, <3>3
      <4>3. /\ SumFunctionOnSet(ShareFn(p), T \cup {n + 1}) = x + mv
            /\ SumFunctionOnSet(ValueFn(p), T \cup {n + 1}) = y + mv * r.px /\ y \in Int
        BY <2>10, <3>1
      <4> HIDE DEF x, y, T
      <4>4. /\ SumFunctionOnSet(ShareFn(p), InstrumentFills(p, i)) = x + mv
            /\ SumFunctionOnSet(ValueFn(p), InstrumentFills(p, i)) = y + mv * r.px
        BY <4>2, <4>3
      <4>5. -(y + mv * r.px) = -y - mv * r.px
        BY <2>5, <4>3
      <4> QED BY <3>1, <4>1, <4>4, <4>5
    <3>4. CASE i # i0
      <4>1. p.net[i] = m.net[i] /\ p.cash[i] = m.cash[i]
        <5> HIDE DEF i0
        <5> QED BY <2>1, <2>7, <3>2, <3>4
      <4>2. InstrumentFills(p, i) = T
        BY <2>8, <3>4
      <4>3. /\ SumFunctionOnSet(ShareFn(p), T) = x
            /\ SumFunctionOnSet(ValueFn(p), T) = y
        BY <2>10, <3>1
      <4> HIDE DEF x, y, T
      <4> QED BY <3>1, <4>1, <4>2, <4>3
    <3> QED BY <3>3, <3>4
  <2>12. ASSUME NEW id \in DOMAIN p.orders
         PROVE  p.orders[id].filled = SumFunctionOnSet(QtyFn(p), OrderFills(p, id))
    <3> DEFINE T == OrderFills(m, id)
               x == SumFunctionOnSet(QtyFn(m), T)
    <3>0. id \in DOMAIN m.orders
      BY <1>3
    <3>1. T \in SUBSET (1..n) /\ m.orders[id].filled = x
      BY <1>7, <2>9, <3>0
    <3>2. /\ SumFunctionOnSet(QtyFn(p), T) = x
          /\ SumFunctionOnSet(QtyFn(p), T \cup {n + 1}) = x + r.qty
      BY <2>10, <3>1
    <3>3. OrderFills(p, id) = IF id = r.id THEN T \cup {n + 1} ELSE T
      BY <2>9, <3>0
    <3> HIDE DEF x, T
    <3> QED BY <1>4, <1>10, <3>0, <3>1, <3>2, <3>3
  <2>13. Balanced(p)
    BY <1>1, <1>8, <2>11, <2>12
  <2> QED BY <2>6, <2>13 DEF p
<1> QED BY <1>9, <1>10
-----------------------------------------------------------------------------
(* What some of the reports fill.                                          *)
LEMMA FilledFacts ==
  ASSUME NEW s \in Seq(Reports), NEW D \in SUBSET DOMAIN s
  PROVE  /\ Filled(s, D) \in Nat /\ Filled(s, D) <= Filled(s, DOMAIN s)
         /\ Filled(s, DOMAIN s) \in Nat
         /\ \A k \in DOMAIN s :
              /\ s[k] \in Reports /\ s[k].qty \in Nat
              /\ k \notin D \/ s[k].qty = 0 => Filled(s, D \cup {k}) = Filled(s, D) + s[k].qty
<1> DEFINE f == [k \in DOMAIN s |-> s[k].qty]
           S == DOMAIN s
<1>1. IsFiniteSet(S)
  BY Places
<1>2. \A k \in S : s[k] \in Reports /\ s[k].qty \in Nat
  <2>1. \A k \in S : s[k] \in Reports
    OBVIOUS
  <2> QED BY <2>1 DEF Reports
<1>3. \A k \in S : f[k] = s[k].qty
  OBVIOUS
<1>4. \A k \in S : f[k] \in Nat /\ f[k] \in Int
  BY <1>2, <1>3
<1>5. \A T \in SUBSET S : Filled(s, T) = SumFunctionOnSet(f, T)
  BY DEF Filled
<1>6. D \in SUBSET S /\ S \in SUBSET S
  OBVIOUS
<1> HIDE DEF f, S
<1>7. /\ SumFunctionOnSet(f, D) \in Nat /\ SumFunctionOnSet(f, S) \in Nat
      /\ SumFunctionOnSet(f, D) <= SumFunctionOnSet(f, S)
  BY ONLY <1>1, <1>4, <1>6, SumSubset
<1>8. ASSUME NEW k \in S, k \notin D \/ s[k].qty = 0
      PROVE  Filled(s, D \cup {k}) = Filled(s, D) + s[k].qty
  <2> DEFINE U == D \cup {k}
  <2>1. U \in SUBSET S /\ k \in U
    BY <1>6
  <2>2. SumFunctionOnSet(f, U) = SumFunctionOnSet(f, U \ {k}) + f[k]
    <3> HIDE DEF U
    <3> QED BY ONLY <1>1, <1>4, <2>1, SumAdd
  <2>3. CASE k \notin D
    <3>1. U \ {k} = D
      BY <2>3
    <3>2. SumFunctionOnSet(f, U \ {k}) = SumFunctionOnSet(f, D)
      BY <3>1
    <3>3. Filled(s, U) = SumFunctionOnSet(f, U) /\ Filled(s, D) = SumFunctionOnSet(f, D)
      BY <1>5, <1>6, <2>1
    <3> HIDE DEF U
    <3>4. Filled(s, U) = Filled(s, D) + s[k].qty
      BY <1>3, <2>2, <3>2, <3>3
    <3> QED BY <3>4 DEF U
  <2>4. CASE k \in D
    <3>1. U = D
      BY <2>4
    <3>2. Filled(s, U) = Filled(s, D)
      BY <3>1
    <3>3. Filled(s, D) \in Nat /\ s[k].qty = 0
      BY <1>5, <1>6, <1>7, <1>8, <2>4
    <3> HIDE DEF U
    <3>4. Filled(s, U) = Filled(s, D) + s[k].qty
      BY <3>2, <3>3
    <3> QED BY <3>4 DEF U
  <2> QED BY <2>3, <2>4
<1>9. Filled(s, D) = SumFunctionOnSet(f, D) /\ Filled(s, S) = SumFunctionOnSet(f, S)
  BY <1>5, <1>6
<1>10. Filled(s, D) \in Nat /\ Filled(s, S) \in Nat /\ Filled(s, D) <= Filled(s, S)
  BY <1>7, <1>9
<1> QED BY <1>2, <1>8, <1>10 DEF S

LEMMA HasMore ==
  ASSUME NEW s, NEW D, NEW k, NEW types
  PROVE  Has(s, D \cup {k}, types) <=> Has(s, D, types) \/ s[k].type \in types
BY DEF Has

(* One more report: an acknowledgement, a fill that had not come, or an    *)
(* end.                                                                    *)
LEMMA FollowsStep ==
  ASSUME NEW o \in Orders, NEW s \in Seq(Reports), NEW id, Shape(id, s, o.intent.qty),
         NEW D \in SUBSET DOMAIN s, Follows(o, s, D),
         NEW k \in DOMAIN s, k \notin D \/ s[k].type # "Fill"
  PROVE  Follows(OrderAfter(o, s[k]), s, D \cup {k})
<1> DEFINE r == s[k]
           q == o.intent.qty
           f == Filled(s, D)
           g == Filled(s, D \cup {k})
           all == Filled(s, DOMAIN s)
<1>1. /\ f \in Nat /\ all \in Nat /\ f <= all /\ r \in Reports /\ r.qty \in Nat
      /\ k \notin D \/ r.qty = 0 => g = f + r.qty
  BY FilledFacts
<1>2. q \in Nat /\ q > 0
  BY IntentFacts DEF Orders
<1>3. /\ r.qty > 0 <=> r.type = "Fill"
      /\ r.type = "Reject" => all = 0
      /\ Has(s, DOMAIN s, EndTypes) <=> all < q
      /\ \A j \in DOMAIN s : s[j].type \in EndTypes /\ r.type \in EndTypes => j = k
  BY DEF Shape
<1>4. g = f + r.qty /\ g \in Nat
  BY <1>1, <1>3
<1>5. r.type \in EndTypes => all < q
  BY <1>3 DEF Has
<1> DEFINE ended == Has(s, D, EndTypes)
           failed == Has(s, D, {"Reject", "Expire"})
           acked == Has(s, D, {"Ack"})
           canceled == Has(s, D, {"Cancel"})
           rejected == Has(s, D, {"Reject"})
           p == OrderAfter(o, r)
<1>6. /\ o.filled = f
      /\ o.done <=> f >= q \/ ended
      /\ o.err = IF failed THEN "REASON" ELSE "none"
      /\ f = 0 /\ ~ended => o.state = IF acked THEN "Acked" ELSE "Sent"
      /\ f = 0 /\ ended => o.state = IF canceled THEN "Canceled"
                                     ELSE IF rejected THEN "Rejected" ELSE "Expired"
      /\ f > 0 => IF f >= q THEN o.state = "Filled"
                  ELSE o.state = "Partial" \/ (o.state = "Canceled" /\ canceled)
  BY DEF Follows
<1>7. /\ Has(s, D \cup {k}, EndTypes) <=> ended \/ r.type \in EndTypes
      /\ Has(s, D \cup {k}, {"Reject", "Expire"}) <=> failed \/ r.type \in {"Reject", "Expire"}
      /\ Has(s, D \cup {k}, {"Ack"}) <=> acked \/ r.type \in {"Ack"}
      /\ Has(s, D \cup {k}, {"Cancel"}) <=> canceled \/ r.type \in {"Cancel"}
      /\ Has(s, D \cup {k}, {"Reject"}) <=> rejected \/ r.type \in {"Reject"}
  BY HasMore
<1>8. /\ ended /\ r.type \in EndTypes => k \in D
      /\ canceled /\ r.type \in EndTypes => r.type = "Cancel"
      /\ rejected /\ r.type \in EndTypes => r.type = "Reject"
      /\ failed /\ r.type = "Cancel" => FALSE
      /\ canceled => ended
      /\ rejected => ended
  BY <1>3 DEF Has, EndTypes
<1>9. /\ p.intent = o.intent /\ p \in Orders
  BY <1>1, OrderAfterFields
<1> HIDE DEF p, r, f, g, all, ended, failed, acked, canceled, rejected
<1> DEFINE ending == ended \/ r.type \in EndTypes
           Counted == p.filled = g /\ (p.done <=> g >= q \/ ending)
           Erred == p.err = IF failed \/ r.type \in {"Reject", "Expire"} THEN "REASON" ELSE "none"
           Open == g = 0 /\ ~ending =>
                     p.state = IF acked \/ r.type = "Ack" THEN "Acked" ELSE "Sent"
           Ended == g = 0 /\ ending =>
                      p.state = IF canceled \/ r.type = "Cancel" THEN "Canceled"
                                ELSE IF rejected \/ r.type = "Reject" THEN "Rejected"
                                ELSE "Expired"
           Traded == g > 0 => IF g >= q THEN p.state = "Filled"
                              ELSE \/ p.state = "Partial"
                                   \/ p.state = "Canceled" /\ (canceled \/ r.type = "Cancel")
<1>10. Counted /\ Erred /\ Open /\ Ended /\ Traded => Follows(OrderAfter(o, s[k]), s, D \cup {k})
  <2> SUFFICES ASSUME Counted /\ Erred /\ Open /\ Ended /\ Traded
               PROVE  Follows(p, s, D \cup {k})
    BY DEF p, r
  <2> QED BY <1>7, <1>9 DEF Follows, g
<1>11. CASE r.type = "Ack"
  <2>1. p = OnAck(o)
    BY <1>11 DEF OrderAfter, p
  <2>2. /\ p.filled = o.filled /\ p.done = o.done /\ p.err = o.err
        /\ p.state = IF o.state = "Sent" THEN "Acked" ELSE o.state
    BY <2>1 DEF OnAck, Orders
  <2>3. g = f /\ r.type \notin EndTypes /\ r.type \notin {"Reject", "Expire"}
    BY <1>1, <1>3, <1>4, <1>11 DEF EndTypes
  <2>4. Counted /\ Erred
    BY <1>6, <2>2, <2>3
  <2>5. Open /\ Ended /\ Traded
    BY <1>1, <1>2, <1>6, <1>11, <2>2, <2>3
  <2> QED BY <1>10, <2>4, <2>5
<1>12. CASE r.type = "Fill"
  <2>1. p = OnFill(o, r.qty)
    BY <1>12 DEF OrderAfter, p
  <2>2. /\ p.filled = o.filled + r.qty /\ p.err = o.err
        /\ p.done <=> o.done \/ o.filled + r.qty >= q
        /\ p.state = IF o.filled + r.qty >= q THEN "Filled" ELSE "Partial"
    BY <2>1 DEF OnFill, Orders
  <2>3. g > 0 /\ r.type \notin EndTypes /\ r.type \notin {"Reject", "Expire"} /\ f >= q => g >= q
    BY <1>1, <1>2, <1>3, <1>4, <1>12 DEF EndTypes
  <2>4. g > 0 /\ r.type \notin EndTypes /\ r.type \notin {"Reject", "Expire"}
    BY <1>1, <1>3, <1>4, <1>12 DEF EndTypes
  <2>5. o.filled + r.qty = g
    BY <1>4, <1>6
  <2>6. p.done <=> g >= q \/ ended
    BY <1>6, <2>2, <2>3, <2>4, <2>5
  <2>7. Counted /\ Erred
    BY <1>6, <2>2, <2>4, <2>5, <2>6
  <2>8. Open /\ Ended /\ Traded
    BY <1>4, <2>2, <2>4, <2>5
  <2> QED BY <1>10, <2>7, <2>8
<1>13. CASE r.type \in EndTypes
  <2>1. p = OnEnd(o, r.type, r.reason) /\ r.reason = "REASON"
    BY <1>1, <1>13 DEF OrderAfter, p, EndTypes, Reports
  <2>2. /\ p.filled = o.filled /\ p.done
        /\ p.state = IF r.type = "Cancel" THEN "Canceled"
                     ELSE IF o.filled > 0 THEN "Partial"
                     ELSE IF r.type = "Reject" THEN "Rejected" ELSE "Expired"
        /\ p.err = IF r.type = "Cancel" THEN o.err ELSE "REASON"
    BY <2>1 DEF OnEnd, Orders
  <2>3. g = f /\ f < q
    BY <1>1, <1>2, <1>3, <1>4, <1>5, <1>13 DEF EndTypes
  <2>4. r.type = "Reject" => f = 0
    BY <1>1, <1>3
  <2>5. r.type \in {"Reject", "Expire", "Cancel"}
    BY <1>13 DEF EndTypes
  <2>6. Counted
    BY <1>6, <1>13, <2>2, <2>3
  <2>7. Erred
    BY <1>6, <1>8, <2>2, <2>5
  <2>8. Open
    BY <1>13
  <2>9. Ended
    BY <1>1, <1>6, <1>8, <1>13, <2>2, <2>3, <2>5
  <2>10. Traded
    BY <1>1, <1>2, <1>6, <1>13, <2>2, <2>3, <2>4, <2>5
  <2> QED BY <1>10, <2>6, <2>7, <2>8, <2>9, <2>10
<1>14. r.type = "Ack" \/ r.type = "Fill" \/ r.type \in EndTypes
  BY <1>1 DEF Reports, EndTypes
<1> QED BY <1>11, <1>12, <1>13, <1>14

LEMMA FollowsNew ==
  ASSUME NEW i \in Intents, NEW s \in Seq(Reports)
  PROVE  NewOrder(i) \in Orders /\ NewOrder(i).intent = i /\ Follows(NewOrder(i), s, {})
<1> DEFINE o == NewOrder(i)
<1>1. o \in Orders /\ o.intent = i
  BY DEF NewOrder, Orders, States
<1>2. o.filled = 0 /\ o.done = FALSE /\ o.err = "none" /\ o.state = "Sent"
  BY DEF NewOrder
<1>3. Filled(s, {}) = 0
  BY SumEmpty DEF Filled
<1>4. \A types : ~Has(s, {}, types)
  BY DEF Has
<1>5. i.qty \in Nat /\ i.qty > 0
  BY IntentFacts
<1> HIDE DEF o
<1>6. Follows(o, s, {})
  BY <1>1, <1>2, <1>3, <1>4, <1>5 DEF Follows
<1> QED BY <1>1, <1>6 DEF o

(* The reports in order: a cancellation is the last word.                  *)
LEMMA InOrderFollows ==
  ASSUME NEW i \in Intents, NEW s \in Seq(Reports), NEW id, Shape(id, s, i.qty)
  PROVE  LET o == FoldLeft(OrderAfter, NewOrder(i), s)
         IN  /\ o \in Orders /\ o.intent = i /\ Follows(o, s, DOMAIN s)
             /\ Has(s, DOMAIN s, {"Cancel"}) => o.state = "Canceled"
<1> DEFINE X == {o \in Orders : o.intent = i}
           CancelLast(j, o) == j = Len(s) /\ Has(s, DOMAIN s, {"Cancel"}) => o.state = "Canceled"
           Z == {z \in (0..Len(s)) \X X : Follows(z[2], s, 1..z[1]) /\ CancelLast(z[1], z[2])}
           b == NewOrder(i)
<1>1. DOMAIN s = 1..Len(s) /\ Len(s) \in Nat
  OBVIOUS
<1>2. b \in X /\ Follows(b, s, {})
  BY FollowsNew
<1>3. \A o \in X, r \in Reports : OrderAfter(o, r) \in X
  BY OrderAfterFields
<1>4. <<0, b>> \in Z
  <2>1. 1..0 = {}
    OBVIOUS
  <2>2. Follows(b, s, 1..0)
    BY <1>2, <2>1
  <2>3. CancelLast(0, b)
    BY <1>1 DEF Has
  <2> HIDE DEF b, X, CancelLast
  <2> QED BY <1>1, <1>2, <2>2, <2>3
<1>5. ASSUME NEW j \in 0..(Len(s) - 1), NEW o \in X, <<j, o>> \in Z
      PROVE  <<j + 1, OrderAfter(o, s[j + 1])>> \in Z
  <2> DEFINE k == j + 1
             p == OrderAfter(o, s[k])
  <2>1. k \in DOMAIN s /\ k \in 0..Len(s) /\ s[k] \in Reports
    BY <1>1
  <2>2. Follows(o, s, 1..j)
    BY <1>5
  <2>3. 1..j \in SUBSET DOMAIN s /\ k \notin 1..j /\ 1..j \cup {k} = 1..k
    BY <1>1
  <2>4. Follows(p, s, 1..j \cup {k})
    <3> HIDE DEF k
    <3> QED BY <2>1, <2>2, <2>3, FollowsStep
  <2>5. Follows(p, s, 1..k)
    BY <2>3, <2>4
  <2>6. p \in X
    BY <1>3, <2>1
  <2>7. CancelLast(k, p)
    <3> SUFFICES ASSUME k = Len(s), Has(s, DOMAIN s, {"Cancel"}) PROVE p.state = "Canceled"
      OBVIOUS
    <3>1. s[k].type = "Cancel"
      BY DEF Has, Shape
    <3>2. p = OnEnd(o, s[k].type, s[k].reason)
      BY <3>1 DEF OrderAfter
    <3> QED BY <3>1, <3>2 DEF OnEnd, Orders
  <2> HIDE DEF k, p, X, CancelLast
  <2>8. <<k, p>> \in Z
    BY <2>1, <2>5, <2>6, <2>7
  <2> QED BY <2>8 DEF k, p
<1>6. <<Len(s), FoldLeft(OrderAfter, b, s)>> \in Z
  <2> HIDE DEF X, Z, b
  <2> QED BY <1>2, <1>3, <1>4, <1>5, InOrderAlong
<1> DEFINE w == FoldLeft(OrderAfter, b, s)
<1> HIDE DEF w
<1>7. w \in X /\ Follows(w, s, 1..Len(s)) /\ CancelLast(Len(s), w)
  BY <1>6 DEF w
<1>8. Follows(w, s, DOMAIN s)
  BY <1>1, <1>7
<1>9. w \in Orders /\ w.intent = i /\ (Has(s, DOMAIN s, {"Cancel"}) => w.state = "Canceled")
  BY <1>7
<1> QED BY <1>8, <1>9 DEF w, b

(* All reports leave an order in one state, but for a cancelled order that *)
(* has filled in part.                                                     *)
LEMMA FollowsAgree ==
  ASSUME NEW s \in Seq(Reports), NEW id, NEW o \in Orders, NEW p \in Orders,
         o.intent = p.intent, Shape(id, s, p.intent.qty),
         Follows(o, s, DOMAIN s), Follows(p, s, DOMAIN s),
         Has(s, DOMAIN s, {"Cancel"}) => p.state = "Canceled"
  PROVE  /\ o.filled = Filled(s, DOMAIN s)
         /\ \/ o = p
            \/ p.state = "Canceled" /\ o = [p EXCEPT !.state = "Partial"] /\ o.filled > 0
<1> DEFINE q == p.intent.qty
           f == Filled(s, DOMAIN s)
           ended == Has(s, DOMAIN s, EndTypes)
           canceled == Has(s, DOMAIN s, {"Cancel"})
<1>1. q \in Nat /\ q > 0
  BY IntentFacts DEF Orders
<1>2. f \in Nat
  BY FilledFacts
<1>3. o.filled = f /\ p.filled = f /\ o.err = p.err
  BY DEF Follows
<1>4. o.done = p.done
  <2>1. (o.done <=> p.done) /\ o.done \in BOOLEAN /\ p.done \in BOOLEAN
    BY DEF Follows, Orders
  <2> QED BY <2>1
<1>5. ASSUME o.state = p.state PROVE o = p
  BY <1>3, <1>4, <1>5 DEF Orders
<1>6. ASSUME o.state = "Partial" PROVE o = [p EXCEPT !.state = "Partial"]
  BY <1>3, <1>4, <1>6 DEF Orders
<1>7. ended <=> f < q
  BY DEF Shape
<1> HIDE DEF f
<1>8. CASE f = 0
  <2>1. ended
    BY <1>1, <1>7, <1>8
  <2>2. o.state = p.state
    BY <1>8, <2>1 DEF Follows, f
  <2> QED BY <1>3, <1>5, <2>2 DEF f
<1>9. CASE f > 0
  <2>1. /\ f >= q => o.state = "Filled" /\ p.state = "Filled"
        /\ ~(f >= q) => /\ o.state = "Partial" \/ (o.state = "Canceled" /\ canceled)
                        /\ p.state = "Partial" \/ (p.state = "Canceled" /\ canceled)
    BY <1>9 DEF Follows, f
  <2>2. o.state = p.state \/ (o.state = "Partial" /\ p.state = "Canceled")
    BY <2>1
  <2> QED BY <1>3, <1>5, <1>6, <1>9, <2>2 DEF f
<1> QED BY <1>2, <1>8, <1>9
-----------------------------------------------------------------------------
(* What the exchange may report has the shape the proofs rest on.          *)
LEMMA NumberedFields ==
  ASSUME NEW id \in Nat, NEW A, NEW s \in Seq(A),
         \A a \in A : /\ a.type \in {"Ack", "Fill", "Reject", "Expire", "Cancel"}
                     /\ a.qty \in Nat /\ a.px \in Nat /\ a.reason = "REASON"
  PROVE  LET t == Numbered(id, s)
         IN  /\ t \in Seq(Reports) /\ DOMAIN t = DOMAIN s /\ Len(t) = Len(s)
             /\ Filled(t, DOMAIN t) = Filling(s)
             /\ \A k \in DOMAIN t : /\ t[k].id = id /\ t[k].n = k
                                   /\ t[k].type = s[k].type /\ t[k].qty = s[k].qty
<1> DEFINE t == Numbered(id, s)
<1>1. DOMAIN s = 1..Len(s) /\ Len(s) \in Nat /\ DOMAIN t = DOMAIN s
  BY DEF Numbered
<1>2. ASSUME NEW k \in DOMAIN s
      PROVE  /\ t[k] \in Reports /\ t[k].id = id /\ t[k].n = k
             /\ t[k].type = s[k].type /\ t[k].qty = s[k].qty
  <2>1. s[k] \in A /\ k \in Nat
    BY <1>1
  <2>2. t[k] = [id |-> id, n |-> k, type |-> s[k].type, qty |-> s[k].qty,
                px |-> s[k].px, reason |-> s[k].reason]
    BY DEF Numbered
  <2> HIDE DEF t
  <2> QED BY <2>1, <2>2 DEF Reports
<1>3. t \in Seq(Reports) /\ Len(t) = Len(s)
  <2>1. t = [k \in 1..Len(s) |-> t[k]]
    BY <1>1 DEF Numbered
  <2>2. \A k \in 1..Len(s) : t[k] \in Reports
    BY <1>1, <1>2
  <2> HIDE DEF t
  <2>3. t \in [1..Len(s) -> Reports]
    BY <2>1, <2>2
  <2>4. t \in Seq(Reports)
    BY <1>1, <2>3, SeqDef
  <2>5. DOMAIN t = 1..Len(t) /\ Len(t) \in Nat
    BY <2>4
  <2> QED BY <1>1, <2>4, <2>5
<1>4. Filled(t, DOMAIN t) = Filling(s)
  <2> DEFINE f == [k \in DOMAIN s |-> s[k].qty]
             g == [k \in DOMAIN t |-> t[k].qty]
  <2>1. f = g
    BY <1>1, <1>2
  <2>2. Filled(t, DOMAIN t) = SumFunctionOnSet(g, DOMAIN t)
    BY DEF Filled
  <2>3. Filling(s) = SumFunctionOnSet(f, DOMAIN f) /\ DOMAIN f = DOMAIN s
    BY DEF Filling, SumFunction
  <2> HIDE DEF f, g, t
  <2> QED BY <1>1, <2>1, <2>2, <2>3
<1> QED BY <1>1, <1>2, <1>3, <1>4

LEMMA OutcomeShape ==
  ASSUME NEW i \in Intents, NEW id \in Nat, NEW s \in Outcomes(i.qty)
  PROVE  Numbered(id, s) \in Seq(Reports) /\ Shape(id, Numbered(id, s), i.qty)
<1> DEFINE t == Numbered(id, s)
           q == i.qty
           A == {Report("Ack", 0, 0), Report("Reject", 0, 0)} \cup Fills(q) \cup Ends
<1>1. q \in Nat /\ q > 0
  BY IntentFacts
<1>2. \A a \in A : /\ a.type \in {"Ack", "Fill", "Reject", "Expire", "Cancel"}
                  /\ a.qty \in Nat /\ a.px \in Nat /\ a.reason = "REASON"
  <2>1. ASSUME NEW a \in Fills(q)
        PROVE  a.type = "Fill" /\ a.qty \in Nat /\ a.px \in Nat /\ a.reason = "REASON"
    BY <1>1, OrdersAssumption DEF Fills, Report
  <2> QED BY <2>1 DEF Report, Ends
<1>3. \A a \in Fills(q) : a.type = "Fill" /\ a.qty > 0
  BY <1>1 DEF Fills, Report
<1>4. \A a \in Ends : a.type \in {"Expire", "Cancel"} /\ a.qty = 0
  BY DEF Ends, Report
<1>5. s \in Seq(A)
  <2>1. CASE s = <<Report("Reject", 0, 0)>>
    BY <2>1
  <2>2. CASE s \in SeqOf({Report("Ack", 0, 0)} \cup Fills(q) \cup Ends, q + 1)
    <3>1. PICK m \in 0..(q + 1) : s \in [1..m -> {Report("Ack", 0, 0)} \cup Fills(q) \cup Ends]
      BY <2>2 DEF SeqOf
    <3>2. m \in Nat /\ s \in [1..m -> A]
      BY <1>1, <3>1
    <3> HIDE DEF A
    <3> QED BY <3>2, SeqDef
  <2> QED BY <2>1, <2>2 DEF Outcomes
<1> HIDE DEF A
<1>6. /\ t \in Seq(Reports) /\ DOMAIN t = DOMAIN s /\ Len(t) = Len(s)
      /\ Filled(t, DOMAIN t) = Filling(s)
      /\ \A k \in DOMAIN t : /\ t[k].id = id /\ t[k].n = k
                            /\ t[k].type = s[k].type /\ t[k].qty = s[k].qty
  BY <1>2, <1>5, NumberedFields
<1>7. Filled(t, DOMAIN t) \in Nat /\ DOMAIN t = 1..Len(s) /\ Len(s) \in Nat
  BY <1>5, <1>6, FilledFacts
<1> HIDE DEF t
<1>8. CASE s = <<Report("Reject", 0, 0)>>
  <2>1. Len(s) = 1 /\ s[1] = Report("Reject", 0, 0)
    BY <1>8
  <2>2. \A k \in DOMAIN t : k = 1 /\ t[k].type = "Reject" /\ t[k].qty = 0
    BY <1>6, <1>7, <2>1 DEF Report
  <2>3. Filled(t, DOMAIN t) = 0
    <3> DEFINE f == [k \in DOMAIN t |-> t[k].qty]
               S == DOMAIN t
    <3>1. IsFiniteSet(S) /\ {} \in SUBSET S
      BY <1>6, Places
    <3>2. (\A k \in S : f[k] \in Int) /\ (\A k \in S \ {} : f[k] = 0)
      BY <2>2
    <3>3. Filled(t, DOMAIN t) = SumFunctionOnSet(f, S)
      BY DEF Filled
    <3> HIDE DEF f, S
    <3>4. SumFunctionOnSet(f, S) = SumFunctionOnSet(f, {})
      BY <3>1, <3>2, SumOutside
    <3> QED BY <3>3, <3>4, SumEmpty
  <2>4. Has(t, DOMAIN t, EndTypes)
    BY <1>7, <2>1, <2>2 DEF Has, EndTypes
  <2> QED BY <1>1, <1>6, <2>2, <2>3, <2>4 DEF Shape, t
<1>9. CASE s # <<Report("Reject", 0, 0)>>
  <2>1. /\ Len(s) > 1 /\ Filling(s) <= q
        /\ \A k \in DOMAIN s :
             s[k] \in IF k = 1 THEN {Report("Ack", 0, 0)}
                     ELSE IF k < Len(s) \/ Filling(s) = q THEN Fills(q)
                     ELSE Ends
    BY <1>9 DEF Outcomes
  <2> DEFINE all == Filled(t, DOMAIN t)
  <2>2. all = Filling(s) /\ all \in Nat /\ all <= q
    BY <1>6, <1>7, <2>1
  <2>3. ASSUME NEW k \in DOMAIN t
        PROVE  /\ k = 1 => t[k].type = "Ack" /\ t[k].qty = 0
               /\ k # 1 /\ (k < Len(s) \/ all = q) => t[k].type = "Fill" /\ t[k].qty > 0
               /\ k # 1 /\ ~(k < Len(s) \/ all = q) =>
                    t[k].type \in {"Expire", "Cancel"} /\ t[k].qty = 0
    <3>1. k = 1 => t[k].type = "Ack" /\ t[k].qty = 0
      BY <1>6, <2>1 DEF Report
    <3> HIDE DEF all
    <3>2. k # 1 /\ (k < Len(s) \/ all = q) => s[k] \in Fills(q)
      BY <1>6, <2>1, <2>2
    <3>3. k # 1 /\ ~(k < Len(s) \/ all = q) => s[k] \in Ends
      BY <1>6, <2>1, <2>2
    <3> QED BY <1>3, <1>4, <1>6, <3>1, <3>2, <3>3
  <2>4. Len(s) \in DOMAIN t /\ \A k \in DOMAIN t : k <= Len(s) /\ k \in Nat
    BY <1>7, <2>1
  <2> HIDE DEF all
  <2>5. ASSUME NEW k \in DOMAIN t
        PROVE  /\ t[k].qty > 0 <=> t[k].type = "Fill"
               /\ t[k].type = "Cancel" => k = Len(t)
               /\ t[k].type = "Reject" => all = 0
               /\ t[k].type \in EndTypes => k = Len(s) /\ all < q
    BY <1>1, <1>6, <1>7, <2>2, <2>3, <2>4 DEF EndTypes
  <2>6. all < q => Has(t, DOMAIN t, EndTypes)
    <3> SUFFICES ASSUME all < q PROVE t[Len(s)].type \in EndTypes
      BY <2>4 DEF Has
    <3> QED BY <1>1, <1>7, <2>1, <2>2, <2>3, <2>4 DEF EndTypes
  <2>7. Has(t, DOMAIN t, EndTypes) => all < q
    BY <2>5 DEF Has
  <2>8. \A j, k \in DOMAIN t : t[j].type \in EndTypes /\ t[k].type \in EndTypes => j = k
    BY <2>5
  <2>9. Shape(id, t, q)
    BY <1>6, <2>2, <2>5, <2>6, <2>7, <2>8 DEF Shape, all
  <2> QED BY <1>6, <2>9 DEF t
<1> QED BY <1>8, <1>9
-----------------------------------------------------------------------------
(* What take_new_fills has handed out is not disturbed by later fills, and *)
(* the fills it hands out next continue it.                                *)
LEMMA SubSeqAppend ==
  ASSUME NEW S, NEW s \in Seq(S), NEW e \in S, NEW k \in 0..Len(s)
  PROVE  /\ Append(s, e) \in Seq(S) /\ Len(Append(s, e)) = Len(s) + 1
         /\ SubSeq(Append(s, e), 1, k) = SubSeq(s, 1, k)
OBVIOUS

LEMMA SubSeqConcat ==
  ASSUME NEW S, NEW s \in Seq(S), NEW k \in 0..Len(s)
  PROVE  /\ SubSeq(s, 1, Len(s)) \in Seq(S)
         /\ SubSeq(s, 1, k) \o SubSeq(s, k + 1, Len(s)) = SubSeq(s, 1, Len(s))
<1>1. /\ Len(s) \in Nat /\ 1 \in 1..(Len(s) + 1) /\ k \in (1 - 1)..Len(s)
      /\ Len(s) \in k..Len(s)
  OBVIOUS
<1>2. SubSeq(s, 1, k) \o SubSeq(s, k + 1, Len(s)) = SubSeq(s, 1, Len(s))
  BY <1>1, ConcatAdjacentSubSeq
<1>3. \A j \in 1..Len(s) : s[j] \in S
  OBVIOUS
<1>4. SubSeq(s, 1, Len(s)) \in Seq(S)
  BY <1>1, <1>3, SubSeqProperties
<1> QED BY <1>2, <1>4

(* A new order has no fills.                                               *)
LEMMA SubmitBalances ==
  ASSUME NEW m \in Managers, Known(m), Balanced(m), NEW i \in Intents
  PROVE  LET p == [m EXCEPT !.orders = Append(@, NewOrder(i))]
         IN  /\ p \in Managers /\ Known(p) /\ Balanced(p)
             /\ p.orders = Append(m.orders, NewOrder(i)) /\ p.fills = m.fills
<1> DEFINE p == [m EXCEPT !.orders = Append(@, NewOrder(i))]
           n == Len(m.orders)
<1>1. m.orders \in Seq(Orders) /\ n \in Nat /\ DOMAIN m.orders = 1..n
  <2>1. m.orders \in Seq(Orders)
    BY DEF Managers
  <2> QED BY <2>1
<1>2. NewOrder(i) \in Orders /\ NewOrder(i).filled = 0
  BY DEF NewOrder, Orders, States
<1>3. Append(m.orders, NewOrder(i)) \in Seq(Orders)
  BY <1>1, <1>2
<1>4. /\ p.orders = Append(m.orders, NewOrder(i)) /\ p.fills = m.fills
      /\ p.net = m.net /\ p.cash = m.cash
  BY DEF Managers
<1>5. p \in Managers
  BY <1>3 DEF Managers
<1> HIDE DEF p
<1>6. /\ DOMAIN p.orders = 1..(n + 1) /\ p.orders[n + 1] = NewOrder(i)
      /\ \A id \in 1..n : p.orders[id] = m.orders[id]
  BY <1>1, <1>2, <1>4
<1>7. \A k \in DOMAIN m.fills : m.fills[k].id \in 1..n
  BY <1>1 DEF Known
<1>8. ShareFn(p) = ShareFn(m) /\ ValueFn(p) = ValueFn(m) /\ QtyFn(p) = QtyFn(m)
  BY <1>4 DEF ShareFn, ValueFn, QtyFn, Shares
<1>9. \A j \in Instruments : InstrumentFills(p, j) = InstrumentFills(m, j)
  BY <1>4, <1>6, <1>7 DEF InstrumentFills
<1>10. \A id \in 1..n : OrderFills(p, id) = OrderFills(m, id)
  BY <1>4 DEF OrderFills
<1>11. SumFunctionOnSet(QtyFn(p), OrderFills(p, n + 1)) = 0
  <2>1. OrderFills(p, n + 1) = {}
    BY <1>1, <1>4, <1>7 DEF OrderFills
  <2> QED BY <2>1, SumEmpty
<1>12. Known(p)
  BY <1>1, <1>4, <1>6, <1>7 DEF Known
<1>13. /\ \A j \in Instruments :
            /\ m.net[j] = SumFunctionOnSet(ShareFn(m), InstrumentFills(m, j))
            /\ m.cash[j] = -SumFunctionOnSet(ValueFn(m), InstrumentFills(m, j))
       /\ \A id \in 1..n : m.orders[id].filled = SumFunctionOnSet(QtyFn(m), OrderFills(m, id))
  BY <1>1 DEF Balanced, ShareFn, ValueFn, QtyFn
<1>14. /\ \A j \in Instruments :
            /\ p.net[j] = SumFunctionOnSet(ShareFn(p), InstrumentFills(p, j))
            /\ p.cash[j] = -SumFunctionOnSet(ValueFn(p), InstrumentFills(p, j))
       /\ \A id \in 1..n : p.orders[id].filled = SumFunctionOnSet(QtyFn(p), OrderFills(p, id))
  BY <1>4, <1>6, <1>8, <1>9, <1>10, <1>13
<1>15. \A id \in DOMAIN p.orders :
         p.orders[id].filled = SumFunctionOnSet(QtyFn(p), OrderFills(p, id))
  <2>1. \A id \in DOMAIN p.orders : id \in 1..n \/ id = n + 1
    BY <1>1, <1>6
  <2> QED BY <1>2, <1>6, <1>11, <1>14, <2>1
<1>16. Balanced(p)
  BY <1>14, <1>15 DEF Balanced, ShareFn, ValueFn, QtyFn
<1> QED BY <1>4, <1>5, <1>12, <1>16 DEF p
-----------------------------------------------------------------------------
(* The books m once reports have been applied to oms: balanced still, for  *)
(* the same orders, with what was handed out where it was.                 *)
Grew(m) ==
  /\ m \in Managers /\ Known(m) /\ Balanced(m)
  /\ Len(m.orders) = Len(oms.orders)
  /\ \A id \in DOMAIN oms.orders : m.orders[id].intent = oms.orders[id].intent
  /\ Len(oms.fills) <= Len(m.fills) /\ SubSeq(m.fills, 1, consumed) = handed

LEMMA GrewStep ==
  ASSUME oms \in Managers, consumed \in 0..Len(oms.fills),
         NEW m, Grew(m), NEW r \in Reports, r.id \in DOMAIN oms.orders
  PROVE  Grew(on_report(m, r))
<1> DEFINE p == on_report(m, r)
<1>1. m \in Managers /\ Known(m) /\ Balanced(m) /\ Len(m.orders) = Len(oms.orders)
  BY DEF Grew
<1>2. /\ m.orders \in Seq(Orders) /\ oms.orders \in Seq(Orders)
      /\ m.fills \in Seq(FillRecords) /\ oms.fills \in Seq(FillRecords)
  BY <1>1 DEF Managers
<1>3. DOMAIN m.orders = DOMAIN oms.orders
  BY <1>1, <1>2
<1>4. /\ p \in Managers /\ p.orders = [m.orders EXCEPT ![r.id] = OrderAfter(m.orders[r.id], r)]
      /\ p.fills = m.fills \/ p.fills = Append(m.fills, Recorded(m, r))
  BY <1>1, <1>3, OnReportFields
<1>5. Known(p) /\ Balanced(p)
  BY <1>1, <1>3, ReportBalances
<1>6. m.orders[r.id] \in Orders
  BY <1>2, <1>3
<1>7. /\ OrderAfter(m.orders[r.id], r) \in Orders
      /\ OrderAfter(m.orders[r.id], r).intent = m.orders[r.id].intent
  BY <1>6, OrderAfterFields
<1>8. Recorded(m, r) \in FillRecords
  BY <1>6, IntentFacts DEF Recorded, FillRecords, Reports, Orders
<1>9. /\ Len(oms.fills) <= Len(m.fills) /\ SubSeq(m.fills, 1, consumed) = handed
      /\ \A id \in DOMAIN oms.orders : m.orders[id].intent = oms.orders[id].intent
  BY DEF Grew
<1> HIDE DEF p
<1>10. Len(p.orders) = Len(oms.orders)
  BY <1>1, <1>2, <1>4, <1>7
<1>11. \A id \in DOMAIN oms.orders : p.orders[id].intent = oms.orders[id].intent
  BY <1>2, <1>3, <1>4, <1>7, <1>9
<1>12. Len(oms.fills) <= Len(p.fills) /\ SubSeq(p.fills, 1, consumed) = handed
  <2>1. consumed \in 0..Len(m.fills) /\ Len(m.fills) \in Nat /\ Len(oms.fills) \in Nat
    BY <1>2, <1>9
  <2>2. /\ Len(Append(m.fills, Recorded(m, r))) = Len(m.fills) + 1
        /\ SubSeq(Append(m.fills, Recorded(m, r)), 1, consumed) = SubSeq(m.fills, 1, consumed)
    BY <1>2, <1>8, <2>1, SubSeqAppend
  <2>3. CASE p.fills = m.fills
    BY <1>9, <2>3
  <2>4. CASE p.fills = Append(m.fills, Recorded(m, r))
    BY <1>9, <2>1, <2>2, <2>4
  <2> QED BY <1>4, <2>3, <2>4
<1>13. Grew(p)
  BY <1>4, <1>5, <1>10, <1>11, <1>12 DEF Grew
<1> QED BY <1>13 DEF p

(* A report moves its own order along, and no other.                       *)
LEMMA ReportFollows ==
  ASSUME NEW m \in Managers, NEW r \in Reports, r.id \in DOMAIN m.orders,
         NEW id \in DOMAIN m.orders, NEW s \in Seq(Reports),
         Shape(id, s, m.orders[id].intent.qty),
         NEW D \in SUBSET DOMAIN s, Follows(m.orders[id], s, D),
         NEW n, r.id = id => /\ n \in DOMAIN s /\ r = s[n]
                             /\ n \notin D \/ r.type # "Fill"
  PROVE  Follows(on_report(m, r).orders[id], s, IF r.id = id THEN D \cup {n} ELSE D)
<1>1. m.orders \in Seq(Orders) /\ m.orders[id] \in Orders
  BY DEF Managers
<1>2. on_report(m, r).orders = [m.orders EXCEPT ![r.id] = OrderAfter(m.orders[r.id], r)]
  BY OnReportFields
<1>3. CASE r.id = id
  <2>1. on_report(m, r).orders[id] = OrderAfter(m.orders[id], s[n])
    BY <1>1, <1>2, <1>3
  <2>2. Follows(OrderAfter(m.orders[id], s[n]), s, D \cup {n})
    BY <1>1, <1>3, FollowsStep
  <2> QED BY <1>3, <2>1, <2>2
<1>4. CASE r.id # id
  <2>1. on_report(m, r).orders[id] = m.orders[id]
    BY <1>1, <1>2, <1>4
  <2> QED BY <1>4, <2>1
<1> QED BY <1>3, <1>4
-----------------------------------------------------------------------------
(* What the invariant gives every action proof.                            *)
LEMMA InvFacts ==
  ASSUME IndInv
  PROVE  /\ oms \in Managers /\ consumed \in 0..Len(oms.fills) /\ Grew(oms)
         /\ exch \in Seq(Seq(Reports)) /\ DOMAIN oms.orders = DOMAIN exch
         /\ \A id \in DOMAIN exch :
              /\ id \in Nat /\ exch[id] \in Seq(Reports) /\ Delivered(id) \in SUBSET DOMAIN exch[id]
              /\ Shape(id, exch[id], oms.orders[id].intent.qty)
              /\ \A k \in DOMAIN exch[id] : exch[id][k].id = id /\ exch[id][k].n = k
<1>1. oms \in Managers /\ consumed \in 0..Len(oms.fills) /\ exch \in Seq(Seq(Reports))
  BY DEF IndInv, TypeOK
<1>2. oms.orders \in Seq(Orders) /\ oms.fills \in Seq(FillRecords)
  BY <1>1 DEF Managers
<1>3. Len(oms.orders) = Len(exch)
  BY DEF IndInv, Traced
<1>4. DOMAIN oms.orders = DOMAIN exch
  BY <1>1, <1>2, <1>3
<1>5. Len(oms.fills) <= Len(oms.fills)
  BY <1>2
<1>6. Grew(oms)
  BY <1>1, <1>5 DEF IndInv, Grew
<1>7. ASSUME NEW id \in DOMAIN exch
      PROVE  /\ id \in Nat /\ exch[id] \in Seq(Reports) /\ Delivered(id) \in SUBSET DOMAIN exch[id]
             /\ Shape(id, exch[id], oms.orders[id].intent.qty)
  <2>1. id \in Nat /\ exch[id] \in Seq(Reports)
    BY <1>1, <1>7
  <2>2. Shape(id, exch[id], oms.orders[id].intent.qty)
    BY <1>7 DEF IndInv, Tracked
  <2>3. Delivered(id) \in SUBSET DOMAIN exch[id]
    BY DEF Delivered
  <2> QED BY <2>1, <2>2, <2>3
<1>8. \A id \in DOMAIN exch : \A k \in DOMAIN exch[id] : exch[id][k].id = id /\ exch[id][k].n = k
  BY <1>7 DEF Shape
<1> QED BY <1>1, <1>4, <1>6, <1>7, <1>8

(* Reports that leave the books in order leave the rest so.                *)
LEMMA BooksKept ==
  ASSUME IndInv, Grew(oms'), UNCHANGED <<consumed, handed, exch>>,
         calling' \in 0..Len(exch), returned' \in Seq(Reports),
         inflight' \in SUBSET Reports, doubled' \in SUBSET Reports
  PROVE  /\ TypeOK' /\ Known(oms)' /\ Balanced(oms)' /\ Len(oms'.orders) = Len(exch')
         /\ (handed = SubSeq(oms.fills, 1, consumed))'
         /\ \A id \in DOMAIN exch : Shape(id, exch[id], oms'.orders[id].intent.qty)
<1>1. /\ oms' \in Managers /\ Known(oms') /\ Balanced(oms') /\ Len(oms'.orders) = Len(oms.orders)
      /\ \A id \in DOMAIN oms.orders : oms'.orders[id].intent = oms.orders[id].intent
      /\ Len(oms.fills) <= Len(oms'.fills) /\ SubSeq(oms'.fills, 1, consumed) = handed
  BY DEF Grew
<1>2. /\ oms \in Managers /\ consumed \in 0..Len(oms.fills) /\ DOMAIN oms.orders = DOMAIN exch
      /\ \A id \in DOMAIN exch : Shape(id, exch[id], oms.orders[id].intent.qty)
  BY InvFacts
<1>3. Known(oms)' /\ Balanced(oms)'
  BY <1>1 DEF Known, Balanced, Shares, InstrumentFills, OrderFills
<1>4. oms.fills \in Seq(FillRecords) /\ oms'.fills \in Seq(FillRecords)
  BY <1>1, <1>2 DEF Managers
<1>5. consumed' \in 0..Len(oms'.fills)
  BY <1>1, <1>2, <1>4
<1>6. TypeOK'
  BY <1>1, <1>5 DEF IndInv, TypeOK
<1>7. Len(oms'.orders) = Len(exch')
  BY <1>1 DEF IndInv, Traced
<1>8. \A id \in DOMAIN exch : Shape(id, exch[id], oms'.orders[id].intent.qty)
  BY <1>1, <1>2
<1> QED BY <1>1, <1>3, <1>6, <1>7, <1>8

(* A report from outside, the first time it comes or the second.           *)
LEMMA ReportArrives ==
  ASSUME IndInv, NEW r \in inflight, oms' = on_report(oms, r),
         UNCHANGED <<consumed, handed, exch, calling, returned>>,
         \/ inflight' = inflight \ {r} /\ doubled' = doubled
         \/ inflight' = inflight /\ doubled' = doubled \cup {r}
  PROVE  IndInv'
<1>1. /\ oms \in Managers /\ consumed \in 0..Len(oms.fills) /\ Grew(oms)
      /\ exch \in Seq(Seq(Reports)) /\ DOMAIN oms.orders = DOMAIN exch
      /\ \A id \in DOMAIN exch :
           /\ exch[id] \in Seq(Reports) /\ Delivered(id) \in SUBSET DOMAIN exch[id]
           /\ Shape(id, exch[id], oms.orders[id].intent.qty)
           /\ \A k \in DOMAIN exch[id] : exch[id][k].id = id /\ exch[id][k].n = k
  BY InvFacts
<1>2. /\ r \in Reports /\ r.id \in DOMAIN exch /\ r.n \in DOMAIN exch[r.id]
      /\ r = exch[r.id][r.n]
  BY DEF IndInv, TypeOK, Traced
<1>3. Grew(oms')
  BY <1>1, <1>2, GrewStep
<1>4. /\ calling' \in 0..Len(exch) /\ returned' \in Seq(Reports)
      /\ inflight' \in SUBSET Reports /\ doubled' \in SUBSET Reports
  BY <1>2 DEF IndInv, TypeOK
<1>5. /\ TypeOK' /\ Known(oms)' /\ Balanced(oms)' /\ Len(oms'.orders) = Len(exch')
      /\ (handed = SubSeq(oms.fills, 1, consumed))'
      /\ \A id \in DOMAIN exch : Shape(id, exch[id], oms'.orders[id].intent.qty)
  BY <1>3, <1>4, BooksKept
<1>6. Traced'
  BY <1>2, <1>5 DEF IndInv, Traced, ToSet
<1>7. r \notin ToSet(returned)
  BY DEF IndInv, Traced, ToSet
<1>8. ASSUME NEW id \in DOMAIN exch, Once(id)'
      PROVE  Follows(oms'.orders[id], exch[id], Delivered(id)')
  <2>1. Once(id) /\ Follows(oms.orders[id], exch[id], Delivered(id))
    BY <1>8 DEF IndInv, Tracked, Once
  <2>2. r.id = id => r.n \notin Delivered(id) \/ r.type # "Fill"
    <3> SUFFICES ASSUME r.id = id, r.type = "Fill" PROVE r.n \notin Delivered(id)
      OBVIOUS
    <3>1. r \notin doubled
      BY <1>8 DEF Once
    <3> QED BY <1>2, <3>1 DEF Delivered
  <2>3. Delivered(id)' = IF r.id = id THEN Delivered(id) \cup {r.n} ELSE Delivered(id)
    <3>1. \A k \in DOMAIN exch[id] : exch[id][k] = r <=> r.id = id /\ k = r.n
      BY <1>1, <1>2
    <3>2. Delivered(id)' \in SUBSET DOMAIN exch[id]
      BY DEF Delivered
    <3>3. \A k \in DOMAIN exch[id] : k \in Delivered(id)' <=> k \in Delivered(id) \/ exch[id][k] = r
      BY <1>7 DEF Delivered
    <3>4. CASE r.id = id
      <4>1. Delivered(id)' = Delivered(id) \cup {r.n}
        <5> DEFINE S == DOMAIN exch[id]
                   D == Delivered(id)
                   E == Delivered(id)'
                   n == r.n
        <5>1. D \in SUBSET S /\ E \in SUBSET S /\ n \in S
          BY <1>1, <1>2, <3>2, <3>4
        <5>2. \A k \in S : k \in E <=> k \in D \/ k = n
          BY <3>1, <3>3, <3>4
        <5> HIDE DEF S, D, E, n
        <5>3. E = D \cup {n}
          BY <5>1, <5>2
        <5> QED BY <5>3 DEF D, E, n
      <4> QED BY <3>4, <4>1
    <3>5. CASE r.id # id
      <4>1. Delivered(id)' = Delivered(id)
        <5> DEFINE S == DOMAIN exch[id]
                   D == Delivered(id)
                   E == Delivered(id)'
        <5>1. D \in SUBSET S /\ E \in SUBSET S
          BY <1>1, <3>2
        <5>2. \A k \in S : k \in E <=> k \in D
          BY <3>1, <3>3, <3>5
        <5> HIDE DEF S, D, E
        <5>3. E = D
          BY <5>1, <5>2
        <5> QED BY <5>3 DEF D, E
      <4> QED BY <3>5, <4>1
    <3> QED BY <3>4, <3>5
  <2>4. Follows(on_report(oms, r).orders[id], exch[id],
                IF r.id = id THEN Delivered(id) \cup {r.n} ELSE Delivered(id))
    <3>1. /\ r.id \in DOMAIN oms.orders /\ id \in DOMAIN oms.orders /\ exch[id] \in Seq(Reports)
          /\ Shape(id, exch[id], oms.orders[id].intent.qty)
          /\ Delivered(id) \in SUBSET DOMAIN exch[id]
      BY <1>1, <1>2
    <3>2. r.id = id => /\ r.n \in DOMAIN exch[id] /\ r = exch[id][r.n]
                       /\ r.n \notin Delivered(id) \/ r.type # "Fill"
      BY <1>2, <2>2
    <3> DEFINE s == exch[id]
               D == Delivered(id)
               n == r.n
    <3> HIDE DEF s, D, n
    <3>3. Follows(on_report(oms, r).orders[id], s, IF r.id = id THEN D \cup {n} ELSE D)
      BY <1>1, <1>2, <2>1, <3>1, <3>2, ReportFollows DEF s, D, n
    <3> QED BY <3>3 DEF s, D, n
  <2> QED BY <2>3, <2>4
<1>9. Tracked'
  BY <1>5, <1>8 DEF Tracked
<1> QED BY <1>5, <1>6, <1>9 DEF IndInv

(* submit applies the reports that send returned.                          *)
LEMMA ReturnsKept ==
  ASSUME IndInv, SubmitReturns
  PROVE  IndInv'
<1> DEFINE c == calling
           D(id, j) == IF id = c THEN Delivered(id) \cup (1..j) ELSE Delivered(id)
           Ahead(m, j) == \A id \in DOMAIN exch :
                            Once(id) => Follows(m.orders[id], exch[id], D(id, j))
           X == {m \in Managers : Grew(m)}
           Z == {z \in (0..Len(returned)) \X X : Ahead(z[2], z[1])}
           R == {r \in Reports : r.id \in DOMAIN exch}
<1>1. /\ oms \in Managers /\ consumed \in 0..Len(oms.fills) /\ Grew(oms)
      /\ exch \in Seq(Seq(Reports)) /\ DOMAIN oms.orders = DOMAIN exch
      /\ \A id \in DOMAIN exch :
           /\ exch[id] \in Seq(Reports) /\ Delivered(id) \in SUBSET DOMAIN exch[id]
           /\ Shape(id, exch[id], oms.orders[id].intent.qty)
           /\ \A k \in DOMAIN exch[id] : exch[id][k].id = id /\ exch[id][k].n = k
  BY InvFacts
<1>2. /\ c \in DOMAIN exch /\ returned \in Seq(Reports)
      /\ exch[c] \in Seq(Reports)
  BY <1>1 DEF IndInv, TypeOK, SubmitReturns
<1>3. /\ Len(returned) \in Nat /\ DOMAIN returned = 1..Len(returned)
      /\ Len(exch[c]) \in Nat /\ DOMAIN exch[c] = 1..Len(exch[c])
  BY <1>2
<1>4. \A k \in DOMAIN returned :
        /\ k \in DOMAIN exch[c] /\ returned[k] = exch[c][k] /\ returned[k] \notin inflight
        /\ returned[k].id = c /\ returned[k].n = k
  <2>1. \A k \in DOMAIN returned :
          /\ Len(returned) <= Len(exch[c]) /\ returned[k] = exch[c][k]
          /\ returned[k] \notin inflight
    BY DEF IndInv, Traced
  <2> QED BY <1>1, <1>2, <1>3, <2>1
<1>5. returned \in Seq(R)
  <2>1. \A k \in 1..Len(returned) : returned[k] \in R
    BY <1>2, <1>3, <1>4
  <2> HIDE DEF R
  <2>2. returned \in [1..Len(returned) -> R]
    BY <1>2, <2>1
  <2> QED BY <1>3, <2>2, SeqDef
<1>6. oms \in X
  BY <1>1
<1>7. \A m \in X, r \in R : on_report(m, r) \in X
  <2> SUFFICES ASSUME NEW m \in X, NEW r \in R PROVE on_report(m, r) \in X
    OBVIOUS
  <2>1. Grew(on_report(m, r))
    BY <1>1, GrewStep
  <2> QED BY <2>1 DEF Grew
<1>8. \A id \in DOMAIN exch, j \in 0..Len(returned) : D(id, j) \in SUBSET DOMAIN exch[id]
  <2> SUFFICES ASSUME NEW id \in DOMAIN exch, NEW j \in 0..Len(returned)
               PROVE  D(id, j) \in SUBSET DOMAIN exch[id]
    OBVIOUS
  <2>1. \A k \in 1..j : k \in DOMAIN exch[c]
    BY <1>3, <1>4
  <2> QED BY <1>1, <2>1
<1>9. <<0, oms>> \in Z
  <2>1. \A id \in DOMAIN exch : D(id, 0) = Delivered(id)
    OBVIOUS
  <2>2. Ahead(oms, 0)
    BY <2>1 DEF IndInv, Tracked
  <2>3. 0 \in 0..Len(returned)
    BY <1>3
  <2> HIDE DEF X, Ahead
  <2> QED BY <1>6, <2>2, <2>3
<1>10. ASSUME NEW j \in 0..(Len(returned) - 1), NEW m \in X, Ahead(m, j)
       PROVE  Ahead(on_report(m, returned[j + 1]), j + 1)
  <2> DEFINE r == returned[j + 1]
  <2>1. /\ j + 1 \in DOMAIN returned /\ j \in 0..Len(returned) /\ r \in Reports /\ r.id = c
        /\ r = exch[c][j + 1] /\ j + 1 \in DOMAIN exch[c] /\ r \notin inflight
    BY <1>2, <1>3, <1>4
  <2>2. /\ m \in Managers /\ DOMAIN m.orders = DOMAIN exch
        /\ \A id \in DOMAIN exch : m.orders[id].intent = oms.orders[id].intent
    <3>1. m \in Managers /\ oms.orders \in Seq(Orders) /\ m.orders \in Seq(Orders)
      BY <1>1 DEF Managers
    <3> QED BY <1>1, <3>1 DEF Grew
  <2>3. SUFFICES ASSUME NEW id \in DOMAIN exch, Once(id)
                 PROVE  Follows(on_report(m, r).orders[id], exch[id], D(id, j + 1))
    OBVIOUS
  <2> DEFINE s == exch[id]
             E == D(id, j)
             n == j + 1
  <2>4. Follows(m.orders[id], s, E) /\ E \in SUBSET DOMAIN s /\ s \in Seq(Reports)
    BY <1>1, <1>8, <1>10, <2>1, <2>3
  <2>5. Shape(id, s, m.orders[id].intent.qty)
    BY <1>1, <2>2
  <2>6. r.id = id => n \in DOMAIN s /\ r = s[n] /\ (n \notin E \/ r.type # "Fill")
    <3> SUFFICES ASSUME id = c, r.type = "Fill" PROVE n \notin E
      BY <2>1
    <3>1. r \notin doubled
      BY <2>1, <2>3 DEF Once
    <3>2. r \in ToSet(returned)
      BY <2>1 DEF ToSet
    <3>3. n \notin Delivered(id)
      BY <2>1, <3>1, <3>2 DEF Delivered
    <3> QED BY <3>3
  <2>7. D(id, j + 1) = IF r.id = id THEN E \cup {n} ELSE E
    <3>1. 1..(j + 1) = (1..j) \cup {j + 1}
      BY <1>3
    <3>2. CASE id = c
      <4> DEFINE F == Delivered(id)
                 U == 1..j
                 V == 1..(j + 1)
      <4>1. D(id, j + 1) = F \cup V /\ E = F \cup U /\ V = U \cup {n} /\ r.id = id
        BY <2>1, <3>1, <3>2
      <4> HIDE DEF D, E, F, U, V, n, r
      <4> QED BY <4>1
    <3>3. CASE id # c
      BY <2>1, <3>3
    <3> QED BY <3>2, <3>3
  <2> HIDE DEF s, E, n, r
  <2>8. Follows(on_report(m, r).orders[id], s, IF r.id = id THEN E \cup {n} ELSE E)
    BY <1>2, <2>1, <2>2, <2>4, <2>5, <2>6, ReportFollows
  <2> QED BY <2>7, <2>8 DEF s
<1> HIDE DEF Ahead, D
<1>11. \A j \in 0..(Len(returned) - 1), m \in X :
         <<j, m>> \in Z => <<j + 1, on_report(m, returned[j + 1])>> \in Z
  <2> SUFFICES ASSUME NEW j \in 0..(Len(returned) - 1), NEW m \in X, <<j, m>> \in Z
               PROVE  <<j + 1, on_report(m, returned[j + 1])>> \in Z
    OBVIOUS
  <2>1. Ahead(on_report(m, returned[j + 1]), j + 1)
    BY <1>10
  <2>2. returned[j + 1] \in R /\ j + 1 \in 0..Len(returned)
    BY <1>3, <1>5
  <2>3. on_report(m, returned[j + 1]) \in X
    BY <1>7, <2>2
  <2> HIDE DEF X
  <2> QED BY <2>1, <2>2, <2>3
<1>12. <<Len(returned), oms'>> \in Z
  <2>1. oms' = FoldLeft(on_report, oms, returned)
    BY DEF SubmitReturns
  <2> HIDE DEF X, Z, R
  <2> QED BY <1>5, <1>6, <1>7, <1>9, <1>11, <2>1, ReportedAlong
<1>13. Grew(oms') /\ Ahead(oms', Len(returned))
  BY <1>12
<1>14. /\ calling' = 0 /\ returned' = <<>>
       /\ UNCHANGED <<consumed, handed, exch, inflight, doubled>>
  BY DEF SubmitReturns
<1>15. /\ calling' \in 0..Len(exch) /\ returned' \in Seq(Reports)
       /\ inflight' \in SUBSET Reports /\ doubled' \in SUBSET Reports
  BY <1>1, <1>14 DEF IndInv, TypeOK
<1>16. /\ TypeOK' /\ Known(oms)' /\ Balanced(oms)' /\ Len(oms'.orders) = Len(exch')
       /\ (handed = SubSeq(oms.fills, 1, consumed))'
       /\ \A id \in DOMAIN exch : Shape(id, exch[id], oms'.orders[id].intent.qty)
  BY <1>13, <1>14, <1>15, BooksKept
<1>17. ToSet(returned)' = {}
  BY <1>14 DEF ToSet
<1>18. Traced'
  BY <1>14, <1>16, <1>17 DEF IndInv, Traced
<1>19. ASSUME NEW id \in DOMAIN exch PROVE Delivered(id)' = D(id, Len(returned))
  <2>1. \A k \in DOMAIN exch[id] : exch[id][k] \in ToSet(returned) <=> id = c /\ k \in 1..Len(returned)
    <3>1. \A k \in DOMAIN exch[id], j \in DOMAIN returned :
            exch[id][k] = returned[j] => id = c /\ k = j
      <4>1. \A k \in DOMAIN exch[id] : exch[id][k].id = id /\ exch[id][k].n = k
        BY <1>1
      <4> QED BY <1>4, <4>1
    <3>2. \A k \in DOMAIN exch[id] : exch[id][k] \in ToSet(returned) => id = c /\ k \in DOMAIN returned
      BY <3>1 DEF ToSet
    <3>3. \A k \in DOMAIN returned : id = c => exch[id][k] \in ToSet(returned)
      BY <1>4 DEF ToSet
    <3> QED BY <1>3, <3>2, <3>3
  <2>2. \A k \in DOMAIN exch[id] :
          k \in Delivered(id)' <=> exch[id][k] \notin inflight \/ exch[id][k] \in doubled
    BY <1>14, <1>17 DEF Delivered
  <2>3. \A k \in DOMAIN exch[id] : exch[id][k] \in ToSet(returned) => exch[id][k] \notin inflight
    BY <1>4 DEF ToSet
  <2>4. \A k \in DOMAIN exch[id] :
          k \in Delivered(id)' <=> k \in Delivered(id) \/ (id = c /\ k \in 1..Len(returned))
    BY <2>1, <2>2, <2>3 DEF Delivered
  <2>5. \A k \in DOMAIN exch[id] : k \in Delivered(id)' <=> k \in D(id, Len(returned))
    BY <2>4 DEF D
  <2>6. Delivered(id)' \in SUBSET DOMAIN exch[id]
    BY <1>14 DEF Delivered
  <2>7. D(id, Len(returned)) \in SUBSET DOMAIN exch[id]
    BY <1>3, <1>8
  <2> QED BY <2>5, <2>6, <2>7
<1>20. Tracked'
  <2>1. \A id \in DOMAIN exch : Once(id)' <=> Once(id)
    BY <1>14 DEF Once
  <2>2. \A id \in DOMAIN exch : Once(id)' => Follows(oms'.orders[id], exch[id], Delivered(id)')
    BY <1>13, <1>19, <2>1 DEF Ahead
  <2> QED BY <1>14, <1>16, <2>2 DEF Tracked
<1> QED BY <1>16, <1>18, <1>20 DEF IndInv

(* submit: a new order, whose reports nobody has seen yet.                 *)
LEMMA SubmitKept ==
  ASSUME IndInv, NEW i \in Intents, Submit(i)
  PROVE  IndInv'
<1>0. PICK id0 : id0 = Len(exch) + 1
  OBVIOUS
<1>1. PICK s0 \in Outcomes(i.qty) : Sent(id0, Numbered(id0, s0))
  BY <1>0 DEF Submit
<1> DEFINE t == Numbered(id0, s0)
<1>2. /\ oms \in Managers /\ consumed \in 0..Len(oms.fills)
      /\ exch \in Seq(Seq(Reports)) /\ DOMAIN oms.orders = DOMAIN exch
      /\ \A id \in DOMAIN exch :
           /\ exch[id] \in Seq(Reports) /\ Shape(id, exch[id], oms.orders[id].intent.qty)
           /\ \A k \in DOMAIN exch[id] : exch[id][k].id = id /\ exch[id][k].n = k
  BY InvFacts
<1>3. /\ id0 \in Nat /\ DOMAIN exch = 1..Len(exch) /\ Len(exch) \in Nat /\ id0 \notin DOMAIN exch
      /\ id0 # 0
  BY <1>0, <1>2
<1>4. t \in Seq(Reports) /\ Shape(id0, t, i.qty)
  BY <1>3, OutcomeShape
<1>5. \A k \in DOMAIN t : t[k].id = id0 /\ t[k].n = k /\ t[k] \in Reports
  BY <1>4 DEF Shape
<1> HIDE DEF t
<1>6. PICK k0 \in 0..Len(t) :
        /\ returned' = SubSeq(t, 1, k0)
        /\ inflight' = inflight \cup {t[j] : j \in (k0 + 1)..Len(t)}
  BY <1>1 DEF Sent, t
<1>7. /\ exch' = Append(exch, t) /\ calling' = id0 /\ calling = 0
      /\ UNCHANGED <<consumed, handed, doubled>>
      /\ oms' = [oms EXCEPT !.orders = Append(@, NewOrder(i))]
  BY <1>1 DEF Sent, Submit, t
<1>8. returned = <<>> /\ ToSet(returned) = {}
  <2>1. returned = <<>>
    BY <1>7 DEF IndInv, Traced
  <2> QED BY <2>1 DEF ToSet
<1>9. /\ Len(t) \in Nat /\ DOMAIN t = 1..Len(t)
      /\ returned' \in Seq(Reports) /\ Len(returned') = k0 /\ DOMAIN returned' = 1..k0
      /\ \A j \in 1..k0 : returned'[j] = t[j] /\ j \in DOMAIN t
  BY <1>4, <1>5, <1>6
<1>10. /\ DOMAIN exch' = DOMAIN exch \cup {id0} /\ exch'[id0] = t
       /\ \A id \in DOMAIN exch : exch'[id] = exch[id] /\ id # id0
       /\ exch' \in Seq(Seq(Reports)) /\ Len(exch') = id0
  BY <1>0, <1>2, <1>3, <1>4, <1>7
<1>11. /\ oms' \in Managers /\ Known(oms') /\ Balanced(oms')
       /\ oms'.orders = Append(oms.orders, NewOrder(i)) /\ oms'.fills = oms.fills
  BY <1>2, <1>7, SubmitBalances DEF IndInv
<1>12. Known(oms)' /\ Balanced(oms)'
  BY <1>11 DEF Known, Balanced, Shares, InstrumentFills, OrderFills
<1>13. inflight' \in SUBSET Reports
  <2>1. \A j \in (k0 + 1)..Len(t) : t[j] \in Reports
    BY <1>5, <1>9
  <2> QED BY <1>6, <2>1 DEF IndInv, TypeOK
<1>14. calling' \in 0..Len(exch')
  BY <1>3, <1>7, <1>10
<1>15. TypeOK'
  BY <1>7, <1>9, <1>10, <1>11, <1>13, <1>14 DEF IndInv, TypeOK
<1>16. (handed = SubSeq(oms.fills, 1, consumed))'
  BY <1>7, <1>11 DEF IndInv
<1>17. /\ Len(oms'.orders) = Len(exch') /\ oms'.orders[id0] = NewOrder(i)
       /\ \A id \in DOMAIN exch : oms'.orders[id] = oms.orders[id]
  <2>1. oms.orders \in Seq(Orders) /\ Len(oms.orders) = Len(exch)
    BY <1>2 DEF IndInv, Traced, Managers
  <2> QED BY <1>0, <1>2, <1>3, <1>10, <1>11, <2>1
<1>18. /\ \A r \in inflight \cup doubled : r.id \in DOMAIN exch /\ r.n \in DOMAIN exch[r.id] /\ r = exch[r.id][r.n]
       /\ \A r \in ToSet(returned)' : \E j \in 1..k0 : r = t[j]
       /\ \A j \in 1..k0 : t[j] \in ToSet(returned)'
  <2>1. \A r \in inflight \cup doubled :
          r.id \in DOMAIN exch /\ r.n \in DOMAIN exch[r.id] /\ r = exch[r.id][r.n]
    BY DEF IndInv, Traced
  <2> QED BY <1>9, <2>1 DEF ToSet
<1>19. Traced'
  <2>1. ASSUME NEW r \in inflight' \cup ToSet(returned)' \cup doubled'
        PROVE  r.id \in DOMAIN exch' /\ r.n \in DOMAIN exch'[r.id] /\ r = exch'[r.id][r.n]
    <3>1. r \in inflight \cup doubled \/ \E j \in DOMAIN t : r = t[j]
      BY <1>6, <1>7, <1>9, <1>18, <2>1
    <3> QED BY <1>5, <1>10, <1>18, <3>1
  <2>2. ASSUME NEW k \in DOMAIN returned'
        PROVE  returned'[k] = exch'[calling'][k] /\ returned'[k] \notin inflight'
    <3>1. returned'[k] = t[k] /\ k \in DOMAIN t /\ k \in 1..k0
      BY <1>9, <2>2
    <3>2. t[k] \notin inflight
      BY <1>3, <1>5, <1>18, <3>1
    <3>3. \A j \in (k0 + 1)..Len(t) : t[j] # t[k]
      BY <1>5, <1>9, <3>1
    <3> QED BY <1>6, <1>7, <1>10, <3>1, <3>2, <3>3
  <2>3. calling' # 0 /\ Len(returned') <= Len(exch'[calling'])
    BY <1>3, <1>7, <1>9, <1>10
  <2> QED BY <1>17, <2>1, <2>2, <2>3 DEF Traced
<1>20. Delivered(id0)' = {}
  <2>1. \A k \in DOMAIN t : t[k] \in inflight' \cup ToSet(returned)' /\ t[k] \notin doubled'
    <3> SUFFICES ASSUME NEW k \in DOMAIN t
                 PROVE  t[k] \in inflight' \cup ToSet(returned)' /\ t[k] \notin doubled'
      OBVIOUS
    <3>1. t[k] \notin doubled
      BY <1>3, <1>5, <1>18
    <3>2. k \in 1..k0 \/ k \in (k0 + 1)..Len(t)
      BY <1>9
    <3> QED BY <1>6, <1>7, <1>18, <3>1, <3>2
  <2>2. \A k \in Delivered(id0)' :
          k \in DOMAIN t /\ (t[k] \notin inflight' \cup ToSet(returned)' \/ t[k] \in doubled')
    BY <1>10 DEF Delivered
  <2> QED BY <2>1, <2>2
<1>21. ASSUME NEW id \in DOMAIN exch PROVE Delivered(id)' = Delivered(id)
  <2>0. \A k \in DOMAIN exch[id], j \in DOMAIN t : exch[id][k] # t[j]
    <3>1. \A k \in DOMAIN exch[id] : exch[id][k].id = id /\ id # id0
      BY <1>2, <1>10
    <3> QED BY <1>5, <3>1
  <2>1. \A k \in DOMAIN exch[id] : exch[id][k] \notin ToSet(returned)'
    BY <1>9, <1>18, <2>0
  <2>2. \A k \in DOMAIN exch[id] : exch[id][k] \in inflight' <=> exch[id][k] \in inflight
    <3>1. \A k \in DOMAIN exch[id], j \in (k0 + 1)..Len(t) : exch[id][k] # t[j]
      <4>1. \A j \in (k0 + 1)..Len(t) : j \in DOMAIN t
        BY <1>9
      <4> QED BY <2>0, <4>1
    <3> QED BY <1>6, <3>1
  <2> QED BY <1>7, <1>8, <1>10, <2>1, <2>2 DEF Delivered
<1>22. \A id \in DOMAIN exch : Once(id)' <=> Once(id)
  BY <1>7 DEF Once
<1>23. Tracked'
  <2>1. ASSUME NEW id \in DOMAIN exch
        PROVE  /\ Shape(id, exch'[id], oms'.orders[id].intent.qty)
               /\ Once(id)' => Follows(oms'.orders[id], exch'[id], Delivered(id)')
    BY <1>10, <1>17, <1>21, <1>22 DEF IndInv, Tracked
  <2>2. NewOrder(i).intent = i /\ Follows(NewOrder(i), t, {})
    BY <1>4, FollowsNew
  <2>3. /\ Shape(id0, exch'[id0], oms'.orders[id0].intent.qty)
        /\ Follows(oms'.orders[id0], exch'[id0], Delivered(id0)')
    BY <1>4, <1>10, <1>17, <1>20, <2>2
  <2>4. ASSUME NEW id \in DOMAIN exch'
        PROVE  /\ Shape(id, exch'[id], oms'.orders[id].intent.qty)
               /\ Once(id)' => Follows(oms'.orders[id], exch'[id], Delivered(id)')
    <3>1. id \in DOMAIN exch \/ id = id0
      BY <1>10, <2>4
    <3> QED BY <2>1, <2>3, <3>1
  <2> QED BY <2>4 DEF Tracked
<1> QED BY <1>12, <1>15, <1>16, <1>19, <1>23 DEF IndInv

(* take_new_fills hands out the fills that are new.                        *)
LEMMA TakeKept ==
  ASSUME IndInv, take_new_fills
  PROVE  IndInv'
<1> DEFINE s == oms.fills
<1>1. s \in Seq(FillRecords) /\ consumed \in 0..Len(s) /\ handed = SubSeq(s, 1, consumed)
  BY InvFacts DEF Managers, IndInv
<1>2. /\ handed' = handed \o SubSeq(s, consumed + 1, Len(s)) /\ consumed' = Len(s)
      /\ UNCHANGED <<oms, exch, calling, returned, inflight, doubled>>
  BY DEF take_new_fills
<1> HIDE DEF s
<1>3. handed' = SubSeq(s, 1, Len(s)) /\ handed' \in Seq(FillRecords)
  BY <1>1, <1>2, SubSeqConcat
<1>4. consumed' \in 0..Len(s)
  BY <1>1, <1>2
<1>5. TypeOK'
  BY <1>2, <1>3, <1>4 DEF IndInv, TypeOK, s
<1>6. (handed = SubSeq(oms.fills, 1, consumed))'
  BY <1>2, <1>3 DEF s
<1>7. Known(oms)' /\ Balanced(oms)'
  BY <1>2 DEF IndInv, Known, Balanced, Shares, InstrumentFills, OrderFills
<1>8. Traced' /\ Tracked'
  BY <1>2 DEF IndInv, Traced, Tracked, Once, Delivered
<1> QED BY <1>5, <1>6, <1>7, <1>8 DEF IndInv
-----------------------------------------------------------------------------
(* OrderManager::submit and on_report keep the inductive invariant: the    *)
(* books balance, every report is one the exchange has made, and an order  *)
(* is where the reports that have come put it.                             *)
THEOREM Invariance == Spec => []IndInv
<1>1. Init => IndInv
  <2> SUFFICES ASSUME Init PROVE IndInv
    OBVIOUS
  <2>1. /\ oms.orders = <<>> /\ oms.fills = <<>> /\ oms.net = Flat /\ oms.cash = Flat
        /\ oms \in Managers
    BY DEF Init, Managers, Flat
  <2>2. TypeOK
    BY <2>1 DEF Init, TypeOK
  <2>3. Known(oms)
    BY <2>1 DEF Known
  <2>4. Balanced(oms)
    <3>1. /\ \A i \in Instruments : InstrumentFills(oms, i) = {}
          /\ DOMAIN oms.orders = {}
      BY <2>1 DEF InstrumentFills
    <3>2. \A f : SumFunctionOnSet(f, {}) = 0
      BY SumEmpty
    <3>3. \A i \in Instruments : oms.net[i] = 0 /\ oms.cash[i] = 0
      BY <2>1 DEF Flat
    <3>4. \A i \in Instruments :
            /\ SumFunctionOnSet(ShareFn(oms), InstrumentFills(oms, i)) = 0
            /\ SumFunctionOnSet(ValueFn(oms), InstrumentFills(oms, i)) = 0
      BY <3>1, <3>2
    <3>5. \A i \in Instruments :
            /\ oms.net[i] = SumFunctionOnSet(ShareFn(oms), InstrumentFills(oms, i))
            /\ oms.cash[i] = -SumFunctionOnSet(ValueFn(oms), InstrumentFills(oms, i))
      BY <3>3, <3>4
    <3> QED BY <3>1, <3>5 DEF Balanced, ShareFn, ValueFn
  <2>5. Traced /\ Tracked
    BY <2>1 DEF Init, Traced, Tracked, ToSet
  <2>6. handed = SubSeq(oms.fills, 1, consumed)
    BY <2>1 DEF Init
  <2> QED BY <2>2, <2>3, <2>4, <2>5, <2>6 DEF IndInv
<1>2. IndInv /\ [Next]_vars => IndInv'
  <2> SUFFICES ASSUME IndInv, [Next]_vars PROVE IndInv'
    OBVIOUS
  <2>1. CASE \E intent \in Intents : Submit(intent)
    BY <2>1, SubmitKept
  <2>2. CASE SubmitReturns
    BY <2>2, ReturnsKept
  <2>3. CASE Deliver
    <3>1. PICK r \in inflight :
            /\ oms' = on_report(oms, r) /\ inflight' = inflight \ {r}
            /\ UNCHANGED <<consumed, handed, exch, calling, returned, doubled>>
      BY <2>3 DEF Deliver
    <3> QED BY <3>1, ReportArrives
  <2>4. CASE DeliverTwice
    <3>1. PICK r \in inflight :
            /\ oms' = on_report(oms, r) /\ doubled' = doubled \cup {r}
            /\ UNCHANGED <<consumed, handed, exch, calling, returned, inflight>>
      BY <2>4 DEF DeliverTwice
    <3> QED BY <3>1, ReportArrives
  <2>5. CASE take_new_fills
    BY <2>5, TakeKept
  <2>6. CASE UNCHANGED vars
    <3>1. UNCHANGED <<oms, consumed, handed, exch, calling, returned, inflight, doubled>>
      BY <2>6 DEF vars
    <3>2. TypeOK' /\ (handed = SubSeq(oms.fills, 1, consumed))'
      BY <3>1 DEF IndInv, TypeOK
    <3>3. Known(oms)' /\ Balanced(oms)'
      BY <3>1 DEF IndInv, Known, Balanced, Shares, InstrumentFills, OrderFills
    <3>4. Traced' /\ Tracked'
      BY <3>1 DEF IndInv, Traced, Tracked, Once, Delivered
    <3> QED BY <3>2, <3>3, <3>4 DEF IndInv
  <2> QED BY <2>1, <2>2, <2>3, <2>4, <2>5, <2>6 DEF Next, Idle
<1> QED BY <1>1, <1>2, PTL DEF Spec

(* Every variable keeps its type: what on_report writes is an order, a     *)
(* fill and a position, whatever report comes.                             *)
THEOREM TypeCorrect == Spec => []TypeOK
<1>1. IndInv => TypeOK
  BY DEF IndInv
<1> QED BY <1>1, Invariance, PTL

(* The books balance: the net_qty and the cash_paise PositionBook keeps,   *)
(* the filled_qty of every order and the fills take_new_fills has handed   *)
(* out are those of the fills on_report recorded, and no report is an      *)
(* orphan to the Reconciler, for any orders, any prices and any order in   *)
(* which the reports come, however often.                                  *)
THEOREM LedgerBalances == Spec => []Ledger
<1>1. IndInv => Ledger
  <2> SUFFICES ASSUME IndInv PROVE Ledger
    OBVIOUS
  <2>1. \A r \in inflight \cup ToSet(returned) : r.id \in DOMAIN oms.orders
    BY InvFacts DEF IndInv, Traced
  <2>2. \A r \in inflight \cup ToSet(returned) : on_external_fill(r.id) = "none"
    BY <2>1 DEF on_external_fill, known_order
  <2> QED BY <2>2 DEF IndInv, Ledger
<1> QED BY <1>1, Invariance, PTL

(* Reports out of order converge: once the reports on an order have all    *)
(* come, and no fill twice, on_report has brought it to where they would   *)
(* have brought it in the order the exchange made them, but for the name   *)
(* of a cancelled order that had filled in part.                           *)
THEOREM ReportsConverge == Spec => []Converges
<1>1. IndInv => Converges
  <2> SUFFICES ASSUME IndInv, NEW id \in DOMAIN exch, Settled(id)
               PROVE  LET p == FoldLeft(OrderAfter, NewOrder(oms.orders[id].intent), exch[id])
                          o == oms.orders[id]
                      IN  /\ o.filled = Filling(exch[id])
                          /\ \/ o = p
                             \/ /\ p.state = "Canceled" /\ o = [p EXCEPT !.state = "Partial"]
                                /\ o.filled > 0
    BY DEF Converges
  <2> DEFINE o == oms.orders[id]
             s == exch[id]
             p == FoldLeft(OrderAfter, NewOrder(o.intent), s)
  <2>1. /\ s \in Seq(Reports) /\ Shape(id, s, o.intent.qty) /\ id \in DOMAIN oms.orders
        /\ \A k \in DOMAIN s : s[k].id = id
    BY InvFacts
  <2>2. o \in Orders /\ o.intent \in Intents
    <3>1. oms.orders \in Seq(Orders)
      BY InvFacts DEF Managers
    <3>2. o \in Orders
      BY <2>1, <3>1
    <3> HIDE DEF o
    <3> QED BY <3>2 DEF Orders
  <2>3. Follows(o, s, DOMAIN s)
    <3>1. \A k \in DOMAIN s : s[k] \notin inflight \cup ToSet(returned)
      <4>1. \A r \in ToSet(returned) : r.id = calling
        <5>1. \A k \in DOMAIN returned :
                calling \in DOMAIN exch /\ k \in DOMAIN exch[calling]
                /\ returned[k] = exch[calling][k]
          <6>1. returned # <<>> => calling # 0 /\ Len(returned) <= Len(exch[calling])
            BY DEF IndInv, Traced
          <6>2. /\ exch \in Seq(Seq(Reports)) /\ calling \in 0..Len(exch)
                /\ returned \in Seq(Reports)
            BY DEF IndInv, TypeOK
          <6>3. calling # 0 => calling \in DOMAIN exch /\ exch[calling] \in Seq(Reports)
            BY <6>2
          <6>4. \A k \in DOMAIN returned : returned # <<>> /\ returned[k] = exch[calling][k]
            BY <6>2 DEF IndInv, Traced
          <6> QED BY <6>1, <6>2, <6>3, <6>4
        <5> QED BY <5>1, InvFacts DEF ToSet
      <4> QED BY <2>1, <4>1 DEF Settled
    <3>2. Delivered(id) = DOMAIN s
      BY <3>1 DEF Delivered
    <3>3. Once(id)
      BY DEF Settled, Once
    <3> QED BY <3>2, <3>3 DEF IndInv, Tracked
  <2> HIDE DEF o, s
  <2>4. /\ p \in Orders /\ p.intent = o.intent /\ Follows(p, s, DOMAIN s)
        /\ Has(s, DOMAIN s, {"Cancel"}) => p.state = "Canceled"
    BY <2>1, <2>2, InOrderFollows
  <2> HIDE DEF p
  <2>5. /\ o.filled = Filled(s, DOMAIN s)
        /\ \/ o = p
           \/ p.state = "Canceled" /\ o = [p EXCEPT !.state = "Partial"] /\ o.filled > 0
    BY <2>1, <2>2, <2>3, <2>4, FollowsAgree
  <2>6. Filled(s, DOMAIN s) = Filling(s)
    <3> DEFINE f == [k \in DOMAIN s |-> s[k].qty]
    <3>1. DOMAIN f = DOMAIN s
      OBVIOUS
    <3>2. Filled(s, DOMAIN s) = SumFunctionOnSet(f, DOMAIN s) /\ Filling(s) = SumFunctionOnSet(f, DOMAIN f)
      BY DEF Filled, Filling, SumFunction
    <3> HIDE DEF f
    <3> QED BY <3>1, <3>2
  <2> QED BY <2>5, <2>6 DEF o, s, p
<1> QED BY <1>1, Invariance, PTL
=============================================================================
