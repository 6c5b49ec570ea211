------------------------ MODULE OrderManager_proofs ------------------------
(***************************************************************************)
(* Proofs about OrderManager, for every value of its constants.            *)
(***************************************************************************)
EXTENDS OrderManager, TLAPS

USE ConstantsAssumption

-----------------------------------------------------------------------------
(* What the shared operators of the actions return *)

\* An order table with its type and its counts in order.
TableOK(t) ==
    /\ t \in [OrderNos -> Order]
    /\ \A o \in OrderNos :
           /\ t[o].told <= t[o].done /\ t[o].done <= t[o].qty
           /\ t[o] = Unsent \/ (t[o].code # None /\ t[o].kind # "none")

BooksOK == TableOK(orders) /\ nextNo \in Nat \ {0}

\* The part of TypeOK that sending an order or handling a signal may disturb.
SendOK == BooksOK /\ pending \subseteq Codes /\ sellTimer \in [Codes -> Timer]

\* Placing an order of any kind keeps the table well formed.
LEMMA PlaceTable ==
    ASSUME TypeOK, CanSend, NEW table, TableOK(table), NEW kind \in BuyKind \cup SellKind,
           NEW c \in Codes, NEW q \in Nat, NEW status \in BuyStatus
    PROVE  TableOK(Place(table, kind, c, q, status))
<1> DEFINE new == [code |-> c, kind |-> kind, qty |-> q, done |-> 0, told |-> 0,
                   status |-> status, day |-> day]
<1>1. new \in Order
  BY DEF Order, TypeOK, OrderStatus, BuyStatus
<1>2. Place(table, kind, c, q, status) = [table EXCEPT ![nextNo] = new]
  BY DEF Place
<1>3. new.told <= new.done /\ new.done <= new.qty /\ new.code # None /\ new.kind # "none"
  BY DEF BuyKind, SellKind
<1> HIDE DEF new
<1>4. [table EXCEPT ![nextNo] = new] \in [OrderNos -> Order]
  BY <1>1 DEF TableOK
<1> QED
  BY <1>2, <1>3, <1>4 DEF TableOK

\* A sell order that leaves keeps the types.
LEMMA SaleSentType ==
    ASSUME TypeOK, NEW table, TableOK(table), NEW p \in SUBSET Codes,
           NEW timers \in [Codes -> Timer], NEW kind \in SellKind, NEW c \in Codes,
           NEW q \in Nat, SaleSent(table, p, timers, kind, c, q)
    PROVE  SendOK'
<1>1. PICK status \in SaleStatus(c, q) : orders' = Place(table, kind, c, q, status)
  BY DEF SaleSent
<1>2. status \in BuyStatus
  BY DEF SaleStatus, BuyStatus
<1>3. TableOK(orders)'
  <2>1. TableOK(Place(table, kind, c, q, status))
    BY <1>2, PlaceTable DEF SaleSent
  <2> QED
    BY <1>1, <2>1 DEF TableOK
<1>4. nextNo' \in Nat \ {0}
  BY DEF SaleSent, TypeOK
<1>5. pending' \subseteq Codes /\ sellTimer' \in [Codes -> Timer]
  BY DEF SaleSent, Timer
<1> QED
  BY <1>3, <1>4, <1>5 DEF SendOK, BooksOK

\* So does one that does not.
LEMMA SaleNotSentType ==
    ASSUME TypeOK, NEW table, TableOK(table), NEW p \in SUBSET Codes,
           NEW timers \in [Codes -> Timer], SaleNotSent(table, p, timers)
    PROVE  SendOK'
  BY DEF SaleNotSent, SendOK, BooksOK, TableOK, TypeOK

\* The table of a typed state is well formed, also after a report.
LEMMA TypedTable == ASSUME TypeOK PROVE TableOK(orders)
  BY DEF TypeOK, TableOK

LEMMA ToldTable ==
    ASSUME TypeOK, NEW o \in OrderNos, NEW cum \in Nat, cum <= orders[o].done
    PROVE  TableOK(Told(o, cum))
<1> DEFINE new == [orders[o] EXCEPT !.told = cum]
<1>1. new \in Order /\ new.told <= new.done /\ new.done <= new.qty
  BY DEF TypeOK, Order
<1>2. new = Unsent \/ (new.code # None /\ new.kind # "none")
  <2>1. ASSUME orders[o] = Unsent PROVE new = Unsent
    <3>1. cum = 0
      BY <2>1 DEF Unsent
    <3> QED
      BY <2>1, <3>1 DEF Unsent
  <2>2. ASSUME orders[o].code # None, orders[o].kind # "none"
        PROVE  new.code # None /\ new.kind # "none"
    BY <2>2 DEF TypeOK, Order
  <2> QED
    BY <2>1, <2>2 DEF TypeOK
<1>3. Told(o, cum) = [orders EXCEPT ![o] = new]
  BY DEF Told, TypeOK
<1> HIDE DEF new
<1> QED
  BY <1>1, <1>2, <1>3 DEF TypeOK, TableOK

\* A signal that is turned away or put in the queue changes little.
LEMMA SignalRejectedType ==
    ASSUME TypeOK, NEW table, TableOK(table), NEW w \in SUBSET Codes, NEW release,
           NEW waiting \in Codes \cup {None}, SignalRejected(table, w, release, waiting)
    PROVE  /\ BooksOK' /\ pending' \subseteq Codes
           /\ appBuys' \in [Codes -> Nat] /\ meta' \subseteq Codes
           /\ queued' \in Codes \cup {None}
<1>1. TableOK(orders)'
  BY DEF SignalRejected, TableOK
<1> QED
  BY <1>1 DEF SignalRejected, BooksOK, TypeOK

\* Judging a signal keeps the types, whether its handler waited or not.
LEMMA SignalJudgedType ==
    ASSUME TypeOK, NEW d \in Codes, NEW table, TableOK(table), NEW p, NEW w \in SUBSET Codes,
           NEW release, NEW waiting \in Codes \cup {None},
           SignalJudged(d, table, p, w, release, waiting)
    PROVE  /\ BooksOK' /\ pending' \subseteq Codes
           /\ appBuys' \in [Codes -> Nat] /\ meta' \subseteq Codes
           /\ queued' \in Codes \cup {None}
<1>1. \A q \in 1..MaxQty, status \in BuyStatus :
          CanSend => TableOK(Place(table, "signal", d, q, status))
  BY PlaceTable DEF BuyKind
<1>2. orders' = table \/ (CanSend /\ \E q \in 1..MaxQty, status \in BuyStatus :
                              orders' = Place(table, "signal", d, q, status))
  BY DEF SignalJudged, SignalRejected
<1>3. TableOK(orders)'
  BY <1>1, <1>2 DEF TableOK
<1>4. nextNo' \in Nat \ {0}
  BY DEF SignalJudged, SignalRejected, TypeOK
<1>5. pending' \subseteq Codes /\ meta' \subseteq Codes /\ queued' \in Codes \cup {None}
  BY DEF SignalJudged, SignalRejected, TypeOK
<1>6. appBuys' \in [Codes -> Nat]
  BY DEF SignalJudged, SignalRejected, TypeOK
<1> QED
  BY <1>3, <1>4, <1>5, <1>6 DEF BooksOK

LEMMA SignalHandledType ==
    ASSUME TypeOK, NEW d \in Codes, NEW table, TableOK(table), NEW p, NEW w \in SUBSET Codes,
           NEW release, NEW waiting \in Codes \cup {None},
           SignalHandled(d, table, p, w, release, waiting)
    PROVE  /\ BooksOK' /\ pending' \subseteq Codes
           /\ appBuys' \in [Codes -> Nat] /\ meta' \subseteq Codes
           /\ queued' \in Codes \cup {None}
<1>1. \/ SignalRejected(table, w, release, waiting)
      \/ SignalJudged(d, table, p, w, release, waiting)
  BY DEF SignalHandled
<1>2. CASE SignalRejected(table, w, release, waiting)
  BY <1>2, SignalRejectedType
<1>3. CASE SignalJudged(d, table, p, w, release, waiting)
  BY <1>3, SignalJudgedType
<1> QED
  BY <1>1, <1>2, <1>3

-----------------------------------------------------------------------------
(* Type correctness *)

\* The sequence of leaves every action ends with: TypeOK in parts.
PosOK == pos \in [Codes -> Position] /\ \A c \in Codes : pos[c].today <= pos[c].qty
EntryOK ==
    /\ appBuys \in [Codes -> Nat] /\ meta \subseteq Codes
    /\ {queued, asking, closing} \subseteq Codes \cup {None}
    /\ closing # None => asking # None
BlocksOK == stopLoss \subseteq Codes /\ noReentry \subseteq Codes /\ forceIssued \subseteq Codes
FillsOK == cumulative \in [OrderNos -> Nat] /\ processed \subseteq OrderNos
OutsideOK == redelivered \in Nat /\ syncs \in Nat /\ day \in Nat
CancelOK == cancelTimer \in [Codes -> Timer]

LEMMA TypeParts ==
    TypeOK <=> (PosOK /\ SendOK /\ CancelOK /\ EntryOK /\ BlocksOK /\ FillsOK /\ OutsideOK)
  BY DEF TypeOK, PosOK, SendOK, BooksOK, TableOK, CancelOK, EntryOK, BlocksOK, FillsOK, OutsideOK

LEMMA TypePartsNext ==
    ASSUME PosOK', SendOK', CancelOK', EntryOK', BlocksOK', FillsOK', OutsideOK'
    PROVE  TypeOK'
  BY DEF TypeOK, PosOK, SendOK, BooksOK, TableOK, CancelOK, EntryOK, BlocksOK, FillsOK, OutsideOK

\* A forced exit of a held code keeps the types.
LEMMA ForceExitType ==
    ASSUME TypeOK, NEW c \in Codes, ForceExit(c)
    PROVE  SendOK' /\ noReentry' \subseteq Codes /\ forceIssued' \subseteq Codes
<1>1. pos[c].qty \in Nat /\ pending \in SUBSET Codes /\ sellTimer \in [Codes -> Timer]
  BY DEF TypeOK, Position
<1>2. ASSUME Sent("exit", c, pos[c].qty) PROVE SendOK'
  BY <1>1, <1>2, SaleSentType, TypedTable DEF Sent, SellKind
<1>3. ASSUME NotSent PROVE SendOK'
  BY <1>1, <1>3, SaleNotSentType, TypedTable DEF NotSent
<1>4. SendOK'
  BY <1>2, <1>3 DEF ForceExit
<1> QED
  BY <1>4 DEF ForceExit, TypeOK

LEMMA SignalType ==
    ASSUME TypeOK, NEW c \in Codes, HandleSignal(c)
    PROVE  TypeOK'
<1>1. BooksOK' /\ pending' \subseteq Codes /\ EntryOK'
  <2>1. pending \in SUBSET Codes /\ queued \in Codes \cup {None}
    BY DEF TypeOK
  <2> QED
    BY <2>1, SignalHandledType, TypedTable DEF HandleSignal, EntryOK, lookup, TypeOK
<1> QED
  BY <1>1, TypeParts, TypePartsNext
  DEF HandleSignal, blocks, fills, outside, PosOK, SendOK, CancelOK, BlocksOK, FillsOK, OutsideOK

LEMMA AskInfoType ==
    ASSUME TypeOK, NEW c \in Codes, AskInfo(c)
    PROVE  TypeOK'
<1>1. UNCHANGED <<pos, sale, appBuys, meta, queued, forceIssued, fills, blocks, books, outside>>
      /\ {asking', closing'} \subseteq Codes \cup {None} /\ asking' # None
  BY DEF AskInfo, TypeOK
<1> QED
  BY <1>1 DEF TypeOK, sale, fills, blocks, books, outside

\* The clocks _finalize_fill leaves are clocks.
LEMMA FinalizedType ==
    ASSUME NEW c, NEW timers \in [Codes -> Timer]
    PROVE  /\ Finalized(c, timers) \in [Codes -> Timer]
           /\ \A d \in Codes : Finalized(c, timers)[d] = IF d = c THEN "none" ELSE timers[d]
  BY DEF Finalized, Timer

LEMMA AnswerInfoType == ASSUME TypeOK, AnswerInfo PROVE TypeOK'
<1>1. asking \in Codes /\ pending \in SUBSET Codes /\ queued \in Codes \cup {None}
  BY DEF AnswerInfo, TypeOK
<1>2. SignalJudged(asking, orders, pos, pending, {closing}, queued)
  BY DEF AnswerInfo
<1>3. BooksOK' /\ pending' \subseteq Codes /\ appBuys' \in [Codes -> Nat] /\ meta' \subseteq Codes
      /\ queued' \in Codes \cup {None}
  BY <1>1, <1>2, SignalJudgedType, TypedTable
<1>4. EntryOK'
  BY <1>3 DEF AnswerInfo, EntryOK
<1>5. sellTimer' \in [Codes -> Timer] /\ cancelTimer' \in [Codes -> Timer]
  BY FinalizedType DEF AnswerInfo, TypeOK
<1> QED
  BY <1>3, <1>4, <1>5, TypeParts, TypePartsNext
  DEF AnswerInfo, blocks, fills, outside, PosOK, SendOK, CancelOK, BlocksOK, FillsOK, OutsideOK

LEMMA ManualBuyType ==
    ASSUME TypeOK, NEW c \in Codes, ManualBuy(c)
    PROVE  TypeOK'
<1>1. PICK q \in 1..MaxQty, status \in BuyStatus :
          /\ orders' = Place(orders, "manual", c, q, status)
          /\ appBuys' = [appBuys EXCEPT ![c] = q]
  BY DEF ManualBuy
<1>2. TableOK(Place(orders, "manual", c, q, status))
  BY PlaceTable, TypedTable DEF ManualBuy, BuyKind
<1>3. BooksOK'
  BY <1>1, <1>2 DEF BooksOK, TableOK, ManualBuy, TypeOK
<1>4. EntryOK'
  BY <1>1 DEF EntryOK, ManualBuy, lookup, TypeOK
<1> QED
  BY <1>3, <1>4, TypeParts, TypePartsNext
  DEF ManualBuy, blocks, fills, outside, PosOK, SendOK, CancelOK, BlocksOK, FillsOK, OutsideOK

\* The three price and calendar exits and the plain sale.
LEMMA ForcedType ==
    ASSUME TypeOK, NEW c \in Codes, StopLossTick(c) \/ TrailingTick(c) \/ ScheduledExit(c)
    PROVE  TypeOK'
<1>1. ForceExit(c)
  BY DEF StopLossTick, TrailingTick, ScheduledExit
<1>2. SendOK' /\ noReentry' \subseteq Codes /\ forceIssued' \subseteq Codes
  BY <1>1, ForceExitType
<1>3. stopLoss' \subseteq Codes
  BY DEF StopLossTick, TrailingTick, ScheduledExit, TypeOK
<1>4. UNCHANGED <<pos, cancelTimer, entry, fills, outside>>
  BY DEF StopLossTick, TrailingTick, ScheduledExit
<1> QED
  BY <1>2, <1>3, <1>4, TypeParts, TypePartsNext
  DEF entry, fills, outside, PosOK, EntryOK, CancelOK, BlocksOK, FillsOK, OutsideOK

LEMMA SellType ==
    ASSUME TypeOK, NEW c \in Codes, Sell(c)
    PROVE  TypeOK'
<1>1. PICK q \in 1..pos[c].qty : Sent("sale", c, q)
  BY DEF Sell
<1>2. q \in Nat /\ pending \in SUBSET Codes /\ sellTimer \in [Codes -> Timer]
  BY DEF TypeOK, Position
<1>3. SendOK'
  BY <1>1, <1>2, SaleSentType, TypedTable DEF Sent, SellKind
<1> QED
  BY <1>3, TypeParts, TypePartsNext
  DEF Sell, entry, fills, blocks, outside, PosOK, EntryOK, CancelOK, BlocksOK, FillsOK, OutsideOK

LEMMA ClockType ==
    ASSUME TypeOK, NEW c \in Codes, WatchdogCancel(c) \/ SellTimeout(c) \/ CancelTimeout(c)
    PROVE  TypeOK'
<1>1. UNCHANGED <<pos, pending, entry, forceIssued, fills, blocks, books, outside>>
  BY DEF WatchdogCancel, SellTimeout, CancelTimeout
<1>2. sellTimer' \in [Codes -> Timer] /\ cancelTimer' \in [Codes -> Timer]
  BY DEF WatchdogCancel, SellTimeout, CancelTimeout, TypeOK, Timer
<1> QED
  BY <1>1, <1>2 DEF TypeOK, entry, fills, blocks, books, outside

LEMMA SellQuantities ==
    ASSUME TypeOK, NEW c \in Codes
    PROVE  SellQty(pos[c]) \in Nat /\ PartialQty(pos[c].qty) \in Nat
<1>1. pos[c].qty \in Nat /\ pos[c].today \in Nat
  BY DEF TypeOK, Position
<1>2. SellQty(pos[c]) \in Nat
  BY <1>1 DEF SellQty, Least
<1>3. \A q \in Nat : PartialQty(q) \in Nat
  BY DEF PartialQty
<1> QED
  BY <1>1, <1>2, <1>3

LEMMA ExitCheckType ==
    ASSUME TypeOK, NEW c \in Codes, ExitCheck(c)
    PROVE  TypeOK'
<1> DEFINE free == IF Released(c) THEN pending \ {c} ELSE pending
           timers == IF Released(c) THEN [sellTimer EXCEPT ![c] = "none"] ELSE sellTimer
<1>1. free \in SUBSET Codes /\ timers \in [Codes -> Timer]
  BY DEF TypeOK, Timer
<1>2. \/ SaleNotSent(orders, free, timers)
      \/ SaleSent(orders, free, timers, "exit", c, SellQty(pos[c]))
      \/ SaleSent(orders, free, timers, "sale", c, PartialQty(pos[c].qty))
  BY DEF ExitCheck
<1> HIDE DEF free, timers
<1>3. SendOK'
  BY <1>1, <1>2, SellQuantities, SaleSentType, SaleNotSentType, TypedTable DEF SellKind
<1>4. PosOK'
  <2>1. pos' = pos \/ pos' = [pos EXCEPT ![c].partial = TRUE]
    BY DEF ExitCheck
  <2>2. ASSUME pos' = [pos EXCEPT ![c].partial = TRUE] PROVE PosOK'
    <3> DEFINE v == [pos[c] EXCEPT !.partial = TRUE]
    <3>1. pos[c] \in Position /\ pos[c].today <= pos[c].qty
      BY DEF TypeOK
    <3>2. v \in Position /\ v.today <= v.qty
      BY <3>1 DEF Position
    <3>3. pos' = [pos EXCEPT ![c] = v]
      BY <2>2 DEF TypeOK
    <3> HIDE DEF v
    <3> QED
      BY <3>2, <3>3 DEF PosOK, TypeOK
  <2> QED
    BY <2>1, <2>2 DEF PosOK, TypeOK
<1>5. CancelOK' /\ forceIssued' \subseteq Codes
  BY DEF ExitCheck, CancelOK, TypeOK, Timer
<1>6. stopLoss' \subseteq Codes /\ noReentry' \subseteq Codes
  BY DEF ExitCheck, blocks, TypeOK
<1> QED
  BY <1>3, <1>4, <1>5, <1>6, TypeParts, TypePartsNext
  DEF ExitCheck, entry, fills, outside, EntryOK, BlocksOK, FillsOK, OutsideOK

LEMMA BuyFilledType ==
    ASSUME TypeOK, NEW o \in OrderNos, NEW cum \in Nat, NEW f \in Nat, cum <= orders[o].done,
           orders[o].kind \in BuyKind, orders[o].code \in Codes,
           BuyFilled(o, cum, f), OutsideOK'
    PROVE  TypeOK'
<1> DEFINE c == orders[o].code
           app == appBuys[c] > 0
           free == IF app /\ appBuys[c] <= f THEN pending \ {c} ELSE pending
<1>1. c \in Codes /\ free \in SUBSET Codes /\ pending \ {c} \in SUBSET Codes
  BY DEF TypeOK
<1>2. \/ /\ pos' = IF pos[c].qty > 0 THEN pos
                   ELSE [pos EXCEPT ![c] = Opened(f)]
         /\ noReentry' = noReentry \cup {c}
         /\ \/ SaleSent(Told(o, cum), free, sellTimer, "exit", c, f)
            \/ SaleNotSent(Told(o, cum), free, sellTimer)
         /\ UNCHANGED cancelTimer
      \/ /\ \E n \in Nat : pos' = [pos EXCEPT ![c] =
                [qty |-> pos[c].qty + f, today |-> pos[c].today + (IF app THEN f ELSE 0),
                 opened |-> pos[c].opened \/ app, partial |-> pos[c].partial, entries |-> n]]
         /\ SaleNotSent(Told(o, cum), pending \ {c}, [sellTimer EXCEPT ![c] = "none"])
         /\ cancelTimer' = [cancelTimer EXCEPT ![c] = "none"]
         /\ UNCHANGED noReentry
  <2>1. pos[c].entries \in Nat
    BY <1>1 DEF TypeOK, Position
  <2> DEFINE n == pos[c].entries + (IF cumulative[o] = 0 \/ pos[c].qty = 0 THEN 1 ELSE 0)
  <2>2. n \in Nat
    BY <2>1
  <2> QED
    BY <2>2 DEF BuyFilled
<1>3. EntryOK' /\ FillsOK'
  BY <1>1 DEF BuyFilled, EntryOK, FillsOK, lookup, TypeOK, AtLeastZero
<1>4. TableOK(Told(o, cum))
  BY ToldTable
<1>5. sellTimer \in [Codes -> Timer] /\ [sellTimer EXCEPT ![c] = "none"] \in [Codes -> Timer]
  BY DEF TypeOK, Timer
<1>6. forceIssued' \subseteq Codes /\ stopLoss' \subseteq Codes
  BY DEF BuyFilled, TypeOK
<1> HIDE DEF free, app
<1>7. SendOK'
  BY <1>1, <1>2, <1>4, <1>5, SaleSentType, SaleNotSentType DEF SellKind
<1>8. CancelOK' /\ noReentry' \subseteq Codes
  BY <1>1, <1>2 DEF TypeOK, CancelOK, Timer
<1>9. PosOK'
  <2>1. pos[c] \in Position /\ pos[c].today <= pos[c].qty
    BY <1>1 DEF TypeOK
  <2>2. Opened(f) \in Position /\ Opened(f).today <= Opened(f).qty
    BY DEF Opened, Position
  <2>3. pos' = pos \/ \E v \in Position : v.today <= v.qty /\ pos' = [pos EXCEPT ![c] = v]
    <3>1. ASSUME NEW n \in Nat
          PROVE  LET v == [qty |-> pos[c].qty + f, today |-> pos[c].today + (IF app THEN f ELSE 0),
                           opened |-> pos[c].opened \/ app, partial |-> pos[c].partial,
                           entries |-> n]
                 IN  v \in Position /\ v.today <= v.qty
      <4>1. pos[c].opened \in BOOLEAN /\ pos[c].partial \in BOOLEAN
        BY <2>1 DEF Position
      <4>2. (pos[c].opened \/ app) \in BOOLEAN
        OBVIOUS
      <4>3. pos[c].qty \in Nat /\ pos[c].today \in Nat
        BY <2>1 DEF Position
      <4> QED
        BY <2>1, <4>1, <4>2, <4>3 DEF Position
    <3> QED
      BY <1>2, <2>2, <3>1
  <2> QED
    BY <1>1, <2>3 DEF PosOK, TypeOK
<1> QED
  BY <1>3, <1>6, <1>7, <1>8, <1>9, TypeParts, TypePartsNext DEF BlocksOK

LEMMA NoPositionType == NoPosition \in Position /\ NoPosition.today <= NoPosition.qty
  BY DEF NoPosition, Position

LEMMA SellFilledType ==
    ASSUME TypeOK, NEW o \in OrderNos, NEW cum \in Nat, NEW f \in Nat, cum <= orders[o].done,
           orders[o].kind \in SellKind, orders[o].code \in Codes,
           SellFilled(o, cum, f), OutsideOK'
    PROVE  TypeOK'
<1> DEFINE c == orders[o].code
<1>1. c \in Codes /\ TableOK(Told(o, cum)) /\ pending \in SUBSET Codes
  BY ToldTable DEF TypeOK
<1>2. FillsOK' /\ stopLoss' \subseteq Codes /\ noReentry' \subseteq Codes
  BY DEF SellFilled, FillsOK, blocks, TypeOK
<1>3. pos[c] \in Position /\ pos[c].today <= pos[c].qty
  BY <1>1 DEF TypeOK
<1>4. CASE o \in processed \/ pos[c].qty = 0
  <2>1. /\ SaleNotSent(Told(o, cum), pending, sellTimer)
        /\ UNCHANGED <<pos, cancelTimer, entry, forceIssued>>
    BY <1>4 DEF SellFilled
  <2>2. SendOK'
    BY <1>1, <2>1, SaleNotSentType DEF TypeOK
  <2> QED
    BY <1>2, <2>1, <2>2, TypeParts, TypePartsNext
    DEF entry, PosOK, CancelOK, EntryOK, BlocksOK
<1>5. CASE ~(o \in processed \/ pos[c].qty = 0) /\ f >= pos[c].qty
  <2>1. PositionClosed(c, Told(o, cum))
    BY <1>5 DEF SellFilled
  <2>2. PosOK'
    BY <1>1, <2>1, NoPositionType DEF PositionClosed, PosOK, TypeOK
  <2>3. /\ forceIssued' \subseteq Codes /\ CancelOK'
        /\ sellTimer' \in [Codes -> Timer]
    BY <2>1, FinalizedType DEF PositionClosed, TypeOK, CancelOK
  <2>4. BooksOK' /\ pending' \subseteq Codes /\ EntryOK'
    <3>1. CASE \E release : SignalRejected(Told(o, cum), pending, release, None)
      BY <1>1, <2>1, <3>1, SignalRejectedType DEF PositionClosed, EntryOK, lookup, TypeOK
    <3>2. CASE queued # None /\ SignalHandled(queued, Told(o, cum), pos', pending, {c}, None)
               /\ UNCHANGED lookup
      <4>1. queued \in Codes
        BY <3>2 DEF TypeOK
      <4> QED
        BY <1>1, <3>2, <4>1, SignalHandledType DEF EntryOK, lookup, TypeOK
    <3> QED
      BY <2>1, <3>1, <3>2 DEF PositionClosed
  <2> QED
    BY <1>2, <2>2, <2>3, <2>4, TypeParts, TypePartsNext DEF SendOK, BlocksOK
<1>6. CASE ~(o \in processed \/ pos[c].qty = 0) /\ ~(f >= pos[c].qty)
  <2> DEFINE timers == [sellTimer EXCEPT ![c] = IF @ = "none" THEN "fresh" ELSE @]
  <2>1. /\ pos' = [pos EXCEPT ![c] = Reduced(pos[c], f)]
        /\ SaleNotSent(Told(o, cum), pending, timers)
        /\ UNCHANGED <<cancelTimer, entry, forceIssued>>
    BY <1>6 DEF SellFilled
  <2>2. timers \in [Codes -> Timer]
    BY <1>1 DEF TypeOK, Timer
  <2>3. SendOK'
    BY <1>1, <2>1, <2>2, SaleNotSentType
  <2>4. PosOK'
    <3>1. Reduced(pos[c], f) \in Position /\ Reduced(pos[c], f).today <= Reduced(pos[c], f).qty
      BY <1>3, <1>6 DEF Position, Reduced, AtLeastZero
    <3> QED
      BY <1>1, <2>1, <3>1 DEF PosOK, TypeOK
  <2> QED
    BY <1>2, <2>1, <2>3, <2>4, TypeParts, TypePartsNext
    DEF entry, CancelOK, EntryOK, BlocksOK
<1> QED
  BY <1>4, <1>5, <1>6

LEMMA OnChejanType ==
    ASSUME TypeOK, NEW o \in OrderNos, NEW cum \in Nat, cum <= orders[o].done,
           orders[o].kind # "none" => orders[o].code \in Codes,
           OnChejan(o, cum), OutsideOK'
    PROVE  TypeOK'
<1> DEFINE f == NewShares(o, cum)
<1>1. f \in Nat
  BY DEF NewShares, AtLeastZero, TypeOK
<1>2. \/ f = 0 /\ cumulative' = [cumulative EXCEPT ![o] = cum] /\ orders' = Told(o, cum)
            /\ UNCHANGED <<pos, sale, entry, forceIssued, processed, blocks, nextNo>>
      \/ orders[o].kind \in BuyKind /\ BuyFilled(o, cum, f)
      \/ orders[o].kind \in SellKind /\ SellFilled(o, cum, f)
  BY <1>1 DEF OnChejan
<1> HIDE DEF f
<1>3. CASE f = 0 /\ cumulative' = [cumulative EXCEPT ![o] = cum] /\ orders' = Told(o, cum)
            /\ UNCHANGED <<pos, sale, entry, forceIssued, processed, blocks, nextNo>>
  BY <1>3, ToldTable DEF TableOK, TypeOK, OutsideOK, sale, entry, blocks
<1> QED
  BY <1>1, <1>2, <1>3, BuyFilledType, SellFilledType DEF BuyKind, SellKind

LEMMA ChejanType ==
    ASSUME TypeOK, NEW o \in OrderNos, Deliver(o) \/ Redeliver(o)
    PROVE  TypeOK'
<1>1. orders[o] \in Order /\ orders[o].told <= orders[o].done /\ orders[o].done <= orders[o].qty
  BY DEF TypeOK
<1>2. PICK cum \in Nat : cum <= orders[o].done /\ OnChejan(o, cum)
  BY <1>1 DEF Deliver, Redeliver, Order
<1>3. orders[o].kind # "none" => orders[o].code \in Codes
  BY <1>1 DEF TypeOK, Unsent, Order
<1>4. OutsideOK'
  BY DEF Deliver, Redeliver, outside, OutsideOK, TypeOK
<1> QED
  BY <1>2, <1>3, <1>4, OnChejanType

LEMMA ExecuteType ==
    ASSUME TypeOK, NEW o \in OrderNos, Execute(o)
    PROVE  TypeOK'
<1>1. PICK done \in (orders[o].done + 1)..orders[o].qty : orders' = [orders EXCEPT ![o].done = done]
  BY DEF Execute
<1> DEFINE new == [orders[o] EXCEPT !.done = done]
<1>2. orders[o] \in Order /\ orders[o].told <= orders[o].done /\ orders[o] # Unsent
  BY DEF TypeOK, Execute, Unsent
<1>3. new \in Order /\ new.told <= new.done /\ new.done <= new.qty
  BY <1>1, <1>2 DEF Order
<1>4. new.code # None /\ new.kind # "none"
  BY <1>2 DEF TypeOK, Order
<1>5. orders' = [orders EXCEPT ![o] = new]
  BY <1>1 DEF TypeOK
<1> HIDE DEF new
<1>6. TableOK(orders)'
  BY <1>3, <1>4, <1>5 DEF TypeOK, TableOK
<1> QED
  BY <1>6 DEF Execute, TypeOK, TableOK, sale, entry, fills, blocks, outside

LEMMA OnOrderMsgType ==
    ASSUME TypeOK, NEW o \in OrderNos, OnOrderMsg(o)
    PROVE  TypeOK'
<1> DEFINE c == orders[o].code
           new == [orders[o] EXCEPT !.status = "closed"]
<1>1. orders[o] \in Order /\ orders[o] # Unsent
  BY DEF TypeOK, OnOrderMsg, Unsent
<1>2. c \in Codes
  BY <1>1 DEF TypeOK, Order
<1>3. new \in Order /\ new.told <= new.done /\ new.done <= new.qty
  BY <1>1 DEF TypeOK, Order, OrderStatus
<1>4. new.code # None /\ new.kind # "none"
  BY <1>1 DEF TypeOK, Order
<1>5. orders' = [orders EXCEPT ![o] = new]
  BY DEF OnOrderMsg, TypeOK
<1> HIDE DEF new
<1>6. TableOK(orders)'
  BY <1>3, <1>4, <1>5 DEF TypeOK, TableOK
<1>7. SendOK' /\ CancelOK'
  BY <1>2, <1>6 DEF OnOrderMsg, BuyRefused, SaleRefused, SendOK, BooksOK, CancelOK, TypeOK, Timer
<1>8. PosOK'
  BY <1>2, NoPositionType DEF OnOrderMsg, BuyRefused, SaleRefused, PosOK, TypeOK
<1>9. EntryOK' /\ BlocksOK'
  BY <1>2 DEF OnOrderMsg, BuyRefused, SaleRefused, EntryOK, BlocksOK, lookup, TypeOK
<1> QED
  BY <1>7, <1>8, <1>9, TypeParts, TypePartsNext
  DEF OnOrderMsg, fills, outside, FillsOK, OutsideOK

LEMMA RollDayType == ASSUME TypeOK, RollDay PROVE TypeOK'
<1>1. \A o \in OrderNos :
          LET new == [orders[o] EXCEPT !.status = "lapsed"]
          IN  orders[o].status = "working" =>
                /\ new \in Order /\ new.told <= new.done /\ new.done <= new.qty
                /\ new.code # None /\ new.kind # "none"
  <2> SUFFICES ASSUME NEW o \in OrderNos, orders[o].status = "working"
               PROVE  LET new == [orders[o] EXCEPT !.status = "lapsed"]
                      IN  /\ new \in Order /\ new.told <= new.done /\ new.done <= new.qty
                          /\ new.code # None /\ new.kind # "none"
    OBVIOUS
  <2>1. orders[o] \in Order /\ orders[o] # Unsent
    BY DEF TypeOK, Unsent
  <2> QED
    BY <2>1 DEF TypeOK, Order, OrderStatus
<1>2. \A o \in OrderNos : \/ orders'[o] = orders[o]
                          \/ /\ orders[o].status = "working"
                             /\ orders'[o] = [orders[o] EXCEPT !.status = "lapsed"]
  BY DEF RollDay
<1>3. \A o \in OrderNos :
          /\ orders'[o] \in Order
          /\ orders'[o].told <= orders'[o].done /\ orders'[o].done <= orders'[o].qty
          /\ orders'[o] = Unsent \/ (orders'[o].code # None /\ orders'[o].kind # "none")
  BY <1>1, <1>2, ZenonT(60) DEF TypeOK
<1>4. orders' \in [OrderNos -> Order]
  <2> DEFINE g(o) == IF orders[o].status = "working" /\ orders[o].done < orders[o].qty
                     THEN [orders[o] EXCEPT !.status = "lapsed"] ELSE orders[o]
  <2>1. orders' = [o \in OrderNos |-> g(o)]
    BY DEF RollDay
  <2> HIDE DEF g
  <2> QED
    BY <1>3, <2>1
<1>5. PosOK'
  <2> DEFINE new(c) == [pos[c] EXCEPT !.today = 0]
  <2>1. pos' = [c \in Codes |-> new(c)]
    BY DEF RollDay
  <2>2. \A c \in Codes : new(c) \in Position /\ new(c).today <= new(c).qty
    BY DEF TypeOK, Position
  <2> HIDE DEF new
  <2> QED
    BY <2>1, <2>2 DEF PosOK
<1>6. SendOK'
  BY <1>3, <1>4 DEF RollDay, SendOK, BooksOK, TableOK, TypeOK, sale
<1> QED
  BY <1>5, <1>6, TypePartsNext
  DEF RollDay, TypeOK, sale, lookup, CancelOK, EntryOK, BlocksOK, FillsOK, OutsideOK

\* The positions a balance sync rebuilds are positions.
LEMMA SyncBalanceType == ASSUME TypeOK, SyncBalance PROVE TypeOK'
<1>1. PICK shown \in [Codes -> 0..(MaxOrders * MaxQty)], recent \in SUBSET Codes :
          pos' = [c \in Codes |-> Rebuilt(pos[c], shown[c], c \in recent)]
  BY DEF SyncBalance
<1>2. ASSUME NEW c \in Codes
      PROVE  /\ Rebuilt(pos[c], shown[c], c \in recent) \in Position
             /\ Rebuilt(pos[c], shown[c], c \in recent).today
                    <= Rebuilt(pos[c], shown[c], c \in recent).qty
  <2>1. shown[c] \in Nat /\ pos[c] \in Position
    BY DEF TypeOK
  <2>2. \A q, n \in Nat : Least(n, q) \in Nat /\ Least(n, q) <= q
    BY DEF Least
  <2> QED
    BY <2>1, <2>2, NoPositionType DEF Rebuilt, Position
<1>3. PosOK'
  <2> DEFINE new(c) == Rebuilt(pos[c], shown[c], c \in recent)
  <2>1. pos' = [c \in Codes |-> new(c)]
    BY <1>1
  <2>2. \A c \in Codes : new(c) \in Position /\ new(c).today <= new(c).qty
    BY <1>2
  <2> HIDE DEF new
  <2> QED
    BY <2>1, <2>2 DEF PosOK
<1> QED
  BY <1>3, TypeParts, TypePartsNext
  DEF SyncBalance, sale, entry, fills, blocks, books, SendOK, BooksOK, TableOK, CancelOK, EntryOK,
      BlocksOK, FillsOK, OutsideOK

\* Every step keeps the types.
LEMMA TypeStep == ASSUME TypeOK, [Next]_vars PROVE TypeOK'
<1>1. ASSUME NEW c \in Codes, Program(c) PROVE TypeOK'
  BY <1>1, SignalType, AskInfoType, ManualBuyType, ForcedType, SellType, ClockType, ExitCheckType DEF Program
<1>2. ASSUME NEW c \in Codes, Timers(c) PROVE TypeOK'
  BY <1>2, ClockType DEF Timers
<1>3. ASSUME NEW o \in OrderNos, Server(o) PROVE TypeOK'
  BY <1>3, ExecuteType, ChejanType, OnOrderMsgType DEF Server
<1>4. CASE UNCHANGED vars
  BY <1>4 DEF TypeOK, vars, sale, entry, fills, blocks, books, outside
<1> QED
  BY <1>1, <1>2, <1>3, <1>4, AnswerInfoType, SyncBalanceType, RollDayType DEF Next

LEMMA TypeInit == Init => TypeOK
<1> SUFFICES ASSUME Init PROVE TypeOK
  OBVIOUS
<1>1. Unsent \in Order /\ NoPosition \in Position
  BY DEF Unsent, Order, OrderStatus, NoPosition, Position
<1> QED
  BY <1>1 DEF Init, TypeOK, Timer, NoPosition, Unsent

\* Every reachable state has its types: no share count goes below zero and no
\* order is reported beyond its executions.
THEOREM TypeCorrect == Spec => []TypeOK
  BY TypeInit, TypeStep, PTL DEF Spec

-----------------------------------------------------------------------------
(* What a step does to the order table, seen from the entry rules *)

\* Order o keeps what the entry rules look at.
SameOrder(t, o) ==
    /\ t[o].code = orders[o].code /\ t[o].kind = orders[o].kind /\ t[o].day = orders[o].day

\* Order o is the one the step sends; its code was allowed, unless the handler had
\* waited for a price, or is barred now.
NewOrder(o) ==
    /\ o = nextNo /\ nextNo' = nextNo + 1 /\ orders'[o].day = day
    /\ orders'[o].kind = "signal" => asking # None \/ ~Barred(orders'[o].code)
    /\ orders'[o].kind = "exit" => orders'[o].code \in noReentry'

Table(t) == t \in [OrderNos -> Order] /\ \A o \in OrderNos : SameOrder(t, o)

OrdersGrow ==
    /\ \A o \in OrderNos : SameOrder(orders', o) \/ NewOrder(o)
    /\ nextNo' \in {nextNo, nextNo + 1}

LEMMA SameTable == ASSUME TypeOK PROVE Table(orders)
  BY DEF TypeOK, Table, SameOrder

LEMMA SameToldTable ==
    ASSUME TypeOK, NEW o \in OrderNos, NEW cum \in Nat, cum <= orders[o].done
    PROVE  Table(Told(o, cum))
<1>1. Told(o, cum) \in [OrderNos -> Order]
  BY ToldTable DEF TableOK
<1>2. SameOrder([orders EXCEPT ![o] = [orders[o] EXCEPT !.told = cum]], o)
  BY DEF SameOrder, TypeOK, Order
<1>3. Told(o, cum) = [orders EXCEPT ![o] = [orders[o] EXCEPT !.told = cum]]
  BY DEF Told, TypeOK
<1> QED
  BY <1>1, <1>2, <1>3 DEF Table, SameOrder, TypeOK

\* One more order in the table: the others stay, the new one is at nextNo.
LEMMA PlaceOne ==
    ASSUME TypeOK, CanSend, NEW table, Table(table), NEW kind, NEW c, NEW q, NEW status,
           orders' = Place(table, kind, c, q, status)
    PROVE  \A o \in OrderNos :
               \/ SameOrder(orders', o)
               \/ /\ o = nextNo /\ orders'[o].day = day
                  /\ orders'[o].kind = kind /\ orders'[o].code = c
<1> DEFINE new == [code |-> c, kind |-> kind, qty |-> q, done |-> 0, told |-> 0,
                   status |-> status, day |-> day]
<1>1. orders' = [table EXCEPT ![nextNo] = new]
  BY DEF Place
<1>2. new.day = day /\ new.kind = kind /\ new.code = c
  OBVIOUS
<1> HIDE DEF new
<1>3. nextNo \in OrderNos
  BY DEF TypeOK, CanSend, OrderNos
<1> QED
  BY <1>1, <1>2, <1>3 DEF Table, SameOrder

LEMMA SaleSentOrders ==
    ASSUME TypeOK, NEW table, Table(table), NEW p, NEW timers, NEW kind \in SellKind, NEW c, NEW q,
           kind = "exit" => c \in noReentry',
           SaleSent(table, p, timers, kind, c, q)
    PROVE  OrdersGrow
<1>1. \A o \in OrderNos :
          \/ SameOrder(orders', o)
          \/ /\ o = nextNo /\ orders'[o].day = day
             /\ orders'[o].kind = kind /\ orders'[o].code = c
  BY PlaceOne DEF SaleSent
<1>2. nextNo' = nextNo + 1
  BY DEF SaleSent
<1> QED
  BY <1>1, <1>2 DEF OrdersGrow, NewOrder, SellKind

LEMMA SaleNotSentOrders ==
    ASSUME TypeOK, NEW table, Table(table), NEW p, NEW timers, SaleNotSent(table, p, timers)
    PROVE  OrdersGrow
  BY DEF SaleNotSent, OrdersGrow, Table, SameOrder

\* A signal that becomes a buy passed the block lists and the breaker, whoever
\* called handle_signal, or the handler had waited.
LEMMA SignalJudgedOrders ==
    ASSUME TypeOK, NEW d, NEW table, Table(table), NEW p, NEW w, NEW release, NEW waiting,
           asking # None \/ ~Barred(d), SignalJudged(d, table, p, w, release, waiting)
    PROVE  OrdersGrow
<1>1. CASE orders' = table /\ nextNo' = nextNo
  BY <1>1 DEF OrdersGrow, Table, SameOrder
<1>2. ASSUME CanSend, NEW q \in 1..MaxQty, NEW status \in BuyStatus,
             orders' = Place(table, "signal", d, q, status), nextNo' = nextNo + 1
      PROVE  OrdersGrow
  <2>1. \A o \in OrderNos :
            \/ SameOrder(orders', o)
            \/ /\ o = nextNo /\ orders'[o].day = day
               /\ orders'[o].kind = "signal" /\ orders'[o].code = d
    BY <1>2, PlaceOne
  <2> QED
    BY <1>2, <2>1 DEF OrdersGrow, NewOrder
<1> QED
  BY <1>1, <1>2 DEF SignalJudged, SignalRejected

LEMMA SignalHandledOrders ==
    ASSUME TypeOK, NEW d, NEW table, Table(table), NEW p, NEW w, NEW release, NEW waiting,
           SignalHandled(d, table, p, w, release, waiting)
    PROVE  OrdersGrow
<1>1. CASE SignalRejected(table, w, release, waiting)
  BY <1>1 DEF SignalRejected, OrdersGrow, Table, SameOrder
<1>2. CASE ~Barred(d) /\ SignalJudged(d, table, p, w, release, waiting)
  BY <1>2, SignalJudgedOrders
<1> QED
  BY <1>1, <1>2 DEF SignalHandled

\* No step forgets an order or an exit of the day, and none sends a signal buy
\* of a barred code.
DayStep ==
    \/ day' = day /\ noReentry \subseteq noReentry' /\ OrdersGrow
    \/ /\ day' = day + 1 /\ nextNo' = nextNo
       /\ \A o \in OrderNos : SameOrder(orders', o)

LEMMA ForceExitOrders ==
    ASSUME TypeOK, NEW c \in Codes, ForceExit(c)
    PROVE  OrdersGrow /\ noReentry \subseteq noReentry'
<1>1. CASE c \in forceIssued
  BY <1>1, SameTable, SaleNotSentOrders DEF ForceExit, NotSent
<1>2. CASE c \notin forceIssued
  <2>1. c \in noReentry' /\ noReentry \subseteq noReentry'
    BY <1>2 DEF ForceExit
  <2> QED
    BY <1>2, <2>1, SameTable, SaleSentOrders, SaleNotSentOrders
    DEF ForceExit, Sent, NotSent, SellKind
<1> QED
  BY <1>1, <1>2

LEMMA ExitCheckOrders ==
    ASSUME TypeOK, NEW c \in Codes, ExitCheck(c)
    PROVE  OrdersGrow /\ noReentry \subseteq noReentry'
<1> DEFINE free == IF Released(c) THEN pending \ {c} ELSE pending
           timers == IF Released(c) THEN [sellTimer EXCEPT ![c] = "none"] ELSE sellTimer
<1>1. /\ \/ SaleNotSent(orders, free, timers)
         \/ c \in noReentry' /\ SaleSent(orders, free, timers, "exit", c, SellQty(pos[c]))
         \/ SaleSent(orders, free, timers, "sale", c, PartialQty(pos[c].qty))
      /\ noReentry \subseteq noReentry'
  BY DEF ExitCheck, blocks
<1> HIDE DEF free, timers
<1> QED
  BY <1>1, SameTable, SaleSentOrders, SaleNotSentOrders DEF SellKind

LEMMA ChejanOrders ==
    ASSUME TypeOK, NEW o \in OrderNos, Deliver(o) \/ Redeliver(o)
    PROVE  OrdersGrow /\ noReentry \subseteq noReentry'
<1>1. orders[o] \in Order /\ orders[o].told <= orders[o].done
  BY DEF TypeOK
<1>2. PICK cum \in Nat : cum <= orders[o].done /\ OnChejan(o, cum)
  BY <1>1 DEF Deliver, Redeliver, Order
<1> DEFINE f == NewShares(o, cum)
           c == orders[o].code
<1>3. Table(Told(o, cum))
  BY <1>2, SameToldTable
<1>4. CASE orders' = Told(o, cum) /\ UNCHANGED <<blocks, nextNo>>
  BY <1>3, <1>4 DEF OrdersGrow, Table, blocks
<1>5. CASE BuyFilled(o, cum, f)
  <2> DEFINE free == IF appBuys[c] > 0 /\ appBuys[c] <= f THEN pending \ {c} ELSE pending
  <2>1. \/ /\ noReentry' = noReentry \cup {c}
           /\ \/ SaleSent(Told(o, cum), free, sellTimer, "exit", c, f)
              \/ SaleNotSent(Told(o, cum), free, sellTimer)
        \/ /\ noReentry' = noReentry
           /\ SaleNotSent(Told(o, cum), pending \ {c}, [sellTimer EXCEPT ![c] = "none"])
    BY <1>5 DEF BuyFilled
  <2> HIDE DEF free
  <2> QED
    BY <1>3, <2>1, SaleSentOrders, SaleNotSentOrders DEF SellKind
<1>6. CASE SellFilled(o, cum, f)
  <2>1. noReentry' = noReentry
    BY <1>6 DEF SellFilled, blocks
  <2>2. \/ \E p, timers : SaleNotSent(Told(o, cum), p, timers)
        \/ orders' = Told(o, cum) /\ nextNo' = nextNo
        \/ SignalHandled(queued, Told(o, cum), pos', pending, {c}, None)
    BY <1>6 DEF SellFilled, PositionClosed, SignalRejected
  <2>3. CASE orders' = Told(o, cum) /\ nextNo' = nextNo
    BY <1>3, <2>1, <2>3 DEF OrdersGrow, Table
  <2> QED
    BY <1>3, <2>1, <2>2, <2>3, SaleNotSentOrders, SignalHandledOrders
<1> QED
  BY <1>2, <1>4, <1>5, <1>6 DEF OnChejan

LEMMA OtherOrders ==
    ASSUME TypeOK, NEW o \in OrderNos, Execute(o) \/ OnOrderMsg(o)
    PROVE  OrdersGrow /\ noReentry \subseteq noReentry'
<1>1. orders[o] \in Order
  BY DEF TypeOK
<1>2. \E new : /\ orders' = [orders EXCEPT ![o] = new]
               /\ new.code = orders[o].code /\ new.kind = orders[o].kind /\ new.day = orders[o].day
  <2>1. ASSUME NEW done, orders' = [orders EXCEPT ![o].done = done]
        PROVE  /\ orders' = [orders EXCEPT ![o] = [orders[o] EXCEPT !.done = done]]
               /\ [orders[o] EXCEPT !.done = done].code = orders[o].code
               /\ [orders[o] EXCEPT !.done = done].kind = orders[o].kind
               /\ [orders[o] EXCEPT !.done = done].day = orders[o].day
    BY <1>1, <2>1 DEF TypeOK, Order
  <2>2. ASSUME orders' = [orders EXCEPT ![o].status = "closed"]
        PROVE  /\ orders' = [orders EXCEPT ![o] = [orders[o] EXCEPT !.status = "closed"]]
               /\ [orders[o] EXCEPT !.status = "closed"].code = orders[o].code
               /\ [orders[o] EXCEPT !.status = "closed"].kind = orders[o].kind
               /\ [orders[o] EXCEPT !.status = "closed"].day = orders[o].day
    BY <1>1, <2>2 DEF TypeOK, Order
  <2>3. CASE Execute(o)
    BY <2>1, <2>3 DEF Execute
  <2>4. CASE OnOrderMsg(o)
    BY <2>2, <2>4 DEF OnOrderMsg
  <2> QED
    BY <2>3, <2>4
<1>3. nextNo' = nextNo /\ noReentry \subseteq noReentry'
  BY DEF Execute, OnOrderMsg, BuyRefused, SaleRefused, blocks
<1> QED
  BY <1>2, <1>3 DEF OrdersGrow, SameOrder, TypeOK

LEMMA RollDayOrders == ASSUME TypeOK, RollDay PROVE DayStep
<1>1. ASSUME NEW o \in OrderNos PROVE SameOrder(orders', o)
  <2>1. orders[o] \in Order
    BY DEF TypeOK
  <2>2. orders'[o] = orders[o] \/ orders'[o] = [orders[o] EXCEPT !.status = "lapsed"]
    BY DEF RollDay
  <2>3. CASE orders'[o] = [orders[o] EXCEPT !.status = "lapsed"]
    BY <2>1, <2>3 DEF SameOrder, Order
  <2> QED
    BY <2>2, <2>3 DEF SameOrder
<1> QED
  BY <1>1 DEF RollDay, DayStep

LEMMA EveryDayStep == ASSUME TypeOK, [Next]_vars PROVE DayStep
<1>1. ASSUME NEW c \in Codes, Program(c) \/ Timers(c) PROVE DayStep
  <2>1. day' = day
    BY <1>1 DEF Program, Timers, HandleSignal, AskInfo, ManualBuy, StopLossTick, TrailingTick,
       ScheduledExit, Sell, WatchdogCancel, ExitCheck, SellTimeout, CancelTimeout, outside
  <2>2. CASE HandleSignal(c)
    BY <2>1, <2>2, SameTable, SignalHandledOrders DEF HandleSignal, DayStep, blocks
  <2>3. CASE ManualBuy(c)
    <3>1. PICK q \in 1..MaxQty, status \in BuyStatus :
              orders' = Place(orders, "manual", c, q, status)
      BY <2>3 DEF ManualBuy
    <3>2. \A o \in OrderNos :
              \/ SameOrder(orders', o)
              \/ o = nextNo /\ orders'[o].day = day /\ orders'[o].kind = "manual"
      BY <2>3, <3>1, SameTable, PlaceOne DEF ManualBuy
    <3> QED
      BY <2>1, <2>3, <3>2 DEF ManualBuy, OrdersGrow, NewOrder, DayStep, blocks
  <2>4. CASE StopLossTick(c) \/ TrailingTick(c) \/ ScheduledExit(c)
    BY <2>1, <2>4, ForceExitOrders DEF StopLossTick, TrailingTick, ScheduledExit, DayStep
  <2>5. CASE Sell(c)
    BY <2>1, <2>5, SameTable, SaleSentOrders DEF Sell, Sent, SellKind, DayStep, blocks
  <2>6. CASE AskInfo(c) \/ WatchdogCancel(c) \/ Timers(c)
    BY <2>1, <2>6 DEF AskInfo, WatchdogCancel, Timers, SellTimeout, CancelTimeout, books, blocks,
       DayStep, OrdersGrow, SameOrder
  <2>7. CASE ExitCheck(c)
    BY <2>1, <2>7, ExitCheckOrders DEF DayStep
  <2> QED
    BY <1>1, <2>2, <2>3, <2>4, <2>5, <2>6, <2>7 DEF Program
<1>2. ASSUME NEW o \in OrderNos, Server(o) PROVE DayStep
  <2>1. day' = day
    BY <1>2 DEF Server, Execute, Deliver, Redeliver, OnOrderMsg, outside
  <2>2. CASE Execute(o) \/ OnOrderMsg(o)
    BY <2>1, <2>2, OtherOrders DEF DayStep
  <2> QED
    BY <1>2, <2>1, <2>2, ChejanOrders DEF Server, DayStep
<1>3. CASE UNCHANGED vars
  BY <1>3 DEF vars, books, blocks, outside, DayStep, OrdersGrow, SameOrder
<1>5. CASE SyncBalance
  BY <1>5 DEF SyncBalance, books, blocks, DayStep, OrdersGrow, SameOrder
<1>4. CASE AnswerInfo
  BY <1>4, SameTable, SignalJudgedOrders DEF AnswerInfo, DayStep, blocks, outside
<1> QED
  BY <1>1, <1>2, <1>3, <1>4, <1>5, RollDayOrders DEF Next

-----------------------------------------------------------------------------
(* No re-entry after an exit, no entry after the circuit breaker *)

\* Orders that do not exist yet have no kind.
Fresh == \A o \in OrderNos : o >= nextNo => orders[o].kind = "none"

LEMMA FreshStep == ASSUME TypeOK, Fresh, DayStep PROVE Fresh'
<1>1. nextNo \in Nat /\ \A o \in OrderNos : o \in Nat
  BY DEF TypeOK, OrderNos
<1> QED
  BY <1>1 DEF Fresh, DayStep, OrdersGrow, SameOrder, NewOrder

LEMMA FreshInit == ASSUME Init PROVE Fresh
  BY DEF Init, Fresh, Unsent

\* Where every signal has its snapshot, no handler ever waits.
LEMMA NeverAsking == ASSUME ~SnapshotMissing PROVE Spec => [](asking = None)
<1>1. Init => asking = None
  BY DEF Init
<1>2. ASSUME asking = None, [Next]_vars PROVE (asking = None)'
  <2>1. ASSUME NEW c \in Codes, Program(c) \/ Timers(c) PROVE asking' = None
    BY <1>2, <2>1 DEF Program, Timers, HandleSignal, AskInfo, MayAsk, ManualBuy, StopLossTick,
       TrailingTick, ScheduledExit, Sell, WatchdogCancel, ExitCheck, SellTimeout, CancelTimeout,
       entry, lookup
  <2>2. ASSUME NEW o \in OrderNos, Server(o) PROVE asking' = None
    <3>1. CASE Execute(o) \/ OnOrderMsg(o)
      BY <1>2, <3>1 DEF Execute, OnOrderMsg, entry, lookup
    <3>2. ASSUME NEW cum, OnChejan(o, cum) PROVE asking' = None
      <4>1. \/ UNCHANGED entry \/ UNCHANGED lookup
            \/ MayAsk(queued)
        BY <3>2 DEF OnChejan, BuyFilled, SellFilled, PositionClosed
      <4> QED
        BY <1>2, <4>1 DEF MayAsk, entry, lookup
    <3> QED
      BY <2>2, <3>1, <3>2 DEF Server, Deliver, Redeliver
  <2>3. CASE AnswerInfo \/ SyncBalance \/ RollDay \/ UNCHANGED vars
    BY <1>2, <2>3 DEF AnswerInfo, SyncBalance, RollDay, lookup, vars, entry
  <2> QED
    BY <1>2, <2>1, <2>2, <2>3 DEF Next
<1> QED
  BY <1>1, <1>2, PTL DEF Spec

\* The strengthening: the exits of the day have barred their codes, and no order
\* is from a later day.
ReentryInv ==
    /\ Fresh
    /\ \A x \in OrderNos : (orders[x].kind = "exit" /\ orders[x].day = day)
                           => orders[x].code \in noReentry
    /\ \A o \in OrderNos : orders[o].day <= day
    /\ NoReentryAfterExit

LEMMA ReentryStep ==
    ASSUME TypeOK, TypeOK', ReentryInv, DayStep, asking = None
    PROVE  ReentryInv'
<1>1. /\ nextNo \in Nat /\ day \in Nat
      /\ \A o \in OrderNos : o \in Nat /\ orders[o].day \in Nat
  BY DEF TypeOK, OrderNos, Order
<1>2. CASE day' = day /\ noReentry \subseteq noReentry' /\ OrdersGrow
  <2>1. Fresh'
    BY FreshStep DEF ReentryInv
  <2>2. \A x \in OrderNos : (orders'[x].kind = "exit" /\ orders'[x].day = day')
                            => orders'[x].code \in noReentry'
    BY <1>1, <1>2 DEF ReentryInv, OrdersGrow, SameOrder, NewOrder
  <2>3. \A o \in OrderNos : orders'[o].day <= day'
    BY <1>1, <1>2 DEF ReentryInv, OrdersGrow, SameOrder, NewOrder
  <2>4. ASSUME NEW x \in OrderNos, NEW o \in OrderNos,
               orders'[x].kind = "exit", orders'[o].kind = "signal",
               orders'[x].code = orders'[o].code, orders'[x].day = orders'[o].day
        PROVE  o < x
    <3>1. CASE SameOrder(orders', x) /\ SameOrder(orders', o)
      BY <2>4, <3>1 DEF ReentryInv, NoReentryAfterExit, SameOrder
    <3>2. CASE SameOrder(orders', x) /\ NewOrder(o)
      BY <2>4, <3>2 DEF ReentryInv, SameOrder, NewOrder, Barred
    <3>3. CASE NewOrder(x) /\ SameOrder(orders', o)
      BY <1>1, <2>4, <3>3 DEF ReentryInv, Fresh, SameOrder, NewOrder
    <3>4. CASE NewOrder(x) /\ NewOrder(o)
      BY <2>4, <3>4 DEF NewOrder
    <3> QED
      BY <1>2, <3>1, <3>2, <3>3, <3>4 DEF OrdersGrow
  <2> QED
    BY <2>1, <2>2, <2>3, <2>4 DEF ReentryInv, NoReentryAfterExit
<1>3. CASE /\ day' = day + 1 /\ nextNo' = nextNo
           /\ \A o \in OrderNos : SameOrder(orders', o)
  BY <1>1, <1>3, FreshStep DEF ReentryInv, NoReentryAfterExit, SameOrder
<1> QED
  BY <1>2, <1>3 DEF DayStep

LEMMA ReentryInit == ASSUME Init PROVE ReentryInv
  BY FreshInit DEF Init, ReentryInv, NoReentryAfterExit, Unsent

\* For any number of codes, orders and days: a code sold by an exit rule is not
\* bought again on a signal the same day, as long as no handler of a signal waits
\* for a price.
THEOREM NoReentry == ASSUME ~SnapshotMissing PROVE Spec => []NoReentryAfterExit
<1>1. Init => TypeOK /\ ReentryInv
  BY TypeInit, ReentryInit
<1>2. TypeOK /\ ReentryInv /\ asking = None /\ [Next]_vars => (TypeOK /\ ReentryInv)'
  BY TypeStep, EveryDayStep, ReentryStep
<1>3. ReentryInv => NoReentryAfterExit
  BY DEF ReentryInv
<1>4. Spec => [](asking = None)
  BY NeverAsking
<1> QED
  BY <1>1, <1>2, <1>3, <1>4, PTL DEF Spec

\* For any limit and any number of codes: once the circuit breaker has tripped,
\* no step sends a buy on a signal, as long as no handler of one waits for a price.
THEOREM BreakerStops == ASSUME ~SnapshotMissing PROVE Spec => BreakerStopsEntries
<1>1. ASSUME TypeOK, asking = None, [Next]_vars
      PROVE  \A o \in OrderNos :
                (/\ MaxStopLosses > 0 /\ Cardinality(stopLoss) >= MaxStopLosses
                 /\ orders[o].kind = "none")
                => orders'[o].kind # "signal"
  <2>1. DayStep
    BY <1>1, EveryDayStep
  <2> QED
    BY <1>1, <2>1 DEF DayStep, OrdersGrow, SameOrder, NewOrder, Barred, BreakerTripped
<1>2. Spec => [](asking = None)
  BY NeverAsking
<1> QED
  BY <1>1, <1>2, TypeCorrect, PTL DEF Spec, BreakerStopsEntries

-----------------------------------------------------------------------------
(* The record of a forced sale ends with the position *)

\* What a step other than a balance sync does with the records: none is left
\* without a position that was not so before.
RecordsEnd ==
    \A c \in forceIssued' : pos'[c].qty > 0 \/ (c \in forceIssued /\ pos[c].qty = 0)

\* A step that takes no shares out and forces no exit of a code it does not hold.
LEMMA KeptRecords ==
    ASSUME TypeOK, \A c \in Codes : pos'[c].qty >= pos[c].qty,
           forceIssued' \subseteq forceIssued \cup Holdings(pos),
           pos' \in [Codes -> Position]
    PROVE  RecordsEnd
<1>1. \A c \in Codes : pos[c].qty \in Nat /\ pos'[c].qty \in Nat
  BY DEF TypeOK, Position
<1> QED
  BY <1>1 DEF RecordsEnd, Holdings, TypeOK

LEMMA SellFilledRecords ==
    ASSUME TypeOK, NEW o \in OrderNos, NEW cum \in Nat, NEW f \in Nat,
           orders[o].code \in Codes, SellFilled(o, cum, f)
    PROVE  RecordsEnd
<1> DEFINE c == orders[o].code
<1>1. \/ UNCHANGED <<pos, forceIssued>>
      \/ pos' = [pos EXCEPT ![c] = NoPosition] /\ forceIssued' = forceIssued \ {c}
      \/ /\ ~(f >= pos[c].qty) /\ UNCHANGED forceIssued
         /\ pos' = [pos EXCEPT ![c] = Reduced(pos[c], f)]
  BY DEF SellFilled, PositionClosed
<1>2. \A d \in Codes : pos[d].qty \in Nat
  BY DEF TypeOK, Position
<1>3. ~(f >= pos[c].qty) => Reduced(pos[c], f).qty > 0
  BY <1>2 DEF Reduced
<1> QED
  BY <1>1, <1>2, <1>3 DEF RecordsEnd, TypeOK

LEMMA BuyFilledRecords ==
    ASSUME TypeOK, TypeOK', NEW o \in OrderNos, NEW cum \in Nat, NEW f \in Nat,
           orders[o].code \in Codes, BuyFilled(o, cum, f)
    PROVE  RecordsEnd
<1> DEFINE c == orders[o].code
<1>1. forceIssued' = forceIssued
  BY DEF BuyFilled
<1>2. \A d \in Codes : pos[d].qty \in Nat
  BY DEF TypeOK, Position
<1>3. \/ pos' = pos
      \/ pos[c].qty = 0 /\ pos' = [pos EXCEPT ![c] = Opened(f)]
      \/ \E v : v.qty = pos[c].qty + f /\ pos' = [pos EXCEPT ![c] = v]
  BY <1>2 DEF BuyFilled
<1>4. \A d \in Codes : pos'[d].qty >= pos[d].qty
  BY <1>2, <1>3 DEF Opened, TypeOK
<1> QED
  BY <1>1, <1>4, KeptRecords DEF TypeOK

LEMMA RecordsStep ==
    ASSUME TypeOK, TypeOK', [Next]_vars, syncs' = syncs
    PROVE  RecordsEnd
<1>0. /\ forceIssued \subseteq Codes /\ pos' \in [Codes -> Position]
      /\ \A d \in Codes : pos[d].qty \in Nat
  BY DEF TypeOK, Position
<1>1. ASSUME NEW c \in Codes, Program(c) \/ Timers(c) PROVE RecordsEnd
  <2>1. CASE \/ HandleSignal(c) \/ AskInfo(c) \/ ManualBuy(c) \/ Sell(c)
             \/ WatchdogCancel(c) \/ Timers(c)
    <3>1. UNCHANGED <<pos, forceIssued>>
      BY <2>1 DEF HandleSignal, AskInfo, ManualBuy, Sell, WatchdogCancel, Timers, SellTimeout,
         CancelTimeout
    <3> QED
      BY <1>0, <3>1, KeptRecords
  <2>2. CASE StopLossTick(c) \/ TrailingTick(c) \/ ScheduledExit(c)
    <3>1. UNCHANGED pos /\ c \in Holdings(pos) /\ forceIssued' \subseteq forceIssued \cup {c}
      BY <2>2 DEF StopLossTick, TrailingTick, ScheduledExit, ForceExit
    <3> QED
      BY <1>0, <3>1, KeptRecords
  <2>3. CASE ExitCheck(c)
    <3>1. forceIssued' \subseteq forceIssued
      BY <2>3 DEF ExitCheck
    <3>2. pos' = pos \/ pos' = [pos EXCEPT ![c].partial = TRUE]
      BY <2>3 DEF ExitCheck
    <3>3. \A d \in Codes : pos'[d].qty = pos[d].qty
      BY <3>2 DEF TypeOK, Position
    <3> QED
      BY <1>0, <3>1, <3>3, KeptRecords
  <2> QED
    BY <1>1, <2>1, <2>2, <2>3 DEF Program
<1>2. ASSUME NEW o \in OrderNos, Server(o) PROVE RecordsEnd
  <2>1. CASE Execute(o)
    BY <1>0, <2>1, KeptRecords DEF Execute
  <2>2. CASE Deliver(o) \/ Redeliver(o)
    <3>1. orders[o] \in Order /\ orders[o].told <= orders[o].done
      BY DEF TypeOK
    <3>2. PICK cum \in Nat : cum <= orders[o].done /\ OnChejan(o, cum)
      BY <2>2, <3>1 DEF Deliver, Redeliver, Order
    <3>3. orders[o].kind # "none" => orders[o].code \in Codes
      BY <3>1 DEF TypeOK, Unsent, Order
    <3>4. NewShares(o, cum) \in Nat
      BY DEF NewShares, AtLeastZero, TypeOK
    <3>5. CASE UNCHANGED <<pos, forceIssued>>
      BY <1>0, <3>5, KeptRecords
    <3> QED
      BY <3>2, <3>3, <3>4, <3>5, SellFilledRecords, BuyFilledRecords
      DEF OnChejan, BuyKind, SellKind
  <2>3. CASE OnOrderMsg(o)
    <3> DEFINE c == orders[o].code
    <3>1. \/ UNCHANGED <<pos, forceIssued>>
          \/ pos' = [pos EXCEPT ![c] = NoPosition] /\ forceIssued' = forceIssued \ {c}
      BY <2>3 DEF OnOrderMsg, BuyRefused, SaleRefused
    <3> QED
      BY <1>0, <3>1 DEF RecordsEnd, TypeOK
  <2> QED
    BY <1>2, <2>1, <2>2, <2>3 DEF Server
<1>3. CASE RollDay
  <2>1. \A c \in Codes : pos'[c].qty = pos[c].qty
    BY <1>3 DEF RollDay, TypeOK, Position
  <2> QED
    <3>1. forceIssued' = forceIssued
      BY <1>3 DEF RollDay
    <3>2. \A c \in Codes : pos'[c].qty >= pos[c].qty
      BY <1>0, <2>1
    <3> QED
      BY <1>0, <3>1, <3>2, KeptRecords
<1>4. CASE UNCHANGED vars \/ AnswerInfo
  BY <1>0, <1>4, KeptRecords DEF vars, AnswerInfo
<1>5. ~SyncBalance
  BY DEF SyncBalance, TypeOK
<1> QED
  BY <1>1, <1>2, <1>3, <1>4, <1>5 DEF Next

\* Whatever fills, refusals and repeats arrive in whatever order, no step but a
\* balance sync leaves the record of a forced sale without a position.
THEOREM ForceRecordEnds == Spec => ForceRecordEndsWithPosition
<1>1. TypeOK /\ TypeOK' /\ [Next]_vars =>
          (syncs' = syncs =>
               \A c \in forceIssued' :
                   pos'[c].qty > 0 \/ (c \in forceIssued /\ pos[c].qty = 0))
  BY RecordsStep DEF RecordsEnd
<1> QED
  BY <1>1, TypeCorrect, PTL DEF Spec, ForceRecordEndsWithPosition

-----------------------------------------------------------------------------
(* Awaited shares are unreported, and what is locked has a record *)

\* In the order table t some buy of c has n shares left, as far as the program
\* was told.
Owes(t, c, n) == \E o \in OrderNos :
    /\ t[o].code = c /\ t[o].kind \in BuyKind /\ t[o].status # "closed"
    /\ n <= t[o].qty - t[o].told

\* The table t has every buy of the order table as it was, or no longer refused.
KeepsBuys(t) ==
    /\ t \in [OrderNos -> Order]
    /\ \A o \in OrderNos : orders[o].kind \in BuyKind =>
           /\ t[o].code = orders[o].code /\ t[o].kind = orders[o].kind
           /\ t[o].qty = orders[o].qty /\ t[o].told = orders[o].told
           /\ orders[o].status # "closed" => t[o].status # "closed"

\* A lock is explained by the count of awaited shares, by a running clock or by a
\* fill handler that waits.
PendingAwaited ==
    \A c \in pending : \/ appBuys[c] > 0
                       \/ sellTimer[c] # "none"
                       \/ c = closing

\* The program's cumulative count of an order never runs ahead of the reports.
CumulativeBehind == \A o \in OrderNos : cumulative[o] <= orders[o].told

OwedInv == \A c \in Codes : appBuys[c] > 0 => Owes(orders, c, appBuys[c])

LEMMA OwedIsUnreported == ASSUME TypeOK PROVE OwedInv <=> AppBuysUnreported
<1>1. \A o \in OrderNos : orders[o].qty \in Nat /\ orders[o].told \in Nat
  BY DEF TypeOK, Order
<1>2. \A c \in Codes : appBuys[c] \in Nat
  BY DEF TypeOK
<1> QED
  BY <1>1, <1>2 DEF OwedInv, AppBuysUnreported, Owes, Outstanding, Buys

LEMMA OwesKept ==
    ASSUME NEW t, KeepsBuys(t), NEW c, NEW n, Owes(orders, c, n)
    PROVE  Owes(t, c, n)
  BY DEF KeepsBuys, Owes

\* A new order does not touch the buys, and a new buy owes what it asked for.
LEMMA OwesPlaced ==
    ASSUME TypeOK, Fresh, CanSend, NEW t, KeepsBuys(t), NEW kind, NEW d, NEW q \in Nat, NEW status,
           orders' = Place(t, kind, d, q, status)
    PROVE  /\ \A c, n : Owes(orders, c, n) => Owes(orders', c, n)
           /\ kind \in BuyKind /\ status # "closed" => Owes(orders', d, q)
<1> DEFINE new == [code |-> d, kind |-> kind, qty |-> q, done |-> 0, told |-> 0,
                   status |-> status, day |-> day]
<1>1. orders' = [t EXCEPT ![nextNo] = new]
  BY DEF Place
<1>2. new.code = d /\ new.kind = kind /\ new.qty = q /\ new.told = 0 /\ new.status = status
  OBVIOUS
<1> HIDE DEF new
<1>3. nextNo \in OrderNos /\ nextNo \in Nat
  BY DEF TypeOK, CanSend, OrderNos
<1>4. \A o \in OrderNos : orders[o].kind \in BuyKind => o # nextNo /\ orders'[o] = t[o]
  BY <1>1, <1>3 DEF Fresh, BuyKind, KeepsBuys
<1>5. \A c, n : Owes(orders, c, n) => Owes(orders', c, n)
  BY <1>4 DEF Owes, KeepsBuys
<1>6. orders'[nextNo] = new
  BY <1>1, <1>3 DEF KeepsBuys
<1>7. kind \in BuyKind /\ status # "closed" => Owes(orders', d, q)
  BY <1>2, <1>3, <1>6 DEF Owes
<1> QED
  BY <1>5, <1>7

LEMMA SaleOwes ==
    ASSUME TypeOK, Fresh, NEW t, KeepsBuys(t), NEW p, NEW timers, NEW kind, NEW d, NEW q \in Nat,
           SaleSent(t, p, timers, kind, d, q) \/ SaleNotSent(t, p, timers)
    PROVE  \A c, n : Owes(orders, c, n) => Owes(orders', c, n)
<1>1. CASE SaleNotSent(t, p, timers)
  BY <1>1, OwesKept DEF SaleNotSent
<1>2. CASE SaleSent(t, p, timers, kind, d, q)
  BY <1>2, OwesPlaced DEF SaleSent
<1> QED
  BY <1>1, <1>2

LEMMA SignalJudgedOwes ==
    ASSUME TypeOK, Fresh, OwedInv, NEW d \in Codes, NEW t, KeepsBuys(t), NEW p, NEW w,
           NEW release, NEW waiting, SignalJudged(d, t, p, w, release, waiting)
    PROVE  OwedInv' /\ \A c \in pending' :
               (c \in w /\ appBuys'[c] = appBuys[c]) \/ (c = d /\ appBuys'[c] > 0)
<1>1. CASE orders' = t /\ appBuys' = appBuys /\ pending' = w \ release
  BY <1>1, OwesKept DEF OwedInv
<1>2. ASSUME CanSend, NEW q \in 1..MaxQty, NEW status \in BuyStatus,
             orders' = Place(t, "signal", d, q, status),
             appBuys' = [appBuys EXCEPT ![d] = q], pending' = (w \cup {d}) \ release
      PROVE  OwedInv' /\ \A c \in pending' :
                 (c \in w /\ appBuys'[c] = appBuys[c]) \/ (c = d /\ appBuys'[c] > 0)
  <2>1. q \in Nat /\ q > 0 /\ "signal" \in BuyKind /\ status # "closed"
    BY DEF BuyKind, BuyStatus
  <2>2. Owes(orders', d, q) /\ \A c, n : Owes(orders, c, n) => Owes(orders', c, n)
    BY <1>2, <2>1, OwesPlaced
  <2>3. \A c \in Codes : appBuys'[c] = IF c = d THEN q ELSE appBuys[c]
    BY <1>2 DEF TypeOK
  <2>4. \A c : c # d => appBuys'[c] = appBuys[c]
    <3>1. appBuys \in [Codes -> Nat]
      BY DEF TypeOK
    <3> QED
      BY <1>2, <3>1
  <2> QED
    BY <1>2, <2>1, <2>2, <2>3, <2>4 DEF OwedInv
<1> QED
  BY <1>1, <1>2 DEF SignalJudged, SignalRejected

LEMMA SignalOwes ==
    ASSUME TypeOK, Fresh, OwedInv, NEW d \in Codes, NEW t, KeepsBuys(t), NEW p, NEW w,
           NEW release, NEW waiting, SignalHandled(d, t, p, w, release, waiting)
    PROVE  OwedInv' /\ \A c \in pending' :
               (c \in w /\ appBuys'[c] = appBuys[c]) \/ (c = d /\ appBuys'[c] > 0)
<1>1. CASE SignalRejected(t, w, release, waiting)
  BY <1>1, OwesKept DEF SignalRejected, OwedInv
<1>2. CASE SignalJudged(d, t, p, w, release, waiting)
  BY <1>2, SignalJudgedOwes
<1> QED
  BY <1>1, <1>2 DEF SignalHandled

\* Sending an order leaves every reported count as it is.
NothingTold(t) == t \in [OrderNos -> Order] /\ (CanSend => t[nextNo].told = 0)

LEMMA ToldPlaced ==
    ASSUME TypeOK, NEW t, NothingTold(t), CanSend, NEW kind, NEW d, NEW q, NEW status,
           orders' = Place(t, kind, d, q, status)
    PROVE  \A o \in OrderNos : orders'[o].told = t[o].told
<1> DEFINE new == [code |-> d, kind |-> kind, qty |-> q, done |-> 0, told |-> 0,
                   status |-> status, day |-> day]
<1>1. orders' = [t EXCEPT ![nextNo] = new] /\ new.told = 0
  BY DEF Place
<1> HIDE DEF new
<1> QED
  BY <1>1 DEF NothingTold

LEMMA SaleTold ==
    ASSUME TypeOK, NEW t, NothingTold(t), NEW p, NEW timers, NEW kind, NEW d, NEW q,
           SaleSent(t, p, timers, kind, d, q) \/ SaleNotSent(t, p, timers)
    PROVE  \A o \in OrderNos : orders'[o].told = t[o].told
  BY ToldPlaced DEF SaleSent, SaleNotSent

LEMMA SignalTold ==
    ASSUME TypeOK, NEW d, NEW t, NothingTold(t), NEW p, NEW w, NEW release, NEW waiting,
           \/ SignalHandled(d, t, p, w, release, waiting)
           \/ SignalJudged(d, t, p, w, release, waiting)
    PROVE  \A o \in OrderNos : orders'[o].told = t[o].told
  BY ToldPlaced DEF SignalHandled, SignalJudged, SignalRejected

LEMMA OrdersTables ==
    ASSUME TypeOK, Fresh
    PROVE  KeepsBuys(orders) /\ NothingTold(orders)
<1>1. ASSUME CanSend PROVE orders[nextNo].told = 0
  <2>1. nextNo \in OrderNos /\ nextNo \in Nat
    BY <1>1 DEF TypeOK, CanSend, OrderNos
  <2>2. orders[nextNo].kind = "none"
    BY <2>1 DEF Fresh
  <2> QED
    BY <2>1, <2>2 DEF TypeOK, Unsent
<1> QED
  BY <1>1 DEF TypeOK, KeepsBuys, NothingTold

\* The table in which a report of order o has been counted.
LEMMA ToldTables ==
    ASSUME TypeOK, Fresh, NEW o \in OrderNos, orders[o].kind # "none",
           NEW cum \in Nat, cum <= orders[o].done
    PROVE  /\ NothingTold(Told(o, cum)) /\ Told(o, cum)[o].told = cum
           /\ \A w \in OrderNos : w # o => Told(o, cum)[w] = orders[w]
           /\ orders[o].kind \notin BuyKind => KeepsBuys(Told(o, cum))
           /\ Told(o, cum)[o].code = orders[o].code /\ Told(o, cum)[o].kind = orders[o].kind
           /\ Told(o, cum)[o].qty = orders[o].qty /\ Told(o, cum)[o].status = orders[o].status
<1> DEFINE new == [orders[o] EXCEPT !.told = cum]
<1>1. Told(o, cum) = [orders EXCEPT ![o] = new] /\ Told(o, cum) \in [OrderNos -> Order]
  BY ToldTable DEF Told, TypeOK, TableOK
<1>2. /\ new.told = cum /\ new.code = orders[o].code /\ new.kind = orders[o].kind
      /\ new.qty = orders[o].qty /\ new.status = orders[o].status
  BY DEF TypeOK, Order
<1> HIDE DEF new
<1>3. \A w \in OrderNos : w # o => Told(o, cum)[w] = orders[w]
  BY <1>1 DEF TypeOK
<1>4. Told(o, cum)[o] = new
  BY <1>1 DEF TypeOK
<1>5. ASSUME CanSend PROVE Told(o, cum)[nextNo].told = 0
  <2>1. nextNo \in OrderNos /\ nextNo # o
    BY <1>5 DEF TypeOK, CanSend, OrderNos, Fresh
  <2> QED
    BY <1>3, <1>5, <2>1, OrdersTables DEF NothingTold
<1> QED
  BY <1>1, <1>2, <1>3, <1>4, <1>5 DEF NothingTold, KeepsBuys

ExplainInv == OwedInv /\ PendingAwaited /\ CumulativeBehind

\* A step that sends at most a sale of a held code and counts no report.
LEMMA SaleStepExplain ==
    ASSUME TypeOK, Fresh, ExplainInv, NEW p, NEW timers, NEW kind, NEW c \in Codes, NEW q \in Nat,
           SaleSent(orders, p, timers, kind, c, q) \/ SaleNotSent(orders, p, timers),
           p \subseteq pending, \A d \in p : timers[d] = sellTimer[d],
           timers \in [Codes -> Timer],
           UNCHANGED <<appBuys, cumulative, closing>>, pos[c].qty > 0,
           \A d \in Codes : pos'[d].qty = pos[d].qty
    PROVE  ExplainInv'
<1>1. \A d, n : Owes(orders, d, n) => Owes(orders', d, n)
  BY OrdersTables, SaleOwes
<1>2. \A o \in OrderNos : orders'[o].told = orders[o].told
  BY OrdersTables, SaleTold
<1>3. PendingAwaited'
  <2>1. CASE SaleNotSent(orders, p, timers)
    BY <2>1 DEF SaleNotSent, ExplainInv, PendingAwaited, TypeOK
  <2>2. CASE SaleSent(orders, p, timers, kind, c, q)
    <3>1. /\ pending' = p \cup {c}
          /\ \A d \in Codes : sellTimer'[d] = IF d = c THEN "fresh" ELSE timers[d]
      BY <2>2 DEF SaleSent
    <3> QED
      BY <3>1 DEF ExplainInv, PendingAwaited, TypeOK
  <2> QED
    BY <2>1, <2>2
<1> QED
  BY <1>1, <1>2, <1>3 DEF ExplainInv, OwedInv, CumulativeBehind

LEMMA ProgramExplain ==
    ASSUME TypeOK, Fresh, ExplainInv, NEW c \in Codes, Program(c) \/ Timers(c)
    PROVE  ExplainInv'
<1>1. CASE HandleSignal(c)
  <2>1. SignalHandled(c, orders, pos, pending, {}, queued)
        /\ UNCHANGED <<pos, sellTimer, cumulative, closing>>
    BY <1>1 DEF HandleSignal, fills, lookup
  <2>2. OwedInv' /\ \A d \in pending' :
            (d \in pending /\ appBuys'[d] = appBuys[d]) \/ (d = c /\ appBuys'[d] > 0)
    BY <2>1, OrdersTables, SignalOwes DEF ExplainInv
  <2>3. \A o \in OrderNos : orders'[o].told = orders[o].told
    BY <2>1, OrdersTables, SignalTold
  <2> QED
    BY <2>1, <2>2, <2>3 DEF ExplainInv, PendingAwaited, CumulativeBehind
<1>2. CASE ManualBuy(c)
  <2>1. PICK q \in 1..MaxQty, status \in BuyStatus :
            /\ orders' = Place(orders, "manual", c, q, status)
            /\ appBuys' = [appBuys EXCEPT ![c] = q]
    BY <1>2 DEF ManualBuy
  <2>2. CanSend /\ pending' = pending \cup {c} /\ UNCHANGED <<pos, sellTimer, cumulative, closing>>
    BY <1>2 DEF ManualBuy, fills, lookup
  <2>3. q \in Nat /\ q > 0 /\ "manual" \in BuyKind /\ status # "closed"
    BY DEF BuyKind, BuyStatus
  <2>4. Owes(orders', c, q) /\ \A d, n : Owes(orders, d, n) => Owes(orders', d, n)
    BY <2>1, <2>2, <2>3, OrdersTables, OwesPlaced
  <2>5. \A o \in OrderNos : orders'[o].told = orders[o].told
    BY <2>1, <2>2, OrdersTables, ToldPlaced
  <2>6. \A d \in Codes : appBuys'[d] = IF d = c THEN q ELSE appBuys[d]
    BY <2>1 DEF TypeOK
  <2>7. OwedInv'
    BY <2>4, <2>6 DEF ExplainInv, OwedInv
  <2>8. PendingAwaited'
    BY <2>2, <2>3, <2>6 DEF ExplainInv, PendingAwaited, TypeOK
  <2> QED
    BY <2>2, <2>5, <2>7, <2>8 DEF ExplainInv, CumulativeBehind
<1>3. CASE StopLossTick(c) \/ TrailingTick(c) \/ ScheduledExit(c)
  <2>1. c \in Holdings(pos) /\ ForceExit(c) /\ UNCHANGED <<pos, appBuys, cumulative, closing>>
    BY <1>3 DEF StopLossTick, TrailingTick, ScheduledExit, entry, fills
  <2>2. pos[c].qty \in Nat /\ pos[c].qty > 0
    BY <2>1 DEF Holdings, TypeOK, Position
  <2>3. \/ SaleSent(orders, pending, sellTimer, "exit", c, pos[c].qty)
        \/ SaleNotSent(orders, pending, sellTimer)
    BY <2>1 DEF ForceExit, Sent, NotSent
  <2> QED
    BY <2>1, <2>2, <2>3, SaleStepExplain DEF TypeOK
<1>4. CASE Sell(c)
  <2>1. PICK q \in 1..pos[c].qty : SaleSent(orders, pending, sellTimer, "sale", c, q)
    BY <1>4 DEF Sell, Sent
  <2>2. q \in Nat /\ pos[c].qty > 0 /\ UNCHANGED <<pos, appBuys, cumulative, closing>>
    BY <1>4 DEF Sell, Holdings, TypeOK, Position, entry, fills
  <2> QED
    BY <2>1, <2>2, SaleStepExplain DEF TypeOK
<1>5. CASE WatchdogCancel(c) \/ Timers(c)
  <2>1. \A d \in Codes : sellTimer'[d] = "none" => sellTimer[d] = "none"
    BY <1>5 DEF WatchdogCancel, Timers, SellTimeout, CancelTimeout, TypeOK
  <2>2. UNCHANGED <<pos, pending, appBuys, cumulative, closing, orders>>
    BY <1>5 DEF WatchdogCancel, Timers, SellTimeout, CancelTimeout, entry, fills, books
  <2> QED
    BY <2>1, <2>2 DEF ExplainInv, OwedInv, PendingAwaited, CumulativeBehind, TypeOK
<1>6. CASE ExitCheck(c)
  <2> DEFINE free == IF Released(c) THEN pending \ {c} ELSE pending
             timers == IF Released(c) THEN [sellTimer EXCEPT ![c] = "none"] ELSE sellTimer
  <2>1. /\ \/ SaleNotSent(orders, free, timers)
           \/ SaleSent(orders, free, timers, "exit", c, SellQty(pos[c]))
           \/ SaleSent(orders, free, timers, "sale", c, PartialQty(pos[c].qty))
        /\ UNCHANGED <<appBuys, cumulative, closing>>
    BY <1>6 DEF ExitCheck, entry, fills
  <2>2. free \subseteq pending /\ (\A d \in free : timers[d] = sellTimer[d])
        /\ timers \in [Codes -> Timer]
    BY DEF TypeOK, Timer
  <2>3. \A d \in Codes : pos'[d].qty = pos[d].qty
    <3>1. pos' = pos \/ pos' = [pos EXCEPT ![c].partial = TRUE]
      BY <1>6 DEF ExitCheck
    <3> QED
      BY <3>1 DEF TypeOK, Position
  <2>4. pos[c].qty > 0
    BY <1>6 DEF ExitCheck, Holdings
  <2> HIDE DEF free, timers
  <2> QED
    BY <2>1, <2>2, <2>3, <2>4, SellQuantities, SaleStepExplain
<1>7. CASE AskInfo(c)
  <2>1. UNCHANGED <<pos, sale, appBuys, cumulative, closing, orders>>
    BY <1>7 DEF AskInfo, fills, books
  <2> QED
    BY <2>1 DEF ExplainInv, OwedInv, PendingAwaited, CumulativeBehind, sale
<1> QED
  BY <1>1, <1>2, <1>3, <1>4, <1>5, <1>6, <1>7 DEF Program

\* The handler that waited goes on, and the fill handler that called it releases
\* the code it closes.
LEMMA AnswerInfoExplain ==
    ASSUME TypeOK, Fresh, ExplainInv, AnswerInfo
    PROVE  ExplainInv'
<1>1. /\ asking \in Codes /\ SignalJudged(asking, orders, pos, pending, {closing}, queued)
      /\ UNCHANGED <<pos, cumulative>>
  BY DEF AnswerInfo, TypeOK, fills
<1>2. OwedInv' /\ \A d \in pending' :
          (d \in pending /\ appBuys'[d] = appBuys[d]) \/ (d = asking /\ appBuys'[d] > 0)
  BY <1>1, OrdersTables, SignalJudgedOwes DEF ExplainInv
<1>3. \A o \in OrderNos : orders'[o].told = orders[o].told
  BY <1>1, OrdersTables, SignalTold
<1>4. closing \notin pending'
  BY <1>1 DEF SignalJudged, SignalRejected
<1>5. \A d \in Codes : d # closing => sellTimer'[d] = sellTimer[d]
  BY FinalizedType DEF AnswerInfo, TypeOK
<1>6. PendingAwaited'
  BY <1>1, <1>2, <1>4, <1>5, TypeOK DEF ExplainInv, PendingAwaited, TypeOK
<1> QED
  BY <1>1, <1>2, <1>3, <1>6 DEF ExplainInv, CumulativeBehind

\* The count of awaited shares shrinks with the fill, and so does what the order
\* that was to bring them still owes.
LEMMA BuyFilledExplain ==
    ASSUME TypeOK, Fresh, ExplainInv, NEW o \in OrderNos, NEW cum \in Nat,
           orders[o].told <= cum, cum <= orders[o].done, orders[o].code \in Codes,
           orders[o].kind \in BuyKind, orders[o].status # "closed",
           NEW f \in Nat, f > 0, f >= cum - cumulative[o], BuyFilled(o, cum, f)
    PROVE  ExplainInv'
<1> DEFINE c == orders[o].code
           app == appBuys[c] > 0
           complete == app /\ appBuys[c] <= f
           free == IF complete THEN pending \ {c} ELSE pending
           t == Told(o, cum)
<1>1. /\ orders[o].told \in Nat /\ orders[o].qty \in Nat /\ orders[o].done <= orders[o].qty
      /\ cumulative[o] \in Nat /\ cumulative[o] <= orders[o].told
      /\ \A d \in Codes : appBuys[d] \in Nat /\ pos[d].qty \in Nat
      /\ \A w \in OrderNos : orders[w].told \in Nat /\ orders[w].qty \in Nat
  BY DEF TypeOK, Order, Position, ExplainInv, CumulativeBehind
<1>2. /\ NothingTold(t) /\ t[o].told = cum /\ (\A w \in OrderNos : w # o => t[w] = orders[w])
      /\ t[o].code = c /\ t[o].kind = orders[o].kind /\ t[o].qty = orders[o].qty
      /\ t[o].status = orders[o].status
  BY ToldTables DEF BuyKind
<1>3. /\ appBuys' = [appBuys EXCEPT ![c] = IF app THEN AtLeastZero(@ - f) ELSE @]
      /\ cumulative' = [cumulative EXCEPT ![o] = IF complete THEN 0 ELSE cum]
  BY DEF BuyFilled
<1>4. \A d \in Codes : appBuys'[d] = IF d = c /\ app THEN AtLeastZero(appBuys[c] - f)
                                                      ELSE appBuys[d]
  BY <1>3 DEF TypeOK
<1>5. \/ SaleSent(t, free, sellTimer, "exit", c, f)
      \/ SaleNotSent(t, free, sellTimer)
      \/ SaleNotSent(t, pending \ {c}, [sellTimer EXCEPT ![c] = "none"])
  BY DEF BuyFilled
<1>6. \A w \in OrderNos : orders'[w].told = t[w].told
  <2> HIDE DEF free, t
  <2> QED
    BY <1>2, <1>5, SaleTold
<1>7. CumulativeBehind'
  <2>1. \A w \in OrderNos : cumulative'[w] = IF w = o THEN (IF complete THEN 0 ELSE cum)
                                                      ELSE cumulative[w]
    BY <1>3 DEF TypeOK
  <2> HIDE DEF t, complete
  <2> QED
    BY <1>1, <1>2, <1>6, <2>1 DEF ExplainInv, CumulativeBehind
<1>8. \A w \in OrderNos : orders[w].kind \in BuyKind =>
          /\ orders'[w].code = t[w].code /\ orders'[w].kind = t[w].kind
          /\ orders'[w].qty = t[w].qty /\ orders'[w].status = t[w].status
  <2>1. CASE orders' = t
    BY <2>1
  <2>2. CASE SaleSent(t, free, sellTimer, "exit", c, f)
    <3>1. \E new : orders' = [t EXCEPT ![nextNo] = new]
      BY <2>2 DEF SaleSent, Place
    <3>2. \A w \in OrderNos : orders[w].kind \in BuyKind => w # nextNo
      BY DEF Fresh, BuyKind, OrderNos, TypeOK
    <3>3. t \in [OrderNos -> Order]
      BY <1>2 DEF NothingTold
    <3> HIDE DEF t
    <3> QED
      BY <3>1, <3>2, <3>3
  <2> QED
    BY <1>5, <2>1, <2>2 DEF SaleNotSent
<1>9. OwedInv'
  <2> SUFFICES ASSUME NEW d \in Codes, appBuys'[d] > 0 PROVE Owes(orders', d, appBuys'[d])
    BY DEF OwedInv
  <2>1. appBuys[d] > 0 /\ appBuys'[d] <= appBuys[d]
        /\ (d = c => appBuys'[d] = appBuys[d] - f)
    BY <1>1, <1>4 DEF AtLeastZero
  <2>2. PICK w \in OrderNos :
            /\ orders[w].code = d /\ orders[w].kind \in BuyKind /\ orders[w].status # "closed"
            /\ appBuys[d] <= orders[w].qty - orders[w].told
    BY <2>1 DEF ExplainInv, OwedInv, Owes
  <2>3. CASE w # o
    <3>1. t[w] = orders[w]
      BY <1>2, <2>3
    <3>2. /\ orders'[w].code = d /\ orders'[w].kind \in BuyKind /\ orders'[w].status # "closed"
          /\ orders'[w].qty = orders[w].qty /\ orders'[w].told = orders[w].told
      BY <1>6, <1>8, <2>2, <3>1
    <3>3. appBuys'[d] <= orders'[w].qty - orders'[w].told
      BY <1>1, <1>4, <2>1, <2>2, <3>2 DEF AtLeastZero
    <3> QED
      BY <3>2, <3>3 DEF Owes
  <2>4. CASE w = o
    <3>1. d = c
      BY <2>2, <2>4
    <3>2. /\ orders'[o].code = d /\ orders'[o].kind \in BuyKind /\ orders'[o].status # "closed"
          /\ orders'[o].qty = orders[o].qty /\ orders'[o].told = cum
      BY <1>2, <1>6, <1>8, <2>2, <2>4
    <3>3. appBuys'[d] <= orders'[o].qty - orders'[o].told
      <4>1. appBuys'[d] = appBuys[d] - f /\ appBuys[d] <= orders[o].qty - orders[o].told
        BY <2>1, <2>2, <2>4, <3>1
      <4> QED
        BY <1>1, <3>2, <4>1
    <3> QED
      BY <3>2, <3>3 DEF Owes
  <2> QED
    BY <2>3, <2>4
<1>10. PendingAwaited'
  <2> closing' = closing
    BY DEF BuyFilled, lookup
  <2>1. CASE SaleNotSent(t, pending \ {c}, [sellTimer EXCEPT ![c] = "none"])
             /\ \E v : pos' = [pos EXCEPT ![c] = v]
    <3>1. pending' = pending \ {c} /\ \A d \in Codes : d # c =>
              appBuys'[d] = appBuys[d] /\ pos'[d] = pos[d] /\ sellTimer'[d] = sellTimer[d]
      BY <1>4, <2>1 DEF SaleNotSent, TypeOK
    <3> QED
      BY <3>1 DEF ExplainInv, PendingAwaited, TypeOK
  <2>2. CASE /\ \/ SaleSent(t, free, sellTimer, "exit", c, f)
                \/ SaleNotSent(t, free, sellTimer)
             /\ pos' = IF pos[c].qty > 0 THEN pos ELSE [pos EXCEPT ![c] = Opened(f)]
    <3>1. pos'[c].qty > 0 /\ \A d \in Codes : d # c => pos'[d] = pos[d]
      BY <2>2 DEF Opened, TypeOK
    <3>2. \A d \in Codes : d # c => appBuys'[d] = appBuys[d] /\ (d \in free => d \in pending)
      BY <1>4
    <3>3. c \in free => appBuys'[c] > 0 \/ (appBuys[c] = 0 /\ c \in pending)
      BY <1>1, <1>4 DEF AtLeastZero
    <3>4. /\ pending' \subseteq free \cup {c}
          /\ \A d \in Codes : d # c => sellTimer'[d] = sellTimer[d]
          /\ (c \in pending' /\ c \notin free) => sellTimer'[c] # "none"
          /\ sellTimer'[c] \in {"fresh", sellTimer[c]}
      BY <2>2 DEF SaleSent, SaleNotSent, TypeOK
    <3> HIDE DEF free
    <3>5. ASSUME NEW d \in pending', d # c
          PROVE  appBuys'[d] > 0 \/ sellTimer'[d] # "none" \/ d = closing
      <4>1. d \in pending /\ d \in Codes
        BY <3>2, <3>4, <3>5 DEF TypeOK, free
      <4> QED
        BY <3>1, <3>2, <3>4, <3>5, <4>1 DEF ExplainInv, PendingAwaited
    <3>6. ASSUME c \in pending'
          PROVE  appBuys'[c] > 0 \/ sellTimer'[c] # "none" \/ c = closing
      BY <3>1, <3>3, <3>4, <3>6 DEF ExplainInv, PendingAwaited
    <3> QED
      BY <3>5, <3>6 DEF PendingAwaited
  <2> QED
    BY <2>1, <2>2 DEF BuyFilled
<1> QED
  BY <1>7, <1>9, <1>10 DEF ExplainInv

\* Sold shares change no awaited count; the code of a sold-out position leaves
\* pending even when a waiting signal is replayed first.
LEMMA SellFilledExplain ==
    ASSUME TypeOK, Fresh, ExplainInv, NEW o \in OrderNos, NEW cum \in Nat,
           orders[o].told <= cum, cum <= orders[o].done, orders[o].code \in Codes,
           orders[o].kind \in SellKind, NEW f \in Nat, SellFilled(o, cum, f)
    PROVE  ExplainInv'
<1> DEFINE c == orders[o].code
           t == Told(o, cum)
           dropped == o \in processed \/ pos[c].qty = 0
<1>1. KeepsBuys(t) /\ NothingTold(t) /\ t[o].told = cum
      /\ \A w \in OrderNos : w # o => t[w] = orders[w]
  BY ToldTables DEF SellKind, BuyKind
<1>2. pos[c].qty \in Nat /\ \A w \in OrderNos : orders[w].told \in Nat
  BY DEF TypeOK, Position, Order
<1> HIDE DEF t
<1>3. CumulativeBehind' /\ OwedInv' /\ PendingAwaited'
  <2>1. (\A w \in OrderNos : orders'[w].told = t[w].told) => CumulativeBehind'
    <3>1. \A w \in OrderNos : cumulative'[w] = IF w = o THEN cum ELSE cumulative[w]
      BY DEF SellFilled, TypeOK
    <3> QED
      BY <1>1, <3>1 DEF ExplainInv, CumulativeBehind, TypeOK
  <2>2. orders' = t /\ appBuys' = appBuys => OwedInv' /\ CumulativeBehind'
    BY <1>1, <2>1, OwesKept DEF ExplainInv, OwedInv
  <2>3. CASE dropped
    <3>1. UNCHANGED <<pos, pending, sellTimer, appBuys, closing>> /\ orders' = t
      BY <2>3 DEF SellFilled, SaleNotSent, entry, t
    <3> QED
      BY <2>2, <3>1 DEF ExplainInv, PendingAwaited
  <2>4. CASE ~dropped /\ ~(f >= pos[c].qty)
    <3>1. /\ pos' = [pos EXCEPT ![c] = Reduced(pos[c], f)] /\ pending' = pending
          /\ sellTimer' = [sellTimer EXCEPT ![c] = IF @ = "none" THEN "fresh" ELSE @]
          /\ UNCHANGED <<appBuys, closing>> /\ orders' = t
      BY <2>4 DEF SellFilled, SaleNotSent, entry, t
    <3>2. \A d \in Codes : (pos[d].qty > 0 => pos'[d].qty > 0)
                           /\ (sellTimer[d] # "none" => sellTimer'[d] # "none")
      BY <1>2, <2>4, <3>1 DEF Reduced, TypeOK
    <3> QED
      BY <2>2, <3>1, <3>2 DEF ExplainInv, PendingAwaited, TypeOK
  <2>5. CASE ~dropped /\ f >= pos[c].qty
    <3>1. PositionClosed(c, t)
      BY <2>5 DEF SellFilled, t
    <3>2. \A d \in Codes : d # c => pos'[d] = pos[d]
      BY <3>1 DEF PositionClosed, TypeOK
    <3>3. CASE sellTimer' = Finalized(c, sellTimer) /\ closing' = closing
               /\ SignalRejected(t, pending, {c}, None)
      <4>1. /\ \A d \in Codes : d # c => sellTimer'[d] = sellTimer[d]
            /\ pending' = pending \ {c} /\ appBuys' = appBuys /\ orders' = t
        BY <3>3, FinalizedType DEF SignalRejected, TypeOK
      <4> QED
        BY <2>2, <3>2, <3>3, <4>1 DEF ExplainInv, PendingAwaited, TypeOK
    <3>4. CASE sellTimer' = Finalized(c, sellTimer) /\ closing' = closing /\ queued # None
               /\ SignalHandled(queued, t, pos', pending, {c}, None)
      <4>1. c \notin pending' /\ pending' \subseteq pending \cup {queued} /\ queued \in Codes
        BY <3>4 DEF SignalHandled, SignalJudged, SignalRejected, TypeOK
      <4>2. \A d \in Codes : d # c => sellTimer'[d] = sellTimer[d]
        BY <3>4, FinalizedType DEF TypeOK
      <4>3. OwedInv' /\ \A d \in pending' :
                (d \in pending /\ appBuys'[d] = appBuys[d]) \/ (d = queued /\ appBuys'[d] > 0)
        BY <1>1, <3>4, <4>1, SignalOwes DEF ExplainInv
      <4>4. \A w \in OrderNos : orders'[w].told = t[w].told
        BY <1>1, <3>4, <4>1, SignalTold
      <4>5. PendingAwaited'
        BY <3>2, <3>4, <4>1, <4>2, <4>3 DEF ExplainInv, PendingAwaited, TypeOK
      <4> QED
        BY <2>1, <4>3, <4>4, <4>5
    <3>5. CASE sellTimer' = sellTimer /\ asking = None /\ closing' = c
               /\ SignalRejected(t, pending, {}, None)
      <4>1. closing = None /\ pending' = pending /\ appBuys' = appBuys /\ orders' = t
        BY <3>5 DEF SignalRejected, TypeOK
      <4> QED
        BY <2>2, <3>2, <3>5, <4>1 DEF ExplainInv, PendingAwaited, TypeOK
    <3> QED
      BY <3>1, <3>3, <3>4, <3>5 DEF PositionClosed, MayAsk, lookup
  <2> QED
    BY <2>3, <2>4, <2>5
<1> QED
  BY <1>3 DEF ExplainInv

\* A report, new or repeated, is never behind what was reported before.
LEMMA ChejanExplain ==
    ASSUME TypeOK, Fresh, ExplainInv, NEW o \in OrderNos, Deliver(o) \/ Redeliver(o)
    PROVE  ExplainInv'
<1>1. /\ orders[o] \in Order /\ orders[o].told \in Nat /\ orders[o].done \in Nat
      /\ orders[o].told <= orders[o].done /\ orders[o].done <= orders[o].qty
      /\ cumulative[o] \in Nat /\ cumulative[o] <= orders[o].told
  BY DEF TypeOK, Order, ExplainInv, CumulativeBehind
<1>2. PICK cum \in Nat : orders[o].told <= cum /\ cum <= orders[o].done /\ OnChejan(o, cum)
                         /\ cum > 0 /\ orders[o].status # "closed"
  BY <1>1 DEF Deliver, Redeliver
<1>3. orders[o].kind # "none" /\ orders[o].code \in Codes
  BY <1>1, <1>2 DEF TypeOK, Unsent, Order
<1> DEFINE f == NewShares(o, cum)
<1>4. f \in Nat /\ f >= cum - cumulative[o] /\ (f = 0 => cum <= cumulative[o])
  BY <1>1 DEF NewShares, AtLeastZero
<1>5. CASE f = 0 /\ cumulative' = [cumulative EXCEPT ![o] = cum] /\ orders' = Told(o, cum)
            /\ UNCHANGED <<pos, sale, entry, forceIssued, processed, blocks, nextNo>>
  <2>1. cum = orders[o].told
    BY <1>1, <1>2, <1>4, <1>5
  <2>2. KeepsBuys(orders') /\ \A w \in OrderNos : orders'[w].told = orders[w].told
    BY <1>2, <1>3, <1>5, <2>1, ToldTables, OrdersTables DEF KeepsBuys, NothingTold
  <2>3. \A w \in OrderNos : cumulative'[w] <= orders'[w].told
    BY <1>5, <2>1, <2>2 DEF ExplainInv, CumulativeBehind, TypeOK
  <2> QED
    BY <1>5, <2>2, <2>3, OwesKept
    DEF ExplainInv, OwedInv, PendingAwaited, CumulativeBehind, sale, entry
<1>6. CASE f > 0 /\ orders[o].kind \in BuyKind /\ BuyFilled(o, cum, f)
  <2> HIDE DEF f
  <2> QED
    BY <1>2, <1>3, <1>4, <1>6, BuyFilledExplain
<1>7. CASE f > 0 /\ orders[o].kind \in SellKind /\ SellFilled(o, cum, f)
  <2> HIDE DEF f
  <2> QED
    BY <1>2, <1>3, <1>4, <1>7, SellFilledExplain
<1> QED
  BY <1>2, <1>5, <1>6, <1>7 DEF OnChejan

\* An execution changes nothing the program can see.
LEMMA ExecuteExplain ==
    ASSUME TypeOK, Fresh, ExplainInv, NEW o \in OrderNos, Execute(o)
    PROVE  ExplainInv'
<1>1. PICK done : orders' = [orders EXCEPT ![o].done = done]
  BY DEF Execute
<1> DEFINE new == [orders[o] EXCEPT !.done = done]
<1>2. orders[o] \in Order /\ orders' = [orders EXCEPT ![o] = new]
  BY <1>1 DEF TypeOK
<1>3. /\ new.code = orders[o].code /\ new.kind = orders[o].kind /\ new.qty = orders[o].qty
      /\ new.told = orders[o].told /\ new.status = orders[o].status
  BY <1>2 DEF Order
<1> HIDE DEF new
<1>4. \A w \in OrderNos :
          /\ orders'[w].code = orders[w].code /\ orders'[w].kind = orders[w].kind
          /\ orders'[w].qty = orders[w].qty /\ orders'[w].told = orders[w].told
          /\ orders'[w].status = orders[w].status
  BY <1>2, <1>3 DEF TypeOK
<1>5. UNCHANGED <<pos, pending, sellTimer, appBuys, cumulative, closing>>
  BY DEF Execute, sale, entry, fills
<1> QED
  BY <1>4, <1>5 DEF ExplainInv, OwedInv, Owes, PendingAwaited, CumulativeBehind

\* A refused buy is not awaited any longer, and no other code awaits its shares.
LEMMA OnOrderMsgExplain ==
    ASSUME TypeOK, Fresh, ExplainInv, NEW o \in OrderNos, OnOrderMsg(o)
    PROVE  ExplainInv'
<1> DEFINE c == orders[o].code
           new == [orders[o] EXCEPT !.status = "closed"]
<1>1. orders[o] \in Order /\ orders' = [orders EXCEPT ![o] = new]
  BY DEF OnOrderMsg, TypeOK
<1>2. /\ new.code = orders[o].code /\ new.kind = orders[o].kind /\ new.qty = orders[o].qty
      /\ new.told = orders[o].told
  BY <1>1 DEF Order
<1> HIDE DEF new
<1>3. \A w \in OrderNos :
          /\ orders'[w].code = orders[w].code /\ orders'[w].kind = orders[w].kind
          /\ orders'[w].qty = orders[w].qty /\ orders'[w].told = orders[w].told
          /\ w # o => orders'[w].status = orders[w].status
  BY <1>1, <1>2 DEF TypeOK
<1>4. /\ pending' = pending \ {c} /\ UNCHANGED <<cumulative, closing>>
      /\ \/ orders[o].kind \in BuyKind /\ BuyRefused(c)
         \/ orders[o].kind \notin BuyKind /\ SaleRefused(c)
  BY DEF OnOrderMsg, BuyKind, SellKind, fills, lookup
<1>5. \A d \in Codes : /\ d # c => appBuys'[d] = appBuys[d] /\ pos'[d] = pos[d]
                                   /\ sellTimer'[d] = sellTimer[d]
                       /\ appBuys'[d] \in {0, appBuys[d]}
                       /\ (d = c /\ orders[o].kind \in BuyKind) => appBuys'[d] = 0
  BY <1>4 DEF BuyRefused, SaleRefused, TypeOK
<1>6. OwedInv'
  <2> SUFFICES ASSUME NEW d \in Codes, appBuys'[d] > 0 PROVE Owes(orders', d, appBuys'[d])
    BY DEF OwedInv
  <2>1. appBuys'[d] = appBuys[d] /\ ~(d = c /\ orders[o].kind \in BuyKind)
    BY <1>5
  <2>2. PICK w \in OrderNos :
            /\ orders[w].code = d /\ orders[w].kind \in BuyKind /\ orders[w].status # "closed"
            /\ appBuys[d] <= orders[w].qty - orders[w].told
    BY <2>1 DEF ExplainInv, OwedInv, Owes
  <2>3. w # o
    BY <2>1, <2>2
  <2> QED
    BY <1>3, <2>1, <2>2, <2>3 DEF Owes
<1>7. PendingAwaited'
  BY <1>4, <1>5 DEF ExplainInv, PendingAwaited, TypeOK
<1>8. CumulativeBehind'
  BY <1>3, <1>4 DEF ExplainInv, CumulativeBehind
<1> QED
  BY <1>6, <1>7, <1>8 DEF ExplainInv

LEMMA RollDayExplain ==
    ASSUME TypeOK, ExplainInv, RollDay
    PROVE  ExplainInv'
<1>1. ASSUME NEW w \in OrderNos
      PROVE  /\ orders'[w].code = orders[w].code /\ orders'[w].kind = orders[w].kind
             /\ orders'[w].qty = orders[w].qty /\ orders'[w].told = orders[w].told
             /\ orders[w].status # "closed" => orders'[w].status # "closed"
  <2>1. orders[w] \in Order
    BY DEF TypeOK
  <2>2. orders'[w] = orders[w] \/ orders'[w] = [orders[w] EXCEPT !.status = "lapsed"]
    BY DEF RollDay
  <2>3. CASE orders'[w] = [orders[w] EXCEPT !.status = "lapsed"]
    BY <2>1, <2>3 DEF Order
  <2> QED
    BY <2>2, <2>3
<1>2. \A c \in Codes : pos'[c].qty = pos[c].qty
  BY DEF RollDay, TypeOK, Position
<1>3. UNCHANGED <<pending, sellTimer, appBuys, cumulative, closing>>
  BY DEF RollDay, sale, lookup
<1> QED
  BY <1>1, <1>2, <1>3 DEF ExplainInv, OwedInv, Owes, PendingAwaited, CumulativeBehind, TypeOK

\* A balance sync looks at none of the books the explanations are in.
LEMMA SyncBalanceExplain == ASSUME ExplainInv, SyncBalance PROVE ExplainInv'
  BY DEF SyncBalance, sale, entry, fills, books, ExplainInv, OwedInv, Owes, PendingAwaited,
         CumulativeBehind

LEMMA ExplainStep ==
    ASSUME TypeOK, Fresh, ExplainInv, [Next]_vars
    PROVE  ExplainInv'
<1>1. ASSUME NEW o \in OrderNos, Server(o) PROVE ExplainInv'
  BY <1>1, ExecuteExplain, ChejanExplain, OnOrderMsgExplain DEF Server
<1>2. CASE UNCHANGED vars
  BY <1>2 DEF vars, sale, entry, fills, books, ExplainInv, OwedInv, Owes, PendingAwaited,
              CumulativeBehind
<1> QED
  BY <1>1, <1>2, ProgramExplain, AnswerInfoExplain, SyncBalanceExplain, RollDayExplain DEF Next

LEMMA ExplainInit == ASSUME Init PROVE ExplainInv
  BY DEF Init, ExplainInv, OwedInv, PendingAwaited, CumulativeBehind, Unsent

\* The program waits for no more shares of a code than one buy of it has left, as
\* far as it was told, for any interleaving of orders, fills, syncs and repeats.
THEOREM AwaitedUnreported == Spec => []AppBuysUnreported
<1>1. Init => TypeOK /\ Fresh /\ ExplainInv
  BY TypeInit, FreshInit, ExplainInit
<1>2. TypeOK /\ Fresh /\ ExplainInv /\ [Next]_vars => (TypeOK /\ Fresh /\ ExplainInv)'
  BY TypeStep, EveryDayStep, FreshStep, ExplainStep
<1>3. TypeOK /\ Fresh /\ ExplainInv => AppBuysUnreported
  BY OwedIsUnreported DEF ExplainInv
<1> QED
  BY <1>1, <1>2, <1>3, PTL DEF Spec

\* No code stays in _pending without a buy of it not fully reported, the clock of a
\* sale of it or a fill handler that will release it, whatever a sync drops.
THEOREM Explained == Spec => []PendingExplained
<1>1. Init => TypeOK /\ Fresh /\ ExplainInv
  BY TypeInit, FreshInit, ExplainInit
<1>2. TypeOK /\ Fresh /\ ExplainInv /\ [Next]_vars => (TypeOK /\ Fresh /\ ExplainInv)'
  BY TypeStep, EveryDayStep, FreshStep, ExplainStep
<1>3. ASSUME TypeOK, ExplainInv PROVE PendingExplained
  <2>1. AppBuysUnreported /\ pending \subseteq Codes
    BY <1>3, OwedIsUnreported DEF ExplainInv, TypeOK
  <2> QED
    BY <1>3, <2>1 DEF ExplainInv, PendingAwaited, PendingExplained, AppBuysUnreported
<1> QED
  BY <1>1, <1>2, <1>3, PTL DEF Spec
-----------------------------------------------------------------------------
(* A repeated report never takes shares out of a position *)

\* What the program has counted of a sale is what was reported of it.
SalesCounted ==
    \A o \in OrderNos : orders[o].kind \in SellKind => cumulative[o] = orders[o].told

\* Only a report changes what is counted or reported.
NoReport ==
    /\ cumulative' = cumulative
    /\ \A o \in OrderNos : orders'[o].told = orders[o].told

LEMMA ProgramReportsNothing ==
    ASSUME TypeOK, Fresh, NEW c \in Codes, Program(c) \/ Timers(c)
    PROVE  NoReport
<1>1. cumulative' = cumulative
  BY DEF Program, Timers, HandleSignal, AskInfo, ManualBuy, StopLossTick, TrailingTick,
         ScheduledExit, Sell, WatchdogCancel, ExitCheck, SellTimeout, CancelTimeout, fills
<1>2. CASE HandleSignal(c)
  <2>1. SignalHandled(c, orders, pos, pending, {}, queued)
    BY <1>2 DEF HandleSignal
  <2> QED
    BY <1>1, <2>1, OrdersTables, SignalTold DEF NoReport
<1>3. CASE ManualBuy(c)
  <2>1. CanSend /\ \E q, status : orders' = Place(orders, "manual", c, q, status)
    BY <1>3 DEF ManualBuy
  <2> QED
    BY <1>1, <2>1, OrdersTables, ToldPlaced DEF NoReport
<1>4. ASSUME NEW p, NEW timers, NEW kind, NEW q,
             SaleSent(orders, p, timers, kind, c, q) \/ SaleNotSent(orders, p, timers)
      PROVE  NoReport
  BY <1>1, <1>4, OrdersTables, SaleTold DEF NoReport
<1>5. CASE StopLossTick(c) \/ TrailingTick(c) \/ ScheduledExit(c)
  BY <1>4, <1>5 DEF StopLossTick, TrailingTick, ScheduledExit, ForceExit, Sent, NotSent
<1>6. CASE Sell(c)
  BY <1>4, <1>6 DEF Sell, Sent
<1>7. CASE ExitCheck(c)
  BY <1>4, <1>7 DEF ExitCheck
<1>8. CASE AskInfo(c) \/ WatchdogCancel(c) \/ Timers(c)
  BY <1>1, <1>8 DEF AskInfo, WatchdogCancel, Timers, SellTimeout, CancelTimeout, books, NoReport
<1> QED
  BY <1>2, <1>3, <1>5, <1>6, <1>7, <1>8 DEF Program

\* Where nothing is reported, sales stay counted: a new order starts from nothing.
LEMMA UnreportedStep ==
    ASSUME TypeOK, Fresh, CumulativeBehind, SalesCounted, DayStep, NoReport
    PROVE  SalesCounted'
<1> SUFFICES ASSUME NEW o \in OrderNos, orders'[o].kind \in SellKind
             PROVE  cumulative'[o] = orders'[o].told
  BY DEF SalesCounted
<1>1. cumulative[o] \in Nat /\ orders[o].told \in Nat
  BY DEF TypeOK, Order
<1>2. CASE SameOrder(orders', o)
  BY <1>2 DEF SameOrder, SalesCounted, NoReport
<1>3. CASE NewOrder(o)
  <2>1. orders[o] = Unsent
    BY <1>3 DEF NewOrder, Fresh, TypeOK, OrderNos
  <2> QED
    BY <1>1, <2>1 DEF NoReport, CumulativeBehind, Unsent
<1> QED
  BY <1>2, <1>3 DEF DayStep, OrdersGrow

\* A report of an order counts it and says nothing of the others.
LEMMA ReportCounts ==
    ASSUME TypeOK, Fresh, NEW o \in OrderNos, orders[o].kind # "none", orders[o].code \in Codes,
           NEW cum \in Nat, orders[o].told <= cum, cum <= orders[o].done, OnChejan(o, cum)
    PROVE  /\ \A w \in OrderNos \ {o} : /\ cumulative'[w] = cumulative[w]
                                         /\ orders'[w].told = orders[w].told
           /\ orders'[o].told = cum
           /\ orders[o].kind \in SellKind => cumulative'[o] = cum
<1> DEFINE t == Told(o, cum)
           c == orders[o].code
           f == NewShares(o, cum)
<1>1. NothingTold(t) /\ t[o].told = cum /\ \A w \in OrderNos : w # o => t[w] = orders[w]
  BY ToldTables
<1> HIDE DEF t
<1>2. \A w \in OrderNos : orders'[w].told = t[w].told
  <2>1. CASE orders' = t
    BY <2>1
  <2>2. CASE BuyFilled(o, cum, f)
    BY <1>1, <2>2, SaleTold DEF BuyFilled, t
  <2>3. CASE SellFilled(o, cum, f)
    <3>1. CASE \E p, timers : SaleNotSent(t, p, timers)
      BY <3>1 DEF SaleNotSent
    <3>2. CASE PositionClosed(c, t)
      <4>1. CASE \E w, release : SignalRejected(t, w, release, None)
        BY <4>1 DEF SignalRejected
      <4>2. CASE SignalHandled(queued, t, pos', pending, {c}, None)
        BY <1>1, <4>2, SignalTold
      <4> QED
        BY <3>2, <4>1, <4>2 DEF PositionClosed
    <3> QED
      BY <2>3, <3>1, <3>2 DEF SellFilled, t
  <2> QED
    BY <2>1, <2>2, <2>3 DEF OnChejan, t
<1>3. /\ \A w \in OrderNos \ {o} : cumulative'[w] = cumulative[w]
      /\ orders[o].kind \in SellKind => cumulative'[o] = cum
  <2>1. \E n : cumulative' = [cumulative EXCEPT ![o] = n]
    BY DEF OnChejan, BuyFilled, SellFilled
  <2>2. orders[o].kind \in SellKind => cumulative' = [cumulative EXCEPT ![o] = cum]
    BY DEF OnChejan, SellFilled, SellKind, BuyKind
  <2> QED
    BY <2>1, <2>2 DEF TypeOK
<1> QED
  BY <1>1, <1>2, <1>3

\* A report that comes is of an order that was placed and not behind the last one.
LEMMA ReportComes ==
    ASSUME TypeOK, NEW o \in OrderNos, Deliver(o) \/ Redeliver(o)
    PROVE  /\ orders[o].kind # "none" /\ orders[o].code \in Codes
           /\ \E cum \in Nat : /\ orders[o].told <= cum /\ cum <= orders[o].done
                               /\ OnChejan(o, cum)
                               /\ redelivered' # redelivered => cum = orders[o].told
<1>1. /\ orders[o] \in Order /\ orders[o].told \in Nat /\ orders[o].done \in Nat
      /\ orders[o].told <= orders[o].done
  BY DEF TypeOK, Order
<1>2. orders[o] # Unsent
  BY DEF Deliver, Redeliver, Unsent
<1>3. CASE Deliver(o)
  BY <1>1, <1>2, <1>3 DEF Deliver, outside, TypeOK, Unsent, Order
<1>4. CASE Redeliver(o)
  BY <1>1, <1>2, <1>4 DEF Redeliver, TypeOK, Unsent, Order
<1> QED
  BY <1>3, <1>4

LEMMA ReportStep ==
    ASSUME TypeOK, Fresh, SalesCounted, CumulativeBehind, DayStep,
           NEW o \in OrderNos, Deliver(o) \/ Redeliver(o)
    PROVE  SalesCounted'
<1>1. orders[o].kind # "none" /\ orders[o].code \in Codes
  BY ReportComes
<1>2. PICK cum \in Nat : orders[o].told <= cum /\ cum <= orders[o].done /\ OnChejan(o, cum)
  BY ReportComes
<1>3. /\ \A w \in OrderNos \ {o} : /\ cumulative'[w] = cumulative[w]
                                    /\ orders'[w].told = orders[w].told
      /\ orders'[o].told = cum
      /\ orders[o].kind \in SellKind => cumulative'[o] = cum
  BY <1>1, <1>2, ReportCounts
<1> SUFFICES ASSUME NEW w \in OrderNos, orders'[w].kind \in SellKind
             PROVE  cumulative'[w] = orders'[w].told
  BY DEF SalesCounted
<1>4. CASE SameOrder(orders', w)
  BY <1>3, <1>4 DEF SameOrder, SalesCounted
<1>5. CASE NewOrder(w)
  <2>1. orders[w] = Unsent
    BY <1>5 DEF NewOrder, Fresh, TypeOK, OrderNos
  <2>2. cumulative[w] = 0 /\ orders[w].told = 0 /\ w # o
    BY <1>1, <2>1 DEF CumulativeBehind, Unsent, TypeOK
  <2> QED
    BY <1>3, <2>2
<1> QED
  BY <1>4, <1>5 DEF DayStep, OrdersGrow

LEMMA CountedStep ==
    ASSUME TypeOK, Fresh, CumulativeBehind, SalesCounted, [Next]_vars
    PROVE  SalesCounted'
<1>0. DayStep
  BY EveryDayStep
<1>1. ASSUME NEW o \in OrderNos, Server(o) PROVE SalesCounted'
  <2>1. CASE Deliver(o) \/ Redeliver(o)
    BY <2>1, <1>0, ReportStep
  <2>2. CASE Execute(o) \/ OnOrderMsg(o)
    <3>1. cumulative' = cumulative
      BY <2>2 DEF Execute, OnOrderMsg, fills
    <3>2. CASE Execute(o)
      <4>1. PICK done : orders' = [orders EXCEPT ![o].done = done]
        BY <3>2 DEF Execute
      <4> QED
        BY <1>0, <3>1, <4>1, UnreportedStep DEF NoReport, TypeOK, Order
    <3>3. CASE OnOrderMsg(o)
      <4>1. orders' = [orders EXCEPT ![o].status = "closed"]
        BY <3>3 DEF OnOrderMsg
      <4> QED
        BY <1>0, <3>1, <4>1, UnreportedStep DEF NoReport, TypeOK, Order
    <3> QED
      BY <2>2, <3>2, <3>3
  <2> QED
    BY <1>1, <2>1, <2>2 DEF Server
<1>2. ASSUME NEW c \in Codes, Program(c) \/ Timers(c) PROVE SalesCounted'
  BY <1>0, <1>2, ProgramReportsNothing, UnreportedStep
<1>3. CASE AnswerInfo
  <2>1. SignalJudged(asking, orders, pos, pending, {closing}, queued) /\ cumulative' = cumulative
    BY <1>3 DEF AnswerInfo, fills
  <2>2. NoReport
    BY <2>1, OrdersTables, SignalTold DEF NoReport
  <2> QED
    BY <1>0, <2>2, UnreportedStep
<1>4. CASE RollDay
  <2>1. \A o \in OrderNos : /\ orders'[o].told = orders[o].told
                             /\ orders'[o].kind = orders[o].kind
    BY <1>4 DEF RollDay, TypeOK, Order
  <2> QED
    BY <1>4, <2>1 DEF RollDay, SalesCounted
<1>5. CASE UNCHANGED vars \/ SyncBalance
  BY <1>5 DEF vars, SyncBalance, fills, books, SalesCounted
<1> QED
  BY <1>1, <1>2, <1>3, <1>4, <1>5 DEF Next

\* A repeated report of a sale brings no new shares; one of a buy adds some or none.
LEMMA RepeatKeepsShares ==
    ASSUME TypeOK, SalesCounted, NEW o \in OrderNos, Redeliver(o)
    PROVE  \A c \in Codes : pos'[c].qty >= pos[c].qty
<1> DEFINE cum == orders[o].told
           f == NewShares(o, cum)
<1>1. orders[o].told \in Nat /\ cumulative[o] \in Nat /\ \A c \in Codes : pos[c].qty \in Nat
  BY DEF TypeOK, Order, Position
<1>2. f \in Nat /\ OnChejan(o, cum) /\ orders[o].code \in Codes
  BY <1>1, ReportComes DEF NewShares, AtLeastZero, Redeliver
<1>3. orders[o].kind \in SellKind => f = 0
  BY <1>1 DEF SalesCounted, NewShares, AtLeastZero
<1>4. CASE pos' = pos
  BY <1>1, <1>4
<1>5. CASE BuyFilled(o, cum, f)
  <2> HIDE DEF f
  <2> DEFINE c == orders[o].code
  <2>1. \/ pos' = pos
        \/ pos[c].qty = 0 /\ pos' = [pos EXCEPT ![c] = Opened(f)]
        \/ \E v : v.qty = pos[c].qty + f /\ pos' = [pos EXCEPT ![c] = v]
    BY <1>1, <1>2, <1>5 DEF BuyFilled
  <2>2. pos \in [Codes -> Position] /\ Opened(f).qty = f
    BY DEF TypeOK, Opened
  <2> QED
    BY <1>1, <1>2, <2>1, <2>2
<1> QED
  BY <1>2, <1>3, <1>4, <1>5 DEF OnChejan

\* For any number of orders, days, partial fills and repeats: a report the server
\* repeats never takes shares out of a position, not even out of one opened after
\* the repeated sale (the cumulative quantity of _on_chejan_data).
THEOREM RepeatsAreHarmless == Spec => RepeatsNeverSell
<1>1. Init => TypeOK /\ Fresh /\ ExplainInv /\ SalesCounted
  <2>1. Init => SalesCounted
    BY DEF Init, SalesCounted, Unsent, SellKind
  <2> QED
    BY <2>1, TypeInit, FreshInit, ExplainInit
<1>2. TypeOK /\ Fresh /\ ExplainInv /\ SalesCounted /\ [Next]_vars
      => (TypeOK /\ Fresh /\ ExplainInv /\ SalesCounted)'
  BY TypeStep, EveryDayStep, FreshStep, ExplainStep, CountedStep DEF ExplainInv
<1>3. ASSUME TypeOK, SalesCounted, [Next]_vars, redelivered' # redelivered
      PROVE  \A c \in Codes : pos'[c].qty >= pos[c].qty
  <2>1. \E o \in OrderNos : Redeliver(o)
    BY <1>3 DEF Next, Program, Timers, Server, HandleSignal, AskInfo, ManualBuy, StopLossTick,
       TrailingTick, ScheduledExit, Sell, WatchdogCancel, ExitCheck, SellTimeout, CancelTimeout,
       Execute, Deliver, OnOrderMsg, AnswerInfo, SyncBalance, RollDay, outside, vars
  <2> QED
    BY <1>3, <2>1, RepeatKeepsShares
<1> QED
  BY <1>1, <1>2, <1>3, PTL DEF Spec, RepeatsNeverSell
=============================================================================
