---------------------------- MODULE OrderManager ----------------------------
(***************************************************************************)
(* order/order_manager.py together with the exit loop that drives it       *)
(* (app/trading_controller.py, check_and_exit_all) and the Kiwoom order    *)
(* server it talks to.  One Qt thread runs every handler, so a handler is  *)
(* one step, with one exception: handle_signal asks the server for the     *)
(* price of a stock the scanner keeps no snapshot of, and waits for the    *)
(* answer in a nested event loop in which every other handler may run.     *)
(*                                                                         *)
(* Abstractions.  Prices, cash and the realized-profit ledger do not       *)
(* appear: an entry filter or a sizing rule that only rejects a signal is  *)
(* the signal not arriving, and a price condition that triggers an exit is *)
(* nondeterministic.  A timer is "none" (not running), "fresh" or "old"    *)
(* (its limit has passed).  Every step happens inside market hours; the    *)
(* date changes in one step.  Left out because nothing here depends on it:  *)
(* the retry count that only sets a limit price, the marks of partial sales *)
(* in the ledger, and _failed_sells and _pending_buy_time, whose only       *)
(* readers are called from update_portfolio_prices, which nothing calls.    *)
(***************************************************************************)
EXTENDS Integers, FiniteSets, FiniteSetsExt

CONSTANTS
    Codes,          \* stock codes
    None,           \* "no signal waiting"
    MaxPositions,   \* OrderManager.max_positions
    MaxEntries,     \* RISK["pyramid_max_entries"]
    MaxStopLosses,  \* daily_max_stoplosses, 0 turns the circuit breaker off
    ManualTrading,  \* whether the user buys by hand as well
    SnapshotMissing,\* whether a signal may concern a stock without a snapshot
    OtherStocks,    \* whether the account holds stocks besides Codes, untouched; their
                    \* slots are not counted in MaxPositions
    MaxQty,         \* bound: shares in one buy order
    MaxOrders,      \* bound: orders sent in a behaviour
    MaxRedeliveries,\* bound: fill reports the server repeats
    MaxSyncs,       \* bound: balance syncs that rebuild the positions
    MaxDays         \* bound: trading days in a behaviour

ASSUME ConstantsAssumption ==
    /\ None \notin Codes
    /\ MaxPositions \in Nat /\ MaxEntries \in Nat /\ MaxStopLosses \in Nat
    /\ MaxQty \in Nat \ {0} /\ MaxOrders \in Nat
    /\ MaxRedeliveries \in Nat /\ MaxSyncs \in Nat /\ MaxDays \in Nat
    /\ ManualTrading \in BOOLEAN /\ SnapshotMissing \in BOOLEAN
    /\ OtherStocks \in BOOLEAN

VARIABLES
    pos,          \* positions: code -> holding as the program believes it
    pending,      \* _pending
    sellTimer,    \* _pending_sell_time, 30 s limit
    cancelTimer,  \* _pending_sell_cancel_at, 30 s limit
    appBuys,      \* _app_pending_buys: shares the program still waits for
    meta,         \* codes with an entry in _pending_meta
    forceIssued,  \* _force_sell_issued
    cumulative,   \* _order_fill_cumulative: order -> last FID 911 value
    processed,    \* _processed_sell_order_nos
    queued,       \* _queued_signal
    asking,       \* the signal whose handler waits for the price, or None
    closing,      \* the sold-out code whose fill handler called it, or None
    stopLoss,     \* _stop_loss_today
    noReentry,    \* _no_reentry_today
    orders,       \* the server's book, indexed by order number
    nextNo,       \* the next order number
    redelivered,  \* fill reports repeated so far
    syncs,        \* balance syncs so far
    day           \* the trading day, _pnl_date

\* The shared part of every UNCHANGED.
books   == <<orders, nextNo>>
sale    == <<pending, sellTimer, cancelTimer>>
entry   == <<appBuys, meta, queued, asking, closing>>
fills   == <<cumulative, processed>>
blocks  == <<stopLoss, noReentry>>
lookup  == <<asking, closing>>
outside == <<redelivered, syncs, day>>
vars == <<pos, sale, entry, forceIssued, fills, blocks, books, outside>>

-----------------------------------------------------------------------------
(* Data *)

OrderNos == 1..MaxOrders
Timer    == {"none", "fresh", "old"}
BuyKind  == {"signal", "manual"}
SellKind == {"exit", "sale"}    \* "exit" bars the code from re-entry

Position == [qty : Nat, today : Nat, opened : BOOLEAN, partial : BOOLEAN, entries : Nat]

NoPosition == [qty |-> 0, today |-> 0, opened |-> FALSE, partial |-> FALSE, entries |-> 0]

\* What the slippage path registers: a position the exit loop does not manage.
Opened(f) == [qty |-> f, today |-> 0, opened |-> FALSE, partial |-> FALSE, entries |-> 1]

\* "done" shares are executed, "told" of them reported by a chejan message.
\* A refused order waits for a refusal message that on_order_msg understands; of a
\* rejected one the program is never told; a lapsed one died with its day.
OrderStatus == {"unsent", "working", "refused", "rejected", "closed", "lapsed"}

Order == [code : Codes \cup {None}, kind : BuyKind \cup SellKind \cup {"none"}, qty : Nat,
          done : Nat, told : Nat, status : OrderStatus, day : Nat]

Unsent == [code |-> None, kind |-> "none", qty |-> 0, done |-> 0, told |-> 0,
           status |-> "unsent", day |-> 0]

Least(a, b) == IF a <= b THEN a ELSE b
\* Mutation of AtLeastZero: the lower bound is dropped.
AtLeastZeroUnbounded(n) == n

AtLeastZero(n) == IF n < 0 THEN 0 ELSE n

\* Codes with an entry in the positions dict.
Holdings(p) == {c \in Codes : p[c].qty > 0}

\* The quantity the exit loop and the day-end liquidation sell.
SellQty(p) == IF p.today > 0 THEN Least(p.qty, p.today) ELSE p.qty

\* A position after the sale of f of its shares, today's shares first.
Reduced(p, f) == [qty |-> p.qty - f, today |-> AtLeastZero(p.today - f), opened |-> p.opened,
                  partial |-> p.partial, entries |-> p.entries]

\* max(1, int(qty * 0.3))
PartialQty(q) == IF q * 3 < 10 THEN 1 ELSE (q * 3) \div 10

-----------------------------------------------------------------------------
(* The order server (external) *)

Buys(c)  == {o \in OrderNos : orders[o].code = c /\ orders[o].kind \in BuyKind}
Sales(c) == {o \in OrderNos : orders[o].code = c /\ orders[o].kind \in SellKind}

\* Shares of c in the account.
Held(c) ==
    MapThenSumSet(LAMBDA o : orders[o].done, Buys(c))
        - MapThenSumSet(LAMBDA o : orders[o].done, Sales(c))

\* Shares of c that no working sell order has claimed.
Sellable(c) ==
    Held(c) - MapThenSumSet(LAMBDA o : orders[o].qty - orders[o].done,
                            {o \in Sales(c) : orders[o].status = "working"})

\* The order table after one more order.
Place(table, kind, c, q, status) ==
    [table EXCEPT ![nextNo] = [code |-> c, kind |-> kind, qty |-> q, done |-> 0, told |-> 0,
                               status |-> status, day |-> day]]

\* The server refuses to sell what the account lacks (800033) and may refuse to
\* buy a restricted stock (RC4007).  Any other refusal, of a buy or of a sale, is
\* a message on_order_msg ignores.
BuyStatus == {"working", "refused", "rejected"}
SaleStatus(c, q) == {IF q <= Sellable(c) THEN "working" ELSE "refused", "rejected"}

Execute(o) ==
    /\ orders[o].status = "working"
    /\ \E done \in (orders[o].done + 1)..orders[o].qty :
           orders' = [orders EXCEPT ![o].done = done]
    /\ UNCHANGED <<pos, sale, entry, forceIssued, fills, blocks, nextNo, outside>>

-----------------------------------------------------------------------------
(* Sending: _send through OrderExecutor.send.  SendOrder returning non-zero *)
(* is the "not sent" alternative of each caller.                           *)

CanSend == nextNo <= MaxOrders

\* Mutation of SaleSent: the time of the order is not recorded.
SaleSentUntimed(table, p, timers, kind, c, q) ==
    /\ CanSend
    /\ \E status \in SaleStatus(c, q) : orders' = Place(table, kind, c, q, status)
    /\ nextNo' = nextNo + 1
    /\ pending' = p \cup {c}
    /\ sellTimer' = timers

\* A sell order leaves; p is the value of pending it is added to.
SaleSent(table, p, timers, kind, c, q) ==
    /\ CanSend
    /\ \E status \in SaleStatus(c, q) : orders' = Place(table, kind, c, q, status)
    /\ nextNo' = nextNo + 1
    /\ pending' = p \cup {c}
    /\ sellTimer' = [timers EXCEPT ![c] = "fresh"]

SaleNotSent(table, p, timers) ==
    /\ orders' = table
    /\ pending' = p
    /\ sellTimer' = timers
    /\ UNCHANGED nextNo

Sent(kind, c, q)  == SaleSent(orders, pending, sellTimer, kind, c, q)
NotSent == SaleNotSent(orders, pending, sellTimer)

-----------------------------------------------------------------------------
(* Entries *)

\* Mutation of BreakerTripped: one stop loss too late.
BreakerTrippedLate == MaxStopLosses > 0 /\ Cardinality(stopLoss) > MaxStopLosses

BreakerTripped == MaxStopLosses > 0 /\ Cardinality(stopLoss) >= MaxStopLosses

\* Mutation of Barred: only the stop-loss list bars a code.
BarredStopLossOnly(d) == d \in stopLoss \/ BreakerTripped

\* What _is_buy_allowed and the circuit breaker turn away, before anything else.
Barred(d) == d \in stopLoss \cup noReentry \/ BreakerTripped

\* What the rest of handle_signal decides about d when it sees the positions p
\* and the pending set w; pyramidOk is the profit condition of _can_pyramid.
SignalOutcome(d, p, w, pyramidOk) ==
    CASE d \in w -> "drop"
      [] p[d].qty > 0 /\ ~(pyramidOk /\ p[d].entries < MaxEntries) -> "drop"
      [] Cardinality(Holdings(p)) + Cardinality(w) >= MaxPositions -> "queue"
      [] OTHER -> "buy"

SignalRejected(table, w, release, waiting) ==
    /\ orders' = table
    /\ pending' = w \ release
    /\ queued' = waiting
    /\ UNCHANGED <<nextNo, appBuys, meta>>

\* handle_signal of d from the price on, with the order table, positions p and
\* pending set w; "release" leaves pending afterwards and "waiting" is the signal
\* left in the queue unless d itself is queued.  Any later check may reject d.
SignalJudged(d, table, p, w, release, waiting) ==
    \E pyramidOk \in BOOLEAN :
      LET outcome == SignalOutcome(d, p, w, pyramidOk)
      IN \/ outcome # "queue" /\ SignalRejected(table, w, release, waiting)
         \/ outcome = "queue" /\ SignalRejected(table, w, release, d)
         \/ /\ outcome = "buy" /\ CanSend
            /\ \E q \in 1..MaxQty, status \in BuyStatus :
                   /\ orders' = Place(table, "signal", d, q, status)
                   /\ appBuys' = [appBuys EXCEPT ![d] = q]
            /\ nextNo' = nextNo + 1
            /\ pending' = (w \cup {d}) \ release
            /\ meta' = meta \cup {d}
            /\ queued' = waiting
         \/ /\ outcome = "buy"              \* SendOrder fails, the metadata stays
            /\ orders' = table
            /\ pending' = w \ release
            /\ meta' = meta \cup {d}
            /\ queued' = waiting
            /\ UNCHANGED <<nextNo, appBuys>>

\* handle_signal of d when it does not have to wait for the price.
SignalHandled(d, table, p, w, release, waiting) ==
    IF Barred(d) THEN SignalRejected(table, w, release, waiting)
                 ELSE SignalJudged(d, table, p, w, release, waiting)

\* handle_signal called by the scanner through the trading controller.
HandleSignal(d) ==
    /\ SignalHandled(d, orders, pos, pending, {}, queued)
    /\ UNCHANGED <<pos, sellTimer, cancelTimer, lookup, forceIssued, fills, blocks, outside>>

\* The broker's client runs one request at a time, so a second signal that lacks
\* its snapshot meanwhile is rejected.
MayAsk(d) == SnapshotMissing /\ asking = None /\ ~Barred(d)

\* The same, up to get_stock_info: its TR request waits in a nested event loop.
AskInfo(d) ==
    /\ MayAsk(d)
    /\ asking' = d
    /\ UNCHANGED <<pos, sale, appBuys, meta, queued, closing, forceIssued, fills, blocks, books,
                   outside>>

\* What _finalize_fill leaves of the clocks when the position of c is gone.
Finalized(c, timers) == [d \in Codes |-> IF d = c THEN "none" ELSE timers[d]]

\* The answer or the time limit ends the nested loop.  The handler goes on with
\* the slot checks; the block lists are not looked at again.  A fill handler
\* that called it finishes with _finalize_fill.
AnswerInfo ==
    /\ asking # None
    /\ SignalJudged(asking, orders, pos, pending, {closing}, queued)
    /\ sellTimer' = Finalized(closing, sellTimer)
    /\ cancelTimer' = Finalized(closing, cancelTimer)
    /\ asking' = None /\ closing' = None
    /\ UNCHANGED <<pos, forceIssued, fills, blocks, outside>>

\* TradingController.manual_buy: no entry check of any kind, no metadata.
ManualBuy(c) ==
    /\ ManualTrading /\ CanSend
    /\ \E q \in 1..MaxQty, status \in BuyStatus :
           /\ orders' = Place(orders, "manual", c, q, status)
           /\ appBuys' = [appBuys EXCEPT ![c] = q]
    /\ nextNo' = nextNo + 1
    /\ pending' = pending \cup {c}
    /\ UNCHANGED <<pos, sellTimer, cancelTimer, meta, queued, lookup, forceIssued, fills, blocks,
                   outside>>

-----------------------------------------------------------------------------
(* Exits *)

\* force_exit for a held code: at most one forced sale at a time, whatever
\* pending says; the code is barred from re-entry before the order leaves.
ForceExit(c) ==
    IF c \in forceIssued
    THEN NotSent /\ UNCHANGED <<noReentry, forceIssued>>
    ELSE /\ noReentry' = noReentry \cup {c}
         /\ \/ /\ Sent("exit", c, pos[c].qty)
               /\ forceIssued' = forceIssued \cup {c}
            \/ NotSent /\ UNCHANGED forceIssued

\* _on_price_updated: the hard stop or the confirmed stop loss.  A code already
\* on the stop-loss list is taken to have been sold and is left alone.
StopLossTick(c) ==
    /\ c \in Holdings(pos) \ stopLoss
    /\ stopLoss' = stopLoss \cup {c}
    /\ ForceExit(c)
    /\ UNCHANGED <<pos, cancelTimer, entry, fills, outside>>

\* _on_price_updated: the trailing stop or the break-even stop.
TrailingTick(c) ==
    /\ c \in Holdings(pos) \ stopLoss
    /\ c \notin forceIssued
    /\ ForceExit(c)
    /\ UNCHANGED <<pos, cancelTimer, entry, fills, stopLoss, outside>>

\* force_exit from the end-of-day and overnight checks of the controller; the
\* loss-making ones put the code on the stop-loss list first.
ScheduledExit(c) ==
    /\ c \in Holdings(pos)
    /\ \E loss \in BOOLEAN : stopLoss' = IF loss THEN stopLoss \cup {c} ELSE stopLoss
    /\ ForceExit(c)
    /\ UNCHANGED <<pos, cancelTimer, entry, fills, outside>>

\* sell by a caller that looks at the position only: manual_sell, the day-end
\* and loss-cut liquidation, the half sale of an end-of-day position.
Sell(c) ==
    /\ c \in Holdings(pos)
    /\ \E q \in 1..pos[c].qty : Sent("sale", c, q)
    /\ UNCHANGED <<pos, cancelTimer, entry, forceIssued, fills, blocks, outside>>

\* is_pending, second stage: the cancel request has been out for 30 s.
Released(c) == c \in pending /\ sellTimer[c] # "none" /\ cancelTimer[c] = "old"

\* Mutation of WatchdogCancel: the time of the cancel request is not recorded.
WatchdogCancelUnstamped(c) ==
    /\ c \in Holdings(pos) \cap pending
    /\ sellTimer[c] = "old" /\ cancelTimer[c] = "none"
    /\ UNCHANGED vars

\* is_pending, first stage: 30 s without a fill.  The cancel request names the
\* rq_name as its original order, which is no order number: the server ignores it.
WatchdogCancel(c) ==
    /\ c \in Holdings(pos) \cap pending
    /\ sellTimer[c] = "old" /\ cancelTimer[c] = "none"
    /\ cancelTimer' = [cancelTimer EXCEPT ![c] = "fresh"]
    /\ UNCHANGED <<pos, pending, sellTimer, entry, forceIssued, fills, blocks, books, outside>>

\* One position of check_and_exit_all: is_pending lets it through, then the
\* strategy holds, exits or takes a partial profit.
ExitCheck(c) ==
    LET free == IF Released(c) THEN pending \ {c} ELSE pending
        timers == IF Released(c) THEN [sellTimer EXCEPT ![c] = "none"] ELSE sellTimer
        managed == pos[c].today > 0 \/ pos[c].opened
    IN /\ c \in Holdings(pos)
       /\ c \in pending => Released(c)
       /\ IF Released(c)
          THEN /\ cancelTimer' = [cancelTimer EXCEPT ![c] = "none"]
               /\ forceIssued' = forceIssued \ {c}
          ELSE UNCHANGED <<cancelTimer, forceIssued>>
       /\ \/ /\ SaleNotSent(orders, free, timers)      \* hold, or a failed partial sale
             /\ UNCHANGED <<pos, blocks>>
          \/ /\ managed
             /\ \E loss \in BOOLEAN : stopLoss' = IF loss THEN stopLoss \cup {c} ELSE stopLoss
             /\ noReentry' = noReentry \cup {c}
             /\ \/ SaleSent(orders, free, timers, "exit", c, SellQty(pos[c]))
                \/ SaleNotSent(orders, free, timers)
             /\ UNCHANGED pos
          \/ /\ managed /\ ~pos[c].partial             \* partial_exit
             /\ SaleSent(orders, free, timers, "sale", c, PartialQty(pos[c].qty))
             /\ pos' = [pos EXCEPT ![c].partial = TRUE]
             /\ UNCHANGED blocks
       /\ UNCHANGED <<entry, fills, outside>>

SellTimeout(c) ==
    /\ sellTimer[c] = "fresh"
    /\ sellTimer' = [sellTimer EXCEPT ![c] = "old"]
    /\ UNCHANGED <<pos, pending, cancelTimer, entry, forceIssued, fills, blocks, books, outside>>

CancelTimeout(c) ==
    /\ cancelTimer[c] = "fresh"
    /\ cancelTimer' = [cancelTimer EXCEPT ![c] = "old"]
    /\ UNCHANGED <<pos, pending, sellTimer, entry, forceIssued, fills, blocks, books, outside>>

-----------------------------------------------------------------------------
(* Fill reports: _on_chejan_data for order o with cumulative quantity cum   *)

Told(o, cum) == [orders EXCEPT ![o].told = cum]

\* _handle_buy_fill of f new shares, the first report of the order or not.
\* Completing the awaited quantity forgets the order's cumulative count.
BuyFilled(o, cum, f) ==
    LET c == orders[o].code
        p == pos[c]
        app == appBuys[c] > 0
        complete == app /\ appBuys[c] <= f
        free == IF complete THEN pending \ {c} ELSE pending
        first == cumulative[o] = 0
    IN /\ cumulative' = [cumulative EXCEPT ![o] = IF complete THEN 0 ELSE cum]
       /\ appBuys' = [appBuys EXCEPT ![c] = IF app THEN AtLeastZero(@ - f) ELSE @]
       /\ meta' = meta \ {c}
       /\ \/ /\ c \in meta /\ first                    \* slippage: sell at once
             /\ pos' = IF p.qty > 0 THEN pos
                       ELSE [pos EXCEPT ![c] = Opened(f)]
             /\ noReentry' = noReentry \cup {c}
             /\ \/ SaleSent(Told(o, cum), free, sellTimer, "exit", c, f)
                \/ SaleNotSent(Told(o, cum), free, sellTimer)
             /\ UNCHANGED cancelTimer
          \/ /\ pos' = [pos EXCEPT ![c] =
                  [qty |-> p.qty + f,
                   today |-> p.today + (IF app THEN f ELSE 0),
                   opened |-> p.opened \/ app,
                   partial |-> p.partial,
                   entries |-> p.entries + (IF first \/ p.qty = 0 THEN 1 ELSE 0)]]
             /\ SaleNotSent(Told(o, cum), pending \ {c}, [sellTimer EXCEPT ![c] = "none"])
             /\ cancelTimer' = [cancelTimer EXCEPT ![c] = "none"]
             /\ UNCHANGED noReentry
       /\ UNCHANGED <<queued, lookup, forceIssued, processed, stopLoss>>

\* The sold-out position c leaves the books and a waiting signal is replayed
\* while c still counts in pending; _finalize_fill releases c last, which waits
\* as well when the replay has to ask for a price.
PositionClosed(c, table) ==
    /\ pos' = [pos EXCEPT ![c] = NoPosition]
    /\ forceIssued' = forceIssued \ {c}
    /\ cancelTimer' = Finalized(c, cancelTimer)
    /\ \/ /\ sellTimer' = Finalized(c, sellTimer)
          /\ UNCHANGED lookup
          /\ \/ queued = None /\ SignalRejected(table, pending, {c}, None)
             \/ queued # None /\ SignalHandled(queued, table, pos', pending, {c}, None)
       \/ /\ queued # None /\ MayAsk(queued)
          /\ asking' = queued /\ closing' = c
          /\ SignalRejected(table, pending, {}, None)
          /\ UNCHANGED sellTimer

\* _handle_sell_fill of f new shares.  Only the first report of a sell order is
\* booked; a report for a code without a position is dropped.
SellFilled(o, cum, f) ==
    LET c == orders[o].code
        p == pos[c]
    IN /\ cumulative' = [cumulative EXCEPT ![o] = cum]
       /\ IF o \in processed \/ p.qty = 0
          THEN /\ SaleNotSent(Told(o, cum), pending, sellTimer)
               /\ UNCHANGED <<pos, cancelTimer, entry, forceIssued, processed>>
          ELSE /\ processed' = processed \cup {o}
               /\ IF f >= p.qty
                  THEN PositionClosed(c, Told(o, cum))
                  ELSE /\ pos' = [pos EXCEPT ![c] = Reduced(p, f)]
                       /\ SaleNotSent(Told(o, cum), pending,
                              [sellTimer EXCEPT ![c] = IF @ = "none" THEN "fresh" ELSE @])
                       /\ UNCHANGED <<cancelTimer, entry, forceIssued>>
       /\ UNCHANGED blocks

\* Mutation of NewShares: the cumulative count is read as an increment.
NewSharesUncounted(o, cum) == cum

\* FID 911 is cumulative within the order.
NewShares(o, cum) == AtLeastZero(cum - cumulative[o])

\* A report with no new shares only refreshes the cumulative count.
OnChejan(o, cum) ==
    LET f == NewShares(o, cum)
    IN \/ /\ f = 0
          /\ cumulative' = [cumulative EXCEPT ![o] = cum]
          /\ orders' = Told(o, cum)
          /\ UNCHANGED <<pos, sale, entry, forceIssued, processed, blocks, nextNo>>
       \/ f > 0 /\ orders[o].kind \in BuyKind /\ BuyFilled(o, cum, f)
       \/ f > 0 /\ orders[o].kind \in SellKind /\ SellFilled(o, cum, f)

\* The server reports executions in order, one or several at a time.
Deliver(o) ==
    /\ orders[o].status = "working"
    /\ \E cum \in (orders[o].told + 1)..orders[o].done : OnChejan(o, cum)
    /\ UNCHANGED outside

\* After a reconnect it may repeat the last report of an order it accepted.
Redeliver(o) ==
    /\ redelivered < MaxRedeliveries
    /\ orders[o].status \in {"working", "lapsed"} /\ orders[o].told > 0
    /\ OnChejan(o, orders[o].told)
    /\ redelivered' = redelivered + 1
    /\ UNCHANGED <<syncs, day>>

-----------------------------------------------------------------------------
(* The balance sync: sync_balance and _sync_with_balance *)

Bought(c) == MapThenSumSet(LAMBDA o : orders[o].done, Buys(c))

\* _rebuild_positions_from_holdings: what becomes of the position p when the
\* reply shows q shares of the code.  The count of a held code whose last fill is
\* recent is kept; the number of entries is not.
Rebuilt(p, q, recent) ==
    LET qty == IF recent /\ p.qty > 0 THEN p.qty ELSE q
    IN IF q = 0 THEN NoPosition
       ELSE [qty |-> qty, today |-> Least(p.today, qty), opened |-> p.opened,
             partial |-> p.partial, entries |-> 1]

\* opw00018 shows the account with a delay, or misses codes of it, and replaces
\* the positions: a code it does not show is dropped, whatever the other books
\* say of it.  An empty reply changes nothing, and while a price request runs the
\* broker's client answers the sync with an empty reply.
SyncBalance ==
    /\ syncs < MaxSyncs /\ asking = None
    /\ \E shown \in [Codes -> 0..(MaxOrders * MaxQty)], recent \in SUBSET Codes :
           /\ \A c \in Codes : shown[c] <= Bought(c)
           /\ OtherStocks \/ \E c \in Codes : shown[c] > 0
           /\ pos' = [c \in Codes |-> Rebuilt(pos[c], shown[c], c \in recent)]
    /\ syncs' = syncs + 1
    /\ UNCHANGED <<sale, entry, forceIssued, fills, blocks, books, redelivered, day>>

-----------------------------------------------------------------------------
(* Refusals and the change of day *)

\* Mutation of BuyRefused: the awaited quantity is left behind.
BuyRefusedStillAwaited(c) ==
    /\ meta' = meta \ {c}
    /\ noReentry' = noReentry \cup {c}
    /\ UNCHANGED <<pos, sellTimer, cancelTimer, forceIssued, appBuys>>

\* RC4007: the stock may not be bought, so it is barred for the day.
BuyRefused(c) ==
    /\ appBuys' = [appBuys EXCEPT ![c] = 0]
    /\ meta' = meta \ {c}
    /\ noReentry' = noReentry \cup {c}
    /\ UNCHANGED <<pos, sellTimer, cancelTimer, forceIssued>>

\* Mutation of SaleRefused: the record of the forced sale is left behind.
SaleRefusedStillForced(c) ==
    /\ sellTimer' = [sellTimer EXCEPT ![c] = "none"]
    /\ cancelTimer' = [cancelTimer EXCEPT ![c] = "none"]
    /\ pos' = [pos EXCEPT ![c] = NoPosition]
    /\ UNCHANGED <<appBuys, meta, noReentry, forceIssued>>

\* 800033: taken to mean that the account has no such shares, so the position
\* is forgotten.
SaleRefused(c) ==
    /\ forceIssued' = forceIssued \ {c}
    /\ sellTimer' = [sellTimer EXCEPT ![c] = "none"]
    /\ cancelTimer' = [cancelTimer EXCEPT ![c] = "none"]
    /\ pos' = [pos EXCEPT ![c] = NoPosition]
    /\ UNCHANGED <<appBuys, meta, noReentry>>

\* on_order_msg: the refusal message names the code, not the order.
OnOrderMsg(o) ==
    LET c == orders[o].code
    IN /\ orders[o].status = "refused"
       /\ orders' = [orders EXCEPT ![o].status = "closed"]
       /\ pending' = pending \ {c}
       /\ \/ orders[o].kind \in BuyKind /\ BuyRefused(c)
          \/ orders[o].kind \in SellKind /\ SaleRefused(c)
       /\ UNCHANGED <<nextNo, queued, lookup, fills, stopLoss, outside>>

\* No message of the day is still on its way.
Settled == \A o \in OrderNos :
    orders[o].status # "refused" /\ orders[o].told = orders[o].done

\* _roll_daily_state_if_needed at the first sync or fill of a new day; the
\* orders the server still had working lapsed with the old one.
RollDay ==
    /\ day < MaxDays /\ Settled /\ asking = None
    /\ day' = day + 1
    /\ orders' = [o \in OrderNos |-> IF orders[o].status = "working" /\ orders[o].done < orders[o].qty
                                     THEN [orders[o] EXCEPT !.status = "lapsed"]
                                     ELSE orders[o]]
    /\ stopLoss' = {}
    /\ noReentry' = {}
    /\ processed' = {}
    /\ queued' = None
    /\ pos' = [c \in Codes |-> [pos[c] EXCEPT !.today = 0]]
    /\ UNCHANGED <<sale, appBuys, meta, lookup, forceIssued, cumulative, nextNo, redelivered,
                   syncs>>

-----------------------------------------------------------------------------
Init ==
    /\ pos = [c \in Codes |-> NoPosition]
    /\ pending = {}
    /\ sellTimer = [c \in Codes |-> "none"]
    /\ cancelTimer = [c \in Codes |-> "none"]
    /\ appBuys = [c \in Codes |-> 0]
    /\ meta = {}
    /\ forceIssued = {}
    /\ cumulative = [o \in OrderNos |-> 0]
    /\ processed = {}
    /\ queued = None
    /\ asking = None
    /\ closing = None
    /\ stopLoss = {}
    /\ noReentry = {}
    /\ orders = [o \in OrderNos |-> Unsent]
    /\ nextNo = 1
    /\ redelivered = 0
    /\ syncs = 0
    /\ day = 1

\* What the program does on its own or on the user's behalf.
Program(c) ==
    \/ HandleSignal(c)
    \/ AskInfo(c)
    \/ ManualBuy(c)
    \/ StopLossTick(c)
    \/ TrailingTick(c)
    \/ ScheduledExit(c)
    \/ Sell(c)
    \/ WatchdogCancel(c)
    \/ ExitCheck(c)

Timers(c) == SellTimeout(c) \/ CancelTimeout(c)

\* What it does when the server speaks.
Server(o) == Execute(o) \/ Deliver(o) \/ Redeliver(o) \/ OnOrderMsg(o)

Next ==
    \/ \E c \in Codes : Program(c) \/ Timers(c)
    \/ \E o \in OrderNos : Server(o)
    \/ AnswerInfo
    \/ SyncBalance
    \/ RollDay

Spec == Init /\ [][Next]_vars

\* The exit loop runs every 5 s and its clocks advance, so a sale that may be
\* given up is given up; nothing obliges the strategy to sell.  A price request
\* has a time limit of 2 s.
ExitLoopFairness ==
    /\ \A c \in Codes :
           /\ WF_vars(SellTimeout(c)) /\ WF_vars(CancelTimeout(c))
           /\ WF_vars(WatchdogCancel(c)) /\ WF_vars(Released(c) /\ ExitCheck(c))
    /\ WF_vars(AnswerInfo)

\* A market order executes and its report or refusal arrives.
ServerFairness == \A o \in OrderNos :
    WF_vars(Execute(o)) /\ WF_vars(Deliver(o)) /\ WF_vars(OnOrderMsg(o))

ExitLoopSpec == Spec /\ ExitLoopFairness
LiveSpec == ExitLoopSpec /\ ServerFairness

-----------------------------------------------------------------------------
(* Properties that hold *)

\* Every variable has its type; in particular no share count goes below zero
\* and no order is reported beyond what it executed or executed beyond its size.
TypeOK ==
    /\ pos \in [Codes -> Position]
    /\ \A c \in Codes : pos[c].today <= pos[c].qty
    /\ pending \subseteq Codes
    /\ sellTimer \in [Codes -> Timer]
    /\ cancelTimer \in [Codes -> Timer]
    /\ appBuys \in [Codes -> Nat]
    /\ meta \subseteq Codes
    /\ forceIssued \subseteq Codes
    /\ cumulative \in [OrderNos -> Nat]
    /\ processed \subseteq OrderNos
    /\ {queued, asking, closing} \subseteq Codes \cup {None}
    /\ closing # None => asking # None
    /\ stopLoss \subseteq Codes
    /\ noReentry \subseteq Codes
    /\ orders \in [OrderNos -> Order]
    /\ \A o \in OrderNos :
           /\ orders[o].told <= orders[o].done /\ orders[o].done <= orders[o].qty
           /\ orders[o] = Unsent \/ (orders[o].code # None /\ orders[o].kind # "none")
    /\ nextNo \in Nat \ {0}
    /\ redelivered \in Nat
    /\ syncs \in Nat
    /\ day \in Nat

\* A code sold by an exit rule is not bought again on a signal the same day,
\* neither directly nor when a waiting signal is replayed from inside the fill
\* handler of another code's sale (_is_buy_allowed, _no_reentry_today).
NoReentryAfterExit ==
    \A x, o \in OrderNos :
        (/\ orders[x].kind = "exit" /\ orders[o].kind = "signal"
         /\ orders[x].code = orders[o].code /\ orders[x].day = orders[o].day)
        => o < x

\* A buy that is neither fully reported nor taken back in a message on_order_msg
\* understands.  One that lapsed with its day or was rejected counts: the program
\* is not told and goes on waiting for it.
Outstanding(o) ==
    /\ orders[o].kind \in BuyKind /\ orders[o].status # "closed"
    /\ orders[o].told < orders[o].qty

\* A code counts in _pending only while some record says why: a buy that is not
\* fully reported, or the clock of a sale, or the fill handler of its sale that
\* waits for a price.  Without one nothing would ever take the code out again, and
\* it could neither be bought nor, once held, be checked for exit.
PendingExplained ==
    \A c \in pending :
        \/ \E o \in Buys(c) : Outstanding(o)
        \/ sellTimer[c] # "none"
        \/ c = closing

\* The program waits for no more shares than one buy of the code has left, as far
\* as the program was told, whatever partial fills, second buys, refusals and
\* syncs did to _app_pending_buys meanwhile.
AppBuysUnreported ==
    \A c \in Codes : appBuys[c] > 0 =>
        \E o \in Buys(c) : Outstanding(o) /\ appBuys[c] <= orders[o].qty - orders[o].told

\* The record of a forced sale ends with the position: only a balance sync that
\* drops the position leaves the record behind, where it makes force_exit answer
\* "already issued" to the stops of the next position.
ForceRecordEndsWithPosition ==
    [][syncs' = syncs =>
         \A c \in forceIssued' :
             pos'[c].qty > 0 \/ (c \in forceIssued /\ pos[c].qty = 0)]_vars

\* Once MaxStopLosses codes have been stopped out, no step of the day sends a
\* buy on a signal, the replay of a waiting signal included.
BreakerStopsEntries ==
    [][\A o \in OrderNos :
         (/\ MaxStopLosses > 0 /\ Cardinality(stopLoss) >= MaxStopLosses
          /\ orders[o].kind = "none")
         => orders'[o].kind # "signal"]_vars

\* A report the server repeats never takes shares out of a position, not even
\* out of one opened after the repeated sale.
RepeatsNeverSell ==
    [][redelivered' # redelivered => \A c \in Codes : pos'[c].qty >= pos[c].qty]_vars

\* A sale that does not complete does not lock its position: the exit loop sees
\* the code again, after the cancel request and the grace time, or a sync has
\* dropped the position meanwhile.
SellWatchdogReleases ==
    \A c \in Codes :
        (c \in pending /\ pos[c].qty > 0 /\ sellTimer[c] # "none")
            ~> (c \notin pending \/ pos[c].qty = 0)
=============================================================================
