--------------------------- MODULE PortfolioSync ---------------------------
(***************************************************************************)
(* The two-step balance sync: PortfolioWorker (engine/workers.py) reads    *)
(* the balance, and 350 ms or more later OrderManager rebuilds its         *)
(* positions from the holdings the broker shows, which lag behind the      *)
(* fills.  Fill reports (chejan) change the same positions in between.     *)
(* Every share costs 1; retries that change nothing are stuttering steps.  *)
(***************************************************************************)
EXTENDS Integers, Sequences, FiniteSets, FiniteSetsExt, TLC

CONSTANTS
    Codes,
    Deposit,       \* money of the account, shares included
    MaxEntries,    \* RISK["pyramid_max_entries"]
    MaxTrades,     \* bound: fills
    MaxChains,     \* bound: timers of a step
    MaxRestarts    \* bound: starts of the program

ASSUME ConstantsAssumption ==
    /\ Codes # {} /\ IsFiniteSet(Codes)
    /\ {Deposit, MaxEntries, MaxTrades, MaxChains, MaxRestarts} \subseteq Nat

VARIABLES
    mock,      \* is_mock: the server's deposit is not reduced by what is held
    server,    \* shares the account holds
    shown,     \* shares opw00018 answers: may lag behind
    reports,   \* fill reports on their way
    book,      \* OrderManager.positions
    cash,      \* OrderManager.cash
    balance,   \* PortfolioWorker._balance_result
    steps1,    \* timers that wait to call sync
    steps2,    \* timers that wait to call _sync_step2
    trades, restarts   \* counters of the bounds

vars == <<mock, server, shown, reports, book, cash, balance, steps1, steps2,
          trades, restarts>>
account == <<mock, server, shown, reports>>
counters == <<trades, restarts>>

\* A position: shares, whether its average price is known, whether
\* last_fill_at lies within the guard, qty_buy_today_app and entry_count.
Position == [qty : Nat, avg : BOOLEAN, fresh : BOOLEAN, today : Nat, entries : Nat]
NoPosition == [qty |-> 0, avg |-> FALSE, fresh |-> FALSE, today |-> 0, entries |-> 1]

Total(f) == MapThenSumSet(LAMBDA c : f[c], Codes)

\* sum(p.avg_price * p.qty)
Invested(b) == Total([c \in Codes |-> IF b[c].avg THEN b[c].qty ELSE 0])
Held(b) == {c \in Codes : b[c].qty > 0}

Nothing == [c \in Codes |-> 0]

\* start_after_login calls sync at once.
Init ==
    /\ mock \in BOOLEAN
    /\ server = Nothing /\ shown = Nothing /\ reports = <<>>
    /\ book = [c \in Codes |-> NoPosition]
    /\ cash = 0 /\ balance = 0 /\ steps1 = 1 /\ steps2 = 0
    /\ trades = 0 /\ restarts = 0

----------------------------------------------------------------------------
(* The account *)

\* An order of the program is executed.  It buys what it holds already only
\* while entry_count allows it (_can_pyramid).
MayBuy(c) ==
    /\ Total(server) < Deposit
    /\ book[c].qty = 0 \/ book[c].entries < MaxEntries
    /\ \A i \in DOMAIN reports : reports[i].code # c

Buy(c) ==
    /\ trades < MaxTrades /\ trades' = trades + 1
    /\ MayBuy(c)
    /\ server' = [server EXCEPT ![c] = @ + 1]
    /\ reports' = Append(reports, [code |-> c, side |-> "buy"])
    /\ UNCHANGED <<mock, shown, book, cash, balance, steps1, steps2, restarts>>

Sell(c) ==
    /\ trades < MaxTrades /\ trades' = trades + 1
    /\ server[c] > 0 /\ book[c].qty > 0
    /\ server' = [server EXCEPT ![c] = @ - 1]
    /\ reports' = Append(reports, [code |-> c, side |-> "sell"])
    /\ UNCHANGED <<mock, shown, book, cash, balance, steps1, steps2, restarts>>

\* The broker's own book takes a fill up.
Settle(c) ==
    /\ shown[c] # server[c]
    /\ shown' = [shown EXCEPT ![c] = server[c]]
    /\ UNCHANGED <<mock, server, reports, book, cash, balance, steps1, steps2, counters>>

----------------------------------------------------------------------------
(* Fill reports *)

\* _handle_buy_fill: a first report of an order counts as an entry.
Bought(p) ==
    [qty |-> p.qty + 1, avg |-> TRUE, fresh |-> TRUE, today |-> p.today + 1,
     entries |-> IF p.qty = 0 THEN 1 ELSE p.entries + 1]

\* _handle_sell_fill: a position without shares is removed.
Sold(p) == IF p.qty = 1 THEN NoPosition
           ELSE [p EXCEPT !.qty = @ - 1, !.fresh = TRUE, !.today = IF @ > 0 THEN @ - 1 ELSE 0]

\* A sale of what is not in the book is dropped as an orphan.
Report ==
    /\ reports # <<>>
    /\ LET c == Head(reports).code
           sells == Head(reports).side = "sell"
           orphan == sells /\ book[c].qty = 0
       IN /\ book' = (CASE orphan -> book
                        [] sells /\ ~orphan -> [book EXCEPT ![c] = Sold(@)]
                        [] ~sells -> [book EXCEPT ![c] = Bought(@)])
          /\ cash' = (CASE orphan -> cash [] sells /\ ~orphan -> cash + 1 [] ~sells -> cash - 1)
    /\ reports' = Tail(reports)
    /\ UNCHANGED <<mock, server, shown, balance, steps1, steps2, counters>>

\* _FILL_STALE_GUARD_SEC pass after the last fill.
Ages(c) ==
    /\ book[c].fresh
    /\ book' = [book EXCEPT ![c].fresh = FALSE]
    /\ UNCHANGED <<account, cash, balance, steps1, steps2, counters>>

----------------------------------------------------------------------------
(* The sync *)

\* The 60 s timer starts another chain, whatever the others do.
Tick ==
    /\ steps1 < MaxChains
    /\ steps1' = steps1 + 1
    /\ UNCHANGED <<account, book, cash, balance, steps2, counters>>

\* The gateway is free and answers: step 2 follows on a timer of its own.
Step1 ==
    /\ steps1 > 0 /\ steps2 < MaxChains
    /\ steps1' = steps1 - 1 /\ steps2' = steps2 + 1
    /\ balance' = (IF mock THEN Deposit ELSE Deposit - Total(shown))
    /\ UNCHANGED <<account, book, cash, counters>>

\* Mutated: shares kept because of the guard are kept for good.
RebuiltOnce(c, priced) ==
    IF shown[c] = 0 THEN NoPosition
    ELSE IF book[c].qty > 0 THEN [book[c] EXCEPT !.avg = @ \/ priced, !.entries = 1]
    ELSE [NoPosition EXCEPT !.qty = shown[c], !.avg = priced]

\* One entry of _rebuild_positions_from_holdings; entry_count is not among
\* the fields that are copied.
Rebuilt(c, priced) ==
    LET old == book[c]
        n   == IF old.qty > 0 /\ old.fresh THEN old.qty ELSE shown[c]
    IN  IF shown[c] = 0 THEN NoPosition
        ELSE [qty |-> n, avg |-> priced \/ old.avg, fresh |-> old.fresh,
              today |-> Min({old.today, n}), entries |-> 1]

\* Mutated: the mock server's deposit is taken as it is.
CashWhole(b) == balance

\* A mock server's deposit lacks what is invested; a computed 0 is not believed.
CashFor(b) ==
    LET left == Max({0, balance - Invested(b)})
    IN  IF left = 0 /\ cash > 0 THEN cash ELSE left

\* _sync_with_balance.  An empty reply, whether the account is empty or
\* get_holdings failed, leaves positions alone; a real account's cash is then
\* reduced by them once more.
Synced(reply, priced) ==
    CASE balance = 0 -> UNCHANGED <<book, cash>>
      [] balance > 0 /\ reply = {} /\ Held(book) # {} -> cash' = CashFor(book) /\ UNCHANGED book
      [] OTHER ->
           /\ book' = [c \in Codes |-> IF c \in reply THEN Rebuilt(c, priced) ELSE NoPosition]
           /\ cash' = (IF mock THEN CashFor(book') ELSE balance)

Step2(reply, priced) ==
    /\ steps2 > 0 /\ steps2' = steps2 - 1
    /\ Synced(reply, priced)
    /\ UNCHANGED <<account, balance, steps1, counters>>

Shown == {c \in Codes : shown[c] > 0}

\* A mock server may leave the average prices out.
Step2Answered == \E priced \in {TRUE, ~mock} : Step2(Shown, priced)
Step2Failed   == Step2({}, TRUE)

\* The program ends and is started again; reports on their way are lost.
Restart ==
    /\ restarts < MaxRestarts /\ restarts' = restarts + 1
    /\ reports' = <<>> /\ book' = [c \in Codes |-> NoPosition]
    /\ cash' = 0 /\ balance' = 0 /\ steps1' = 1 /\ steps2' = 0
    /\ UNCHANGED <<mock, server, shown, trades>>

Next ==
    \/ \E c \in Codes : Buy(c) \/ Sell(c) \/ Settle(c) \/ Ages(c)
    \/ Report \/ Tick \/ Step1 \/ Step2Answered \/ Step2Failed \/ Restart

Spec == Init /\ [][Next]_vars

\* Reports are delivered, the broker's book follows, time passes; the timer
\* runs, the gateway is free again and again (RequestsEnd of Gateway) and
\* does not refuse the holdings for ever.
Fairness ==
    /\ WF_vars(Report) /\ WF_vars(Tick) /\ WF_vars(Step1) /\ SF_vars(Step2Answered)
    /\ \A c \in Codes : WF_vars(Settle(c)) /\ WF_vars(Ages(c))

LiveSpec == Spec /\ Fairness

----------------------------------------------------------------------------
(* Properties *)

\* Once trading is over the positions are what the account holds, whatever
\* overlapped before, unless the account holds nothing (an empty reply is never
\* believed, 588-599) or is a real one with no money left (its holdings are
\* not even asked for, 584-587).
BookConverges ==
    <>[](Total(server) > 0 /\ (mock \/ Total(server) < Deposit) =>
            \A c \in Codes : book[c].qty = server[c])

\* So does the cash, but for a remainder of nothing (594-611); that of a real
\* account only between failed replies, which reduce it twice (590-599).
CashRight ==
    LET spent == IF mock THEN Invested(book) ELSE Total(server)
    IN  Total(server) > 0 /\ spent < Deposit => cash = Deposit - spent
CashConverges == /\ <>[](mock => CashRight)
                 /\ []<>CashRight
=============================================================================
