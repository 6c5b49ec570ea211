---------------------------- MODULE RiskManager ----------------------------
(***************************************************************************)
(* The daily risk limits: RiskManager (app/risk_manager.py), the ledger of *)
(* realized profit in OrderManager (order/order_manager.py 1173-1285), the *)
(* session file of AppState (app/state.py 212-264) and the entry gates of  *)
(* TradingController and OrderManager that read the locks.  A step is one  *)
(* handler of the Qt main thread, or a move of the broker, of the clock or *)
(* of the user.                                                            *)
(*                                                                         *)
(* Profits are counted in units, a single holding stands for the account,  *)
(* and a signal is only whether it may enter.                              *)
(***************************************************************************)
EXTENDS Integers

CONSTANTS
    ProfitTarget,   \* daily_profit_lock_won
    LossLimit,      \* daily_loss_cut_won
    LossStreak,     \* consecutive_loss_limit
    Results,        \* realized profit of one sale
    BrokerReports,  \* does opt10074 answer (a real account), or not (a mock one)?
    MinuteSlips,    \* may the one-minute timer step over 00:00?
    MaxSales, MaxEntries, MaxRestarts, MaxDays   \* bounds of the behaviours

ASSUME ConstantsAssumption ==
    /\ ProfitTarget \in Int /\ LossLimit \in Int
    /\ ProfitTarget > 0 /\ LossLimit > 0
    /\ LossStreak \in Nat \ {0}
    /\ Results \subseteq Int
    /\ BrokerReports \in BOOLEAN /\ MinuteSlips \in BOOLEAN
    /\ MaxSales \in Nat /\ MaxEntries \in Nat
    /\ MaxRestarts \in Nat /\ MaxDays \in Nat \ {0}

None == "none"

Phase == {"before", "open", "after"}

VARIABLES
    risk,       \* RiskManager and the two locks it keeps in AppState
    ledger,     \* the realized profit as OrderManager counts it
    statePnl,   \* AppState._daily_realized_pnl
    session,    \* params/session_state.json
    filed,      \* sum of today's fills file
    realized,   \* what the account has realized today, at the broker
    sale,       \* a sale executed but not reported yet
    holds,      \* the account holds the stock
    known,      \* the program has the position
    buying,     \* a buy order is out
    queued,     \* _queued_signal
    balance,    \* _balance_result waits for step 2 of the sync
    phase,      \* of the trading day
    day, sales, entered, restarts

books   == <<ledger, statePnl, filed, realized>>
stock   == <<sale, holds, known, buying>>
counts  == <<day, sales, entered, restarts>>
vars    == <<risk, ledger, statePnl, session, filed, realized, sale, holds,
             known, buying, queued, balance, phase, day, sales, entered,
             restarts>>

Open == phase = "open"   \* tick_exit_check runs from 08:55 to 15:35

(***************************************************************************)
(* The locks.                                                              *)
(***************************************************************************)

Risk == [profitLocked : BOOLEAN,          \* AppState.profit_locked
         lossCut      : BOOLEAN,          \* AppState.loss_cut_locked
         losses       : Nat,              \* _consecutive_losses
         cooloff      : {None, "running", "due"},  \* _cooling_off_until
         byCooloff    : BOOLEAN,          \* _profit_locked_by_cooloff
         manual       : BOOLEAN]          \* _manual_unlock_active

Unlocked == [profitLocked |-> FALSE, lossCut |-> FALSE, losses |-> 0,
             cooloff |-> None, byCooloff |-> FALSE, manual |-> FALSE]

(* Mutation of CooloffChecked: its mark goes only with a lock that is still
   there. *)
CooloffCheckedLocked(r) ==
    IF r.cooloff # "due" THEN r
    ELSE [r EXCEPT !.cooloff = None, !.losses = 0,
                   !.byCooloff = @ /\ ~r.profitLocked,
                   !.profitLocked = @ /\ ~r.byCooloff]

(* _check_cooloff: a cool-off that is over takes its lock with it. *)
CooloffChecked(r) ==
    IF r.cooloff # "due" THEN r
    ELSE [r EXCEPT !.cooloff = None, !.losses = 0, !.byCooloff = FALSE,
                   !.profitLocked = @ /\ ~r.byCooloff]

(* check: target, loss limit, fall of the open positions, cool-off. *)
Checked(r, pnl, fell) ==
    CooloffChecked(
        [r EXCEPT !.profitLocked = @ \/ (pnl >= ProfitTarget /\ ~r.manual),
                  !.lossCut = @ \/ pnl <= -LossLimit \/ fell])

CoolingOff(r) == [r EXCEPT !.losses = @ + 1, !.cooloff = "running",
                           !.byCooloff = TRUE, !.profitLocked = TRUE]

(* _on_order_filled: only the sale that empties the position counts.  The
   streak has no upper limit: each loss from the limit on starts the cool-off
   again, unless the user has lifted the lock. *)
Counted(r, gain, closes) ==
    CASE ~closes \/ gain = 0 -> r
      [] closes /\ gain > 0  -> [r EXCEPT !.losses = 0]
      [] closes /\ gain < 0 /\ r.losses + 1 >= LossStreak /\ ~r.manual -> CoolingOff(r)
      [] OTHER -> [r EXCEPT !.losses = @ + 1]

(***************************************************************************)
(* The ledger and the session file.                                        *)
(***************************************************************************)

Ledger == [pnl    : Int,        \* daily_realized_pnl
           base   : Int,        \* _broker_realized_base
           extra  : Int,        \* the sales in _today_fill_log
           synced : BOOLEAN,    \* _fills_initialized
           rolled : BOOLEAN]    \* _pnl_date is today

(* _recompute_daily_realized_from_ledger *)
Recomputed(l) == [l EXCEPT !.pnl = l.base + l.extra]

EmptyLedger(pnl) == [pnl |-> pnl, base |-> 0, extra |-> 0,
                     synced |-> FALSE, rolled |-> TRUE]

(* _roll_daily_state_if_needed *)
Rolled(l) == IF l.rolled THEN l ELSE EmptyLedger(0)
KeptSignal == queued /\ ledger.rolled

Booked(l, gain) == Recomputed([l EXCEPT !.extra = @ + gain])

(* Mutation of Synced: the sales of the session stay in the log. *)
SyncedTwice(l, answered) ==
    IF l.synced THEN l ELSE Recomputed([l EXCEPT !.synced = TRUE, !.base = filed])

(* Mutation of Synced: the fills file is not read. *)
SyncedUnfiled(l, answered) ==
    IF l.synced THEN l
    ELSE Recomputed([l EXCEPT !.extra = 0, !.synced = TRUE,
             !.base = IF answered THEN realized ELSE 0])

(* _sync_daily_realized_from_broker: once a session, the sum the broker
   reports, or that of the fills file when it reports none or zero. *)
Synced(l, answered) ==
    IF l.synced THEN l
    ELSE Recomputed([l EXCEPT !.extra = 0, !.synced = TRUE,
             !.base = IF answered /\ realized # 0 THEN realized ELSE filed])

(* Mutation of NoSession: load_session does not look at the date of the file. *)
NoSessionKept == [today |-> FALSE, pnl |-> statePnl]

(* load_session takes nothing from a file of another day. *)
NoSession == [today |-> FALSE, pnl |-> 0]

(* The setters of AppState write the file when their value changes. *)
SavedIf(changed, pnl) ==
    session' = IF changed THEN [today |-> TRUE, pnl |-> pnl] ELSE session

LocksDiffer(r, s) == r.profitLocked # s.profitLocked \/ r.lossCut # s.lossCut

Relock(r) == /\ risk' = r
             /\ SavedIf(LocksDiffer(risk, r), statePnl)
             /\ UNCHANGED <<books, stock, queued, balance, phase, counts>>

Falls == IF known THEN BOOLEAN ELSE {FALSE}

(***************************************************************************)
(* Entries.                                                                *)
(***************************************************************************)

(* Mutation of MayEnter: the loss lock is not looked at. *)
MayEnterLossy == entered < MaxEntries

(* The gate of OrderManager; the profit lock is only looked at by the
   controller. *)
MayEnter == ~risk.lossCut /\ entered < MaxEntries

Enter == buying' = TRUE /\ entered' = entered + 1

(* TradingController.handle_signal and, behind its gate, OrderManager's: the
   signal enters, or waits while the slots are taken.  A rejected one leaves
   no trace. *)
Signal ==
    /\ Open /\ ~risk.profitLocked /\ MayEnter
    /\ \/ Enter /\ queued' = queued
       \/ known /\ queued' = TRUE /\ UNCHANGED <<buying, entered>>
    /\ UNCHANGED <<risk, books, session, sale, holds, known, balance, phase,
                   day, sales, restarts>>

(* TradingController.manual_buy goes around both gates. *)
ManualBuy ==
    /\ Open /\ buying' = TRUE
    /\ UNCHANGED <<risk, books, session, sale, holds, known, queued, balance,
                   phase, counts>>

(* A buy is executed and reported: the position is there, and the limits are
   checked. *)
BuyFilled ==
    /\ Open /\ buying /\ ~sale.out
    /\ buying' = FALSE /\ holds' = TRUE /\ known' = TRUE
    /\ ledger' = Rolled(ledger)
    /\ queued' = KeptSignal
    /\ \E fell \in BOOLEAN : risk' = Checked(risk, ledger'.pnl, fell)
    /\ SavedIf(LocksDiffer(risk, risk'), statePnl)
    /\ UNCHANGED <<statePnl, filed, realized, sale, balance, phase, counts>>

(***************************************************************************)
(* Sales.                                                                  *)
(***************************************************************************)

NoSale == [out |-> FALSE, gain |-> 0, closes |-> FALSE]

SaleExecuted ==
    /\ Open /\ holds /\ ~sale.out /\ sales < MaxSales
    /\ \E gain \in Results, closes \in BOOLEAN :
           /\ sale' = [out |-> TRUE, gain |-> gain, closes |-> closes]
           /\ holds' = ~closes
           /\ realized' = realized + gain
    /\ sales' = sales + 1
    /\ UNCHANGED <<risk, ledger, statePnl, session, filed, known, buying,
                   queued, balance, phase, day, entered, restarts>>

(* The fill of a stock the program has no position of is dropped. *)
OrphanReported ==
    /\ sale.out /\ ~known
    /\ sale' = NoSale
    /\ ledger' = Rolled(ledger)
    /\ queued' = KeptSignal
    /\ UNCHANGED <<risk, statePnl, session, filed, realized, holds, known,
                   buying, balance, phase, counts>>

(* handle_signal for the signal that waited: the controller's gate is behind
   it. *)
Replay(signal) ==
    IF ~signal THEN queued' = FALSE /\ UNCHANGED <<buying, entered>>
    ELSE \/ MayEnter /\ Enter /\ queued' = FALSE
         \/ queued' = FALSE /\ UNCHANGED <<buying, entered>>
         \/ ~risk.lossCut /\ queued' = TRUE /\ UNCHANGED <<buying, entered>>

(* _handle_sell_fill: file, ledger, the waiting signal, then the slots of
   RiskManager: streak first, limits second. *)
SaleReported ==
    /\ sale.out /\ known
    /\ sale' = NoSale
    /\ known' = ~sale.closes
    /\ filed' = filed + sale.gain
    /\ ledger' = Booked(Rolled(ledger), sale.gain)
    /\ statePnl' = ledger'.pnl
    /\ IF sale.closes THEN Replay(KeptSignal)
       ELSE queued' = KeptSignal /\ UNCHANGED <<buying, entered>>
    /\ \E fell \in BOOLEAN :
           /\ fell => known'
           /\ risk' = Checked(Counted(risk, sale.gain, sale.closes),
                              ledger'.pnl, fell)
    /\ SavedIf(statePnl' # statePnl \/ LocksDiffer(risk, risk'), statePnl')
    /\ UNCHANGED <<realized, holds, balance, phase, day, sales, restarts>>

(***************************************************************************)
(* Timers, the user and the sync.                                          *)
(***************************************************************************)

(* check at the head of tick_exit_check, every 5 s of market hours *)
LimitsChecked(fell) == Open /\ Relock(Checked(risk, ledger.pnl, fell))
Tick == \E fell \in Falls : LimitsChecked(fell)

CooloffTimer == risk.cooloff = "due" /\ Relock(CooloffChecked(risk))

CooloffPasses == /\ risk.cooloff = "running"
                 /\ Relock([risk EXCEPT !.cooloff = "due"])

(* Mutation of UnlockManually: the user's decision is not remembered. *)
UnlockForgotten == Relock([risk EXCEPT !.profitLocked = FALSE])

UnlockManually == Relock([risk EXCEPT !.manual = TRUE, !.profitLocked = FALSE])

(* The switches of the window (auto trading, overnight) write the file too. *)
SwitchSaved == /\ SavedIf(TRUE, statePnl)
               /\ UNCHANGED <<risk, books, stock, queued, balance, phase, counts>>

(* PortfolioWorker.sync: the day is rolled before the balance is asked for. *)
SyncStep1 ==
    /\ ledger' = Rolled(ledger)
    /\ queued' = KeptSignal
    /\ balance' \in BOOLEAN
    /\ UNCHANGED <<risk, statePnl, session, filed, realized, stock, phase, counts>>

(* _sync_with_balance, when it gets to its end; it returns early, and changes
   nothing, when the account is reported empty and the program has a position. *)
SyncStep2 ==
    /\ balance /\ balance' = FALSE /\ (holds \/ ~known)
    /\ known' = holds
    /\ \E answered \in {FALSE, BrokerReports} : ledger' = Synced(ledger, answered)
    /\ statePnl' = IF ledger.synced THEN statePnl ELSE ledger'.pnl
    /\ SavedIf(statePnl' # statePnl, statePnl')
    /\ UNCHANGED <<risk, filed, realized, sale, holds, buying, queued, phase, counts>>

SyncFails == /\ balance /\ balance' = FALSE
             /\ UNCHANGED <<risk, books, session, stock, queued, phase, counts>>

(***************************************************************************)
(* The day and the program.                                                *)
(***************************************************************************)

(* Syncs have run all night, so the day is rolled by then. *)
MarketOpens == /\ phase = "before" /\ phase' = "open" /\ ledger.rolled
               /\ UNCHANGED <<risk, books, session, stock, queued, balance, counts>>

(* Orders that are not filled lapse. *)
MarketCloses ==
    /\ Open /\ ~sale.out
    /\ phase' = "after" /\ buying' = FALSE
    /\ UNCHANGED <<risk, books, session, sale, holds, known, queued, balance,
                   counts>>

(* 00:00: a new fills file, and the reset of the scheduler if its timer fires
   within the minute. *)
Midnight ==
    /\ phase = "after" /\ day < MaxDays
    /\ day' = day + 1 /\ phase' = "before"
    /\ filed' = 0 /\ realized' = 0
    /\ ledger' = [ledger EXCEPT !.rolled = FALSE]
    /\ \E onTime \in {TRUE, ~MinuteSlips} : risk' = IF onTime THEN Unlocked ELSE risk
    /\ session' = IF LocksDiffer(risk, risk') THEN [today |-> TRUE, pnl |-> statePnl]
                  ELSE NoSession
    /\ UNCHANGED <<statePnl, stock, queued, balance, sales, entered, restarts>>

(* The program ends at any point and is started again: load_session, new
   objects.  A report that comes meanwhile is lost. *)
Restart ==
    /\ restarts < MaxRestarts
    /\ restarts' = restarts + 1
    /\ risk' = Unlocked
    /\ statePnl' = session.pnl
    /\ ledger' = EmptyLedger(statePnl')
    /\ sale' \in {sale, NoSale}
    /\ known' = FALSE /\ queued' = FALSE /\ balance' = FALSE
    /\ UNCHANGED <<session, filed, realized, holds, buying, phase, day, sales,
                   entered>>

Init ==
    /\ risk = Unlocked
    /\ ledger = EmptyLedger(0) /\ statePnl = 0
    /\ session = NoSession
    /\ filed = 0 /\ realized = 0
    /\ sale = NoSale /\ holds = FALSE /\ known = FALSE /\ buying = FALSE
    /\ queued = FALSE /\ balance = FALSE /\ phase = "before"
    /\ day = 1 /\ sales = 0 /\ entered = 0 /\ restarts = 0

Next ==
    \/ Signal \/ ManualBuy \/ BuyFilled
    \/ SaleExecuted \/ OrphanReported \/ SaleReported
    \/ Tick \/ CooloffTimer \/ CooloffPasses
    \/ UnlockManually \/ SwitchSaved
    \/ SyncStep1 \/ SyncStep2 \/ SyncFails
    \/ MarketOpens \/ MarketCloses \/ Midnight \/ Restart

Spec == Init /\ [][Next]_vars

(* The exit loop and the cool-off timer run all day, clocks advance; a tick is
   not obliged to find a fall. *)
TimerFairness ==
    WF_vars(LimitsChecked(FALSE)) /\ WF_vars(CooloffTimer) /\ WF_vars(CooloffPasses)

(* Assumed of the broker: it reports what it has executed, and answers some
   balance request in full. *)
BrokerFairness ==
    WF_vars(SaleReported) /\ WF_vars(SyncStep1 /\ balance') /\ SF_vars(SyncStep2)

LiveSpec == Spec /\ TimerFairness /\ BrokerFairness

(***************************************************************************)
(* Properties.                                                             *)
(***************************************************************************)

(* Every variable has its type, and a session file of another day gives the
   program nothing (load_session, state.py 246-262). *)
TypeOK ==
    /\ risk \in Risk
    /\ ledger \in Ledger /\ statePnl \in Int /\ filed \in Int /\ realized \in Int
    /\ session \in [today : BOOLEAN, pnl : Int]
    /\ session.today \/ session.pnl = 0
    /\ sale \in [out : BOOLEAN, gain : Results \union {0}, closes : BOOLEAN]
    /\ holds \in BOOLEAN /\ known \in BOOLEAN /\ buying \in BOOLEAN
    /\ queued \in BOOLEAN /\ balance \in BOOLEAN /\ phase \in Phase
    /\ day \in 1..MaxDays /\ sales \in 0..MaxSales
    /\ entered \in 0..MaxEntries /\ restarts \in 0..MaxRestarts

(* Once the ledger of the day is initialized, it holds every sale of today's
   fills file exactly once, whatever restarts, syncs and day changes came
   before (_fills_initialized, order_manager.py 1244-1277). *)
LedgerExact == ledger.synced /\ ledger.rolled => ledger.pnl = filed

(* A cool-off that runs keeps the entry lock closed until it ends, unless the
   user lifts it, and no lock of a cool-off is left without the clock that
   ends it (risk_manager.py 145-157, 181-218). *)
CooloffHolds ==
    /\ risk.byCooloff <=> risk.cooloff # None
    /\ risk.cooloff # None => risk.profitLocked \/ risk.manual

(* Without a restart, no handler that starts with the limit lost lets a signal
   enter, be it fresh or replayed by a sale (risk_manager.py 125-128,
   order_manager.py 1293-1297, 1942-1945).  The handler of the sale that
   loses the limit still may: it replays before check acts. *)
LossLimitStopsEntries ==
    [][entered' # entered /\ restarts = 0 => filed > -LossLimit]_vars

(* A cool-off comes to an end (risk_manager.py 70-73, 145-157). *)
CooloffEnds == risk.byCooloff ~> ~risk.byCooloff

(* load_session drops the loss lock and relies on check to take it again: on
   a day that has lost the limit the lock is back before the market closes
   (state.py 250-254). *)
LossLockReturns ==
    Open /\ filed <= -LossLimit
        ~> risk.lossCut \/ filed > -LossLimit \/ ~Open
=============================================================================
