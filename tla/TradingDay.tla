----------------------------- MODULE TradingDay -----------------------------
(***************************************************************************)
(* The trading day as TradingController, SignalFilterChain,                *)
(* JangDongMinStrategy and MarketScheduler run it: which signals may enter *)
(* and when, which exits are decided by the 5-second loop, by ticks and by *)
(* the minute timer, what an overnight holding goes through, and what of   *)
(* it all survives a restart.  The main thread runs every handler, so a    *)
(* handler is one step.                                                    *)
(*                                                                         *)
(* Abstractions.  The clock steps through the instants of Clock, the only  *)
(* ones at which anything is decided differently.  A market order is       *)
(* executed in full later than it is sent, or comes to nothing, or is      *)
(* refused; OrderManager models the orders themselves, RiskManager the     *)
(* lock that a signal may find closed.  What the candles show is a set of  *)
(* facts, as in ExitRules.  A rejection for the sector, the cash or by the *)
(* AI model is nondeterministic.                                           *)
(***************************************************************************)
EXTENDS ExitRules, Sequences, FiniteSets

CONSTANTS
    Codes,
    Types,         \* signal types: enabled_strategies
    Prices,        \* prices of a code
    Trends,        \* trend levels a snapshot may show
    Gaps,          \* opening gaps of a signal, basis points
    Clock,         \* the minutes of a day at which something happens
    Shown,         \* the sets of facts that candles show
    EntryStart, EntryEnd,   \* entry_start_time, entry_end_time
    EodStart, EodEnd,       \* eod_entry_start, eod_entry_end
    MaxPositions, PhaseMax, \* max_positions, phase1_max_positions
    Cooldown,      \* today_entry_cooldown_minutes
    TrendFilter,   \* yosep_trend_enabled
    TickHard, TickStop,     \* RISK: hard_stop_pct, stop_loss_pct
    GapUp, GapDown, TimeCutMin, EodStop,  \* eod_gap_*_exit_pct, eod_timecut_min_pct
    MaxQty,        \* shares of an entry
    MaxEntries, MaxDays,   \* bounds of the behaviours
    MaxInterrupts          \* bound: restarts, uses of a switch, sales that fail

ASSUME ConstantsAssumption ==
    /\ Prices \subseteq Nat \ {0} /\ Trends \subseteq 0..3 /\ Gaps \subseteq Int
    /\ Clock \in Seq(0..1439) /\ Clock # <<>>
    /\ \A i, j \in DOMAIN Clock : i < j => Clock[i] < Clock[j]
    /\ {EntryStart, EntryEnd, EodStart, EodEnd, MaxPositions, PhaseMax, Cooldown,
        MaxEntries, MaxInterrupts} \subseteq Nat
    /\ Shown \subseteq SUBSET {"above", "below", "climax", "distribution"}
    /\ MaxQty \in Nat \ {0} /\ MaxDays \in Nat \ {0} /\ TrendFilter \in BOOLEAN
    /\ {TickHard, TickStop, GapUp, GapDown, TimeCutMin, EodStop} \subseteq Int

VARIABLES
    day, tick,   \* the instant: day number and index into Clock
    fired,       \* the minute timer has run at this instant
    done,        \* MarketScheduler's flags of the day: subset of Jobs
    overnight,   \* overnight_mode_enabled
    auto,        \* TradingController._auto_trading
    first,       \* _first_signal_received
    price,       \* what SnapshotStore shows of a code
    book,        \* per code: position, order and marks, see Stock
    lossFile,    \* params/loss_exit_history.json
    opening,     \* the last of _opening_entry_times, 0 for none
    lostOn,      \* history: the day of the last stop, 0 for none
    unsold,      \* history: the day whose closing last left shares, 0 for none
    entries, interrupts

clock    == <<day, tick, fired, done>>
modes    == <<overnight, auto, first>>
files    == <<lossFile, lostOn, unsold>>
counters == <<entries, interrupts>>
vars == <<clock, modes, price, book, files, opening, counters>>

Jobs == {"gap check", "night mode", "closing"}

Now  == day * 1440 + Clock[tick]
Time == Clock[tick]

Stamp == 0..((MaxDays + 1) * 1440)

Position == [qty : 0..MaxQty, avg : Prices \cup {0}, cur : Prices \cup {0},
             peak : Prices \cup {0}, at : Stamp, gap : Gaps \cup {0},
             trend : 0..3, prev : 0..3, partial : BOOLEAN, taken : BOOLEAN,
             eod : BOOLEAN, held : BOOLEAN, phase : 0..2, app : BOOLEAN, sl : BOOLEAN]

NoPosition == [qty |-> 0, avg |-> 0, cur |-> 0, peak |-> 0, at |-> 0, gap |-> 0,
               trend |-> 0, prev |-> 0, partial |-> FALSE, taken |-> FALSE,
               eod |-> FALSE, held |-> FALSE, phase |-> 0, app |-> FALSE, sl |-> FALSE]

\* What the program keeps of a code.  order: "buy" and "sale" wait for their
\* execution, "part" too; "locked" is what a partial sale, or one that came to
\* nothing, leaves behind until the watchdog of is_pending ends it.
\* meta: _pending_meta of a buy.
Stock == [pos : Position, meta : Position,
          order : {"none", "buy", "sale", "part", "locked"}, forced : BOOLEAN,
          stopped : BOOLEAN, barred : BOOLEAN, lossAt : Stamp, entryAt : Stamp]

Nothing == [pos |-> NoPosition, meta |-> NoPosition, order |-> "none",
            forced |-> FALSE, stopped |-> FALSE, barred |-> FALSE,
            lossAt |-> 0, entryAt |-> 0]

TypeOK ==
    /\ day \in 1..MaxDays /\ tick \in DOMAIN Clock /\ fired \in BOOLEAN
    /\ done \subseteq Jobs /\ overnight \in BOOLEAN /\ auto \in BOOLEAN /\ first \in BOOLEAN
    /\ price \in [Codes -> Prices]
    /\ book \in [Codes -> Stock]
    /\ \A c \in Codes : book[c].pos.qty > 0 => book[c].pos.cur = price[c]
    /\ lossFile \in [date : 0..MaxDays, entries : [Codes -> Stamp]]
    /\ lostOn \in [Codes -> 0..MaxDays] /\ unsold \in [Codes -> 0..MaxDays]
    /\ opening \in Stamp /\ entries \in 0..MaxEntries /\ interrupts \in 0..MaxInterrupts

Init ==
    /\ day = 1 /\ tick = 1 /\ fired = FALSE /\ done = {}
    /\ overnight = FALSE /\ auto = FALSE /\ first = FALSE
    /\ price \in [Codes -> Prices]
    /\ book = [c \in Codes |-> Nothing]
    /\ lossFile = [date |-> 0, entries |-> [c \in Codes |-> 0]]
    /\ lostOn = [c \in Codes |-> 0] /\ unsold = [c \in Codes |-> 0]
    /\ opening = 0 /\ entries = 0 /\ interrupts = 0

----------------------------------------------------------------------------
(* Orders and marks of one code: functions from Stock to Stock *)

Owned(s)   == s.pos.qty > 0
Managed(s) == Owned(s) /\ s.pos.app   \* bought by the program since it started
InHours(m) == m \in 535..935
Working(s) == s.order \in {"sale", "part"}

\* OrderManager.sell: a second sale of the same shares is sent as well, for the
\* server to refuse, see SaleRefused.
sell(s, kind) == IF Working(s) THEN s ELSE [s EXCEPT !.order = kind]

\* OrderManager.force_exit.
force_exit(s) ==
    IF ~InHours(Time) \/ s.forced \/ ~Owned(s) THEN s
    ELSE [sell(s, "sale") EXCEPT !.barred = TRUE, !.forced = TRUE]

mark_stop_loss(s) == [s EXCEPT !.stopped = TRUE]

\* mark_loss_exit: a loss only.
mark_loss_exit(s) == IF Losing(s.pos) THEN [s EXCEPT !.lossAt = Now] ELSE s

\* _save_loss_exit_dict, called whenever a mark_loss_exit has recorded something.
Saved(b) == IF \A c \in Codes : b[c].lossAt = book[c].lossAt THEN lossFile
            ELSE [date |-> day, entries |-> [c \in Codes |-> b[c].lossAt]]

\* The codes sold below their price, by this step, at a loss of pct or more.
Lost(b, pct) ==
    [c \in Codes |-> IF /\ book[c].order # "sale" /\ b[c].order = "sale"
                        /\ Losing(b[c].pos) /\ AtMost(b[c].pos, pct)
                     THEN day ELSE lostOn[c]]

----------------------------------------------------------------------------
(* The exit loop: check_and_exit_all *)

\* A verdict to sell, and what it leaves behind.
Exited(s, verdict) ==
    LET marked == IF IsLossExit(verdict, s.pos) THEN mark_loss_exit(mark_stop_loss(s)) ELSE s
    IN [sell(marked, "sale") EXCEPT !.barred = TRUE]

\* OrderManager.partial_exit.
partial_exit(s) == [sell(s, "part") EXCEPT !.pos.partial = TRUE]

ExitOf(s, facts) ==
    IF ~Managed(s) \/ s.order # "none" THEN s
    ELSE LET t == [s EXCEPT !.pos = update_state(@, Now)]
             v == should_exit(t.pos, Now, facts)
         IN IF Sells(v) THEN Exited(t, v)
            ELSE IF should_partial_exit(t.pos) THEN partial_exit(t) ELSE t

check_and_exit_all(b, facts) ==
    IF InHours(Time) THEN [c \in Codes |-> ExitOf(b[c], facts[c])] ELSE b

ExitLoop ==
    \E facts \in [Codes -> Shown] :
        /\ book' = check_and_exit_all(book, facts)
        /\ lossFile' = Saved(book') /\ lostOn' = Lost(book', 0)
        /\ UNCHANGED <<clock, modes, price, opening, unsold, counters>>

----------------------------------------------------------------------------
(* A tick: SnapshotStore's new price, and OrderManager._on_price_updated *)

\* A stop that bars the code on disk as well.
Stopped(s) == force_exit(mark_loss_exit(mark_stop_loss(s)))

\* update_position_trend.
Trended(s, lv) ==
    IF s.pos.trend = lv THEN s ELSE [s EXCEPT !.pos.prev = s.pos.trend, !.pos.trend = lv]

\* The confirmed stop: the price has stayed below it for three seconds.
SoftStop(s, confirmed, lv) ==
    IF s.pos.sl /\ AtMost(s.pos, TickStop)
    THEN Trended(IF confirmed THEN Stopped(s) ELSE s, lv)
    ELSE Trended([s EXCEPT !.pos.sl = AtMost(s.pos, TickStop)], lv)

\* grace: the partial sale was executed less than breakeven_stop_grace_sec ago.
Ticked(s, p, lv, confirmed, grace) ==
    LET t == [s EXCEPT !.pos.cur = p]
        u == [t EXCEPT !.pos.peak = Higher(@, p)]
        trail == get_trail_price(u.pos, "morning")
        falls == \/ trail > 0 /\ p <= trail
                 \/ s.pos.partial /\ ~grace /\ AtMost(u.pos, Cfg.breakeven)
    IN IF ~Owned(s) THEN s
       ELSE IF s.stopped THEN t
       ELSE IF AtMost(t.pos, TickHard) THEN Stopped(t)
       ELSE IF falls THEN force_exit(u) ELSE SoftStop(u, confirmed, lv)

Tick(c) ==
    \E p \in Prices, lv \in Trends,
       confirmed \in {FALSE, book[c].pos.sl}, grace \in {FALSE, book[c].pos.partial} :
        /\ Time >= 540 /\ Time <= 930
        /\ price' = [price EXCEPT ![c] = p]
        /\ book' = [book EXCEPT ![c] = Ticked(@, p, lv, confirmed, grace)]
        /\ lossFile' = Saved(book') /\ lostOn' = Lost(book', TickHard)
        /\ UNCHANGED <<clock, modes, opening, unsold, counters>>

----------------------------------------------------------------------------
(* A signal: TradingController.handle_signal and SignalFilterChain *)

\* SmartScanner._evaluate and the window of the strategy.
MaySignal(type) ==
    /\ EntryStart <= Time /\ Time <= EntryEnd
    /\ type = "EOD" => overnight /\ EodStart <= Time /\ Time <= EodEnd
    /\ type = "MORNING_GOLDENTIME" => Time \in 540..570

OpeningTimeFilter(type) ==
    CASE Time \in 540..549 -> FALSE
      [] Time \in 550..569 -> type = "MORNING_GOLDENTIME"
      [] Time \in 570..600 -> type = "MORNING_GOLDENTIME" \/ opening = 0 \/ Now - opening >= 1
      [] OTHER -> TRUE

WeakSignalFilter(lv, type) ==
    CASE Time \in 540..569 -> lv # 3
      [] Time >= 570 -> TrendFilter /\ type \notin {"GAP_PULLBACK", "OVERHEAT_PULLBACK"}
                          => lv >= 2
      [] OTHER -> TRUE

PhaseOne == Time \in 540..570

Phase1Full == Cardinality({c \in Codes : Owned(book[c]) /\ book[c].pos.phase = 1}) >= PhaseMax

Positions == {c \in Codes : Owned(book[c])}

\* should_entry, up to the loss mark of an earlier day, which it deletes.
RecentlyEntered(c) == book[c].entryAt # 0 /\ Now - book[c].entryAt < Cooldown

\* Mutation of LostToday: a cooldown of an hour, as the scanner's own.
LostTodayHour(c) == book[c].lossAt # 0 /\ Now - book[c].lossAt < 60

LostToday(c) == book[c].lossAt # 0 /\ Day(book[c].lossAt) = day

should_entry(c) ==
    /\ Cardinality(Positions) < MaxPositions /\ ~Owned(book[c])
    /\ ~RecentlyEntered(c) /\ ~LostToday(c)

Passes(c, type, lv) ==
    /\ OpeningTimeFilter(type) /\ WeakSignalFilter(lv, type)
    /\ ~(PhaseOne /\ Phase1Full) /\ should_entry(c)

\* A mark that should_entry has found to be over is deleted.
Forgotten(c) == [book[c] EXCEPT !.lossAt = 0]

\* OrderManager.handle_signal, once the filters are passed.
MayBuy(s) == ~s.stopped /\ ~s.barred /\ s.order = "none"
             /\ Cardinality(Positions) + Cardinality({c \in Codes : book[c].order # "none"})
                  < MaxPositions

\* The gap is read of what is bought in the first hour only.
Meta(type, gap, lv) ==
    [NoPosition EXCEPT !.qty = MaxQty, !.gap = IF Time < 600 THEN gap ELSE 0, !.trend = lv, !.eod = (type = "EOD"),
                       !.phase = IF PhaseOne THEN 1 ELSE 2]

\* The first signal switches automatic trading on before it is judged.
SwitchesOn == /\ auto \/ ~first
              /\ auto' = TRUE /\ first' = (first \/ ~auto)

Rejected(c, type) ==
    /\ ~auto /\ MaySignal(type) /\ SwitchesOn
    /\ UNCHANGED <<clock, overnight, price, book, files, opening, counters>>

\* The order may still be refused, by OrderManager or by the server.
Accepted(c, type) ==
    /\ entries < MaxEntries /\ entries' = entries + 1
    /\ MaySignal(type) /\ SwitchesOn
    /\ \E gap \in Gaps, lv \in Trends, sent \in BOOLEAN :
          /\ Passes(c, type, lv)
          /\ LET s == [Forgotten(c) EXCEPT !.entryAt = Now]
             IN book' = [book EXCEPT ![c] =
                  IF sent /\ MayBuy(s)
                  THEN [s EXCEPT !.order = "buy", !.meta = Meta(type, gap, lv)]
                  ELSE s]
    /\ lossFile' = Saved(book')
    /\ opening' = IF Time \in 540..600 THEN Now ELSE opening
    /\ UNCHANGED <<clock, overnight, price, lostOn, unsold, interrupts>>

\* The switches of the header.
UserToggles ==
    /\ \/ auto' = ~auto /\ UNCHANGED overnight
       \/ overnight' = ~overnight /\ UNCHANGED auto
    /\ interrupts < MaxInterrupts /\ interrupts' = interrupts + 1
    /\ UNCHANGED <<clock, first, price, book, files, opening, entries>>

----------------------------------------------------------------------------
(* Executions *)

\* _handle_buy_fill.
BuyFills(c) ==
    /\ book[c].order = "buy"
    /\ book' = [book EXCEPT ![c].order = "none", ![c].meta = NoPosition,
                  ![c].pos = [book[c].meta EXCEPT !.avg = price[c], !.cur = price[c],
                                 !.peak = price[c], !.at = Now, !.app = TRUE]]
    /\ UNCHANGED <<clock, modes, price, files, opening, counters>>

BuyLapses(c) ==
    /\ book[c].order = "buy"
    /\ book' = [book EXCEPT ![c].order = "none", ![c].meta = NoPosition]
    /\ UNCHANGED <<clock, modes, price, files, opening, counters>>

\* partial_exit sells three tenths of the shares, check_eod_daytime_targets half.
PartQty(q) == Higher(1, q \div 2)

\* _handle_sell_fill.
Sold(s) ==
    IF s.order = "sale" \/ PartQty(s.pos.qty) = s.pos.qty
    THEN [s EXCEPT !.pos = NoPosition, !.order = "none", !.forced = FALSE]
    ELSE [s EXCEPT !.pos.qty = @ - PartQty(@), !.order = "locked"]

\* After the closing of the day nothing sells again what a sale has left.
Left(c, keeps) == unsold' = IF "closing" \in done /\ keeps THEN [unsold EXCEPT ![c] = day]
                            ELSE unsold

SaleFills(c) ==
    /\ Working(book[c]) /\ InHours(Time)
    /\ book' = [book EXCEPT ![c] = Sold(@)]
    /\ Left(c, Owned(Sold(book[c])))
    /\ UNCHANGED <<clock, modes, price, lossFile, lostOn, opening, counters>>

\* A sale that comes to nothing: not executed and cancelled, or answered with a
\* message that on_order_msg ignores, it leaves the lock; not sent at all, nothing.
SaleLapses(c) ==
    /\ Working(book[c])
    /\ \/ book' = [book EXCEPT ![c].order = "locked"]
       \/ book[c].order = "sale" /\ book' = [book EXCEPT ![c].order = "none", ![c].forced = FALSE]
    /\ Left(c, TRUE)
    /\ interrupts < MaxInterrupts /\ interrupts' = interrupts + 1
    /\ UNCHANGED <<clock, modes, price, lossFile, lostOn, opening, entries>>

\* What a rebuild of the positions knows of shares the program has forgotten.
Holding(p) == [NoPosition EXCEPT !.qty = p.qty, !.avg = p.avg, !.cur = p.cur]

\* A second sale of the same shares has been answered with 800033: on_order_msg
\* forgets the position; a balance sync may find its shares again.
SaleRefused(c) ==
    /\ Working(book[c])
    /\ \E found \in BOOLEAN :
          book' = [book EXCEPT ![c].order = "none", ![c].forced = FALSE,
                     ![c].pos = IF found THEN Holding(@) ELSE NoPosition]
    /\ interrupts < MaxInterrupts /\ interrupts' = interrupts + 1
    /\ UNCHANGED <<clock, modes, price, files, opening, entries>>

\* is_pending: the watchdog ends the lock.
LockEnds(c) ==
    /\ book[c].order = "locked"
    /\ book' = [book EXCEPT ![c].order = "none", ![c].forced = FALSE]
    /\ UNCHANGED <<clock, modes, price, files, opening, counters>>

----------------------------------------------------------------------------
(* The minute timer: MarketScheduler._on_timer_timeout and what it calls *)

check_overnight_gap(s) ==
    IF ~Owned(s) \/ ~s.pos.eod THEN s
    ELSE IF AtLeast(s.pos, GapUp) THEN force_exit(s)
    ELSE IF AtMost(s.pos, GapDown) THEN force_exit(mark_stop_loss(s))
    ELSE [s EXCEPT !.pos.held = TRUE]

\* Mutation of check_overnight_timecut: it sells what has lost.
check_overnight_timecutLosing(s) ==
    IF Owned(s) /\ s.pos.held /\ Losing(s.pos) THEN force_exit(s) ELSE s

check_overnight_timecut(s) ==
    IF Owned(s) /\ s.pos.held /\ ~AtLeast(s.pos, TimeCutMin) THEN force_exit(s) ELSE s

\* check_eod_daytime_targets: half of it is sold with an ordinary sale.
check_eod_daytime_targets(s) ==
    IF ~Owned(s) \/ ~BeforeGap(s.pos) THEN s
    ELSE IF AtMost(s.pos, EodStop) THEN force_exit(mark_stop_loss(s))
    ELSE IF AtLeast(s.pos, Cfg.takeProfit) THEN force_exit(s)
    ELSE IF AtLeast(s.pos, Cfg.partialProfit) /\ ~s.pos.taken
    THEN [sell(s, "part") EXCEPT !.pos.taken = TRUE] ELSE s

\* Mutation of liquidate_all_positions: it passes over a code with a pending order.
liquidate_all_positionsIdle(s) ==
    IF Managed(s) /\ ~s.pos.eod /\ s.order = "none" THEN sell(s, "sale") ELSE s

\* Mutation of liquidate_all_positions: it marks what it keeps overnight.
liquidate_all_positionsMarks(s) ==
    IF Managed(s) /\ s.pos.eod THEN [s EXCEPT !.pos.held = TRUE]
    ELSE IF Managed(s) THEN sell(s, "sale") ELSE s

liquidate_all_positions(s) ==
    IF Managed(s) /\ ~s.pos.eod THEN sell(s, "sale") ELSE s

GapTime == Time \in 540..569

Each(op(_), b, on) == IF on THEN [c \in Codes |-> op(b[c])] ELSE b

Due == {j \in Jobs \ done :
           \/ j = "gap check"  /\ GapTime
           \/ j = "night mode" /\ Time = 880
           \/ j = "closing"    /\ Time = 920}

\* In the order of the signals.  check_overnight_trend_break finds no daily
\* closes on any position and does nothing.
Scheduled(facts) ==
    LET gaps   == Each(check_overnight_gap, book, "gap check" \in Due)
        cut    == Each(check_overnight_timecut, gaps, Time = 570)
        phase1 == IF Time = 630 THEN check_and_exit_all(cut, facts) ELSE cut
        eod    == Each(check_eod_daytime_targets, phase1, Time \in 540..918)
        trail  == IF Time \in 631..914 THEN check_and_exit_all(eod, facts) ELSE eod
        closed == Each(liquidate_all_positions, trail, "closing" \in Due)
    IN IF "closing" \in Due THEN check_and_exit_all(closed, facts) ELSE closed

Midnight == Time = 0

MinuteTimer ==
    /\ ~fired /\ fired' = TRUE
    /\ IF Midnight
       THEN done' = {} /\ UNCHANGED <<book, overnight>>
       ELSE /\ done' = done \cup Due
            /\ overnight' = (overnight \/ "night mode" \in Due)
            /\ \E facts \in [Codes -> Shown] : book' = Scheduled(facts)
    /\ lossFile' = Saved(book')
    /\ UNCHANGED <<day, tick, auto, first, price, lostOn, unsold, opening, counters>>

----------------------------------------------------------------------------
(* The clock, and a restart *)

\* _roll_daily_state_if_needed forgets the marks of the day before.
Rolled(b) == [c \in Codes |-> [b[c] EXCEPT !.stopped = FALSE, !.barred = FALSE]]

\* The minute timer runs in every minute; orders are executed or come to nothing,
\* and their locks are ended, within the minutes between two instants.
TimePasses ==
    /\ fired /\ \A c \in Codes : book[c].order = "none"
    /\ \/ tick < Len(Clock) /\ tick' = tick + 1 /\ UNCHANGED <<day, book>>
       \/ /\ tick = Len(Clock) /\ day < MaxDays
          /\ tick' = 1 /\ day' = day + 1 /\ book' = Rolled(book)
    /\ fired' = FALSE
    /\ UNCHANGED <<done, modes, price, files, opening, counters>>

\* What _rebuild_positions_from_holdings knows of a share it did not buy itself.
Rebuilt(s, lossAt) ==
    [Nothing EXCEPT !.lossAt = lossAt, !.pos = Holding(s.pos)]

\* _load_loss_exit_dict: a file of another day is ignored.
Restart ==
    /\ interrupts < MaxInterrupts /\ interrupts' = interrupts + 1
    /\ \A c \in Codes : book[c].order \in {"none", "locked"}
    /\ book' = [c \in Codes |->
                  Rebuilt(book[c], IF lossFile.date = day THEN lossFile.entries[c] ELSE 0)]
    /\ done' = {} /\ overnight' = FALSE /\ auto' = FALSE /\ first' = FALSE /\ opening' = 0
    /\ UNCHANGED <<day, tick, fired, price, files, entries>>

Next ==
    \/ ExitLoop \/ UserToggles \/ MinuteTimer \/ TimePasses \/ Restart
    \/ \E c \in Codes : \/ Tick(c) \/ BuyFills(c) \/ BuyLapses(c)
                        \/ SaleFills(c) \/ SaleLapses(c) \/ SaleRefused(c) \/ LockEnds(c)
    \/ \E c \in Codes, type \in Types : Rejected(c, type) \/ Accepted(c, type)

Spec == Init /\ [][Next]_vars

----------------------------------------------------------------------------
(* Properties *)

\* However the candles look, whenever it was bought and however it opened, a
\* holding of the program that has lost six percent is sold by the next run of
\* the exit loop: no rule before the hard stop, no protection and no relaxed
\* limit holds it.  (should_exit, check_and_exit_all)
DeepLoss == -600

DeepLossSold ==
    \A c \in Codes :
        Managed(book[c]) /\ book[c].order = "none" /\ InHours(Time)
          /\ AtMost(book[c].pos, DeepLoss) =>
            \A facts \in Shown : ExitOf(book[c], facts).order = "sale"

\* A code that the exit loop has sold at a loss, or a tick at the hard stop, is
\* not bought again on that day, over a restart of the program as well.
\* (_loss_exit_dict, _save_loss_exit_dict, _load_loss_exit_dict, should_entry)
NoReentryAfterStop ==
    [][\A c \in Codes : book[c].order # "buy" /\ book'[c].order = "buy"
                          => lostOn[c] # day]_vars

\* The types, and: the opening gap of an overnight holding is judged on a later
\* day than the one it was bought on, not by the window it was bought in.
\* (_on_timer_timeout)
GapJudgedLater ==
    /\ TypeOK
    /\ \A c \in Codes : book[c].pos.held => Day(book[c].pos.at) < day

\* At 09:30 every overnight holding that no partial sale has locked is decided:
\* sold, or kept with the profit that eod_timecut_min_pct asks for.  One whose
\* sale at the gap came to nothing is judged by the stop of the day instead.
\* (check_overnight_gap, check_overnight_timecut, check_eod_daytime_targets)
OvernightDecided ==
    [][Time = 570 /\ ~fired /\ fired' => \A c \in Codes :
          Managed(book[c]) /\ book[c].pos.eod /\ Day(book[c].pos.at) < day
            /\ book[c].order = "none" =>
              \/ book'[c].order = "sale"
              \/ book'[c].pos.held /\ AtLeast(book'[c].pos, TimeCutMin)
              \/ ~book'[c].pos.held /\ ~AtMost(book'[c].pos, EodStop)]_vars

\* The closing comes once: a day trade entered before 15:20 is still managed on
\* the next day only when a sale of it has, after the closing of its own day or of
\* a later one, come to nothing or left a part; a sale under way or a lock of an
\* earlier one does not spare it.
\* (market_closing, _closed_today, liquidate_all_positions)
DayTradesClosed ==
    \A c \in Codes : Managed(book[c]) /\ ~book[c].pos.eod /\ Day(book[c].pos.at) < day
                       => \/ Minute(book[c].pos.at) >= 920
                          \/ unsold[c] >= Day(book[c].pos.at)
=============================================================================
