------------------------------ MODULE Candles ------------------------------
(***************************************************************************)
(* What the scanner keeps of one stock while it trades: one-minute bars    *)
(* made of the ticks (TickToCandleProcessor, scanner/snapshot.py), and the *)
(* histories the scores read (SnapshotStore, scanner/snapshot_store.py;    *)
(* the handler of real-time data, scanner/smart_scanner.py).  The process  *)
(* may run overnight, be started again, and load bars from the server or   *)
(* from its file.                                                          *)
(*                                                                         *)
(* Ticks, requests and clean-ups come one at a time, each under the        *)
(* store's lock.  Prices, amounts and volumes are small numbers; amounts   *)
(* are in won.  The order book is the best bid's price, the best ask's     *)
(* quantity and the two sums.  Changes are in tenths of a percent.  The    *)
(* DataFrame the display reads, names, day's high and low and the speed of *)
(* trading per second are left out.                                        *)
(***************************************************************************)
EXTENDS Integers, Sequences, FiniteSets

CONSTANTS
    Trades,             \* what a tick may tell: [price, strength, missing], the
                        \* buying strength (FID 20) in percent, and whether the
                        \* amount is missing
    PrevClose,          \* yesterday's close
    IndexChange,        \* change of the stock's market index
    Books,              \* order books [bid1, ask1, bids, ask, bid]
    Readings,           \* what investors do: 1 both kinds buy, -1 both sell, else 0
    RowVolumes,         \* volumes a ranking may give the stock
    ServerBars,         \* lists of bars opt10080 may answer with
    Window,             \* bars kept: 120
    Deque,              \* length of the histories: 10 or 20
    SaveLeast,          \* bars from which the file is written: 10
    FlipGap,            \* minutes between two flips of the investors: 60
    FlipFade,           \* minutes for which a flip counts: 30
    Minutes,            \* bound of the model: minutes of a day
    Budget              \* bound of the model: events that arrive, weighed by "Arrives"

\* The bars there can be, and what is kept of a list.
Bars ==
    {b \in [open : Nat, high : Nat, low : Nat, close : Nat, volume : Nat] :
        {b.open, b.close} \subseteq b.low..b.high}
Kept(S, n) == {s \in Seq(S) : Len(s) <= n}

ASSUME ConstantsAssumption ==
    /\ Trades \subseteq [price : Nat \ {0}, strength : Nat, missing : BOOLEAN]
    /\ PrevClose \in Nat \ {0} /\ IndexChange \in Int
    /\ Books \subseteq [bid1 : Nat, ask1 : Nat, bids : Nat, ask : Nat, bid : Nat]
    /\ Readings \subseteq {-1, 0, 1} /\ RowVolumes \subseteq Nat
    /\ {Window, Deque, SaveLeast, FlipGap, FlipFade, Minutes} \subseteq Nat \ {0}
    /\ Budget \in Nat
    /\ ServerBars \subseteq Kept(Bars, Window) \ {<<>>}

VARIABLES
    day, minute,        \* the clock
    amount,             \* traded amount of the day, FID 13
    lastMin,            \* _last_min: hour and minute of the bar in progress, or NoBar
    cur,                \* _cur_candle
    lastCum,            \* _last_cum_vol, at the end of the bar before
    st,                 \* InternalStockState
    disk,               \* the files 1min_<day>.json
    fileDay,            \* the day of the file this process uses
    ticks,              \* history: the ticks since the processor was reset
    loaded,             \* history: the bars there were then
    left                \* what is left of Budget

vars == <<day, minute, amount, lastMin, cur, lastCum, st, disk, fileDay, ticks,
          loaded, left>>
clock == <<day, minute>>
processor == <<lastMin, cur, lastCum>>
files == <<disk, fileDay>>
history == <<ticks, loaded>>

Days == {1, 2}
Now == <<day, minute>>
NoBar == -1
Never == <<>>

Candle(open, high, low, close, volume) ==
    [open |-> open, high |-> high, low |-> low, close |-> close, volume |-> volume]
Flat(price, volume) == Candle(price, price, price, price, volume)
NoCandle == [bar |-> Flat(0, 0), cum |-> 0]

NoReading == <<>>

Fresh ==
    [ bars |-> <<>>,            \* mins, min_opens, min_highs, min_lows, min_vols
      cum |-> 0,                \* cumulative_volume
      tickVols |-> <<>>,        \* tick_vol_history
      strength |-> 100,         \* chejan_str
      chejan |-> <<>>,          \* chejan_history
      rs |-> 0,                 \* rs_score
      bid1 |-> <<>>,            \* bid1_history
      ask1 |-> <<>>,            \* ask1_qty_history
      bids |-> <<>>,            \* bid_qty_sums_history
      ask |-> 0, bid |-> 0,     \* total_ask_qty, total_bid_qty
      buyers |-> NoReading,     \* inv_score of the last reading
      flipAt |-> Never,         \* inv_flip_at
      trend |-> <<>> ]          \* trend_lv_history

Init ==
    /\ day = 1 /\ minute = 0 /\ amount = 0
    /\ lastMin = NoBar /\ cur = NoCandle /\ lastCum = 0
    /\ st = Fresh
    /\ disk = [d \in Days |-> <<>>] /\ fileDay = 1
    /\ ticks = <<>> /\ loaded = <<>>
    /\ left = Budget

\* An event of this weight may still arrive.
Arrives(weight) == left >= weight /\ left' = left - weight

-----------------------------------------------------------------------------
(***************************************************************************)
(* Ticks.                                                                  *)
(***************************************************************************)
Higher(x, y) == IF x > y THEN x ELSE y
Lower(x, y) == IF x < y THEN x ELSE y

LastOf(s, n) == SubSeq(s, IF Len(s) > n THEN Len(s) - n + 1 ELSE 1, Len(s))

\* A deque with a limit; zeros and blanks are not noted.
Noted(s, x) == IF x > 0 THEN LastOf(Append(s, x), Deque) ELSE s

\* Mutation of GapMinutes: the minute before the tick is left out.
GapMinutesShort == Higher(0, minute - lastMin - 2)

\* The quiet minutes between the bar in progress and now.  The processor knows the
\* hour and the minute alone: a tick later in the day than yesterday's last one has
\* the minutes between the two filled in, an earlier one has none.
GapMinutes == Higher(0, minute - lastMin - 1)

\* The bar in progress ends when a tick of another minute comes; the same minute of
\* the next day goes on with it.
Completed ==
    IF lastMin \in {NoBar, minute} THEN <<>>
    ELSE <<cur.bar>> \o [i \in 1..GapMinutes |-> Flat(cur.bar.close, 0)]

\* The cumulative volume at the start of the tick's bar.
BaseVolume(cum) ==
    IF lastMin = NoBar THEN cum
    ELSE IF lastMin = minute THEN lastCum ELSE cur.cum

process_tick(price, cum) ==
    LET base == BaseVolume(cum)
        sold == Higher(0, cum - base)
    IN  /\ lastMin' = minute
        /\ lastCum' = base
        /\ cur' = [bar |-> IF lastMin = minute
                           THEN Candle(cur.bar.open, Higher(cur.bar.high, price),
                                       Lower(cur.bar.low, price), price, sold)
                           ELSE Flat(price, sold),
                   cum |-> cum]

_append_limit(bars, new) == LastOf(bars \o new, Window)

Change(price) == (1000 * (price - PrevClose)) \div PrevClose

\* The strength noted with a tick is that of the tick before.  An unchanged
\* price keeps the relative strength as it was.
update_price(price, cum, strength) ==
    st' = [st EXCEPT
              !.bars = _append_limit(@, Completed),
              !.tickVols = IF st.cum > 0 THEN Noted(@, cum - st.cum) ELSE @,
              !.cum = IF cum > 0 THEN cum ELSE @,
              !.chejan = Noted(@, st.strength),
              !.strength = strength,
              !.rs = IF Change(price) # 0 THEN Change(price) - IndexChange ELSE @]

\* One share changes hands.  The cumulative volume is the amount divided by the
\* price: it falls when the price rises.  The amount may be missing.
Tick ==
    /\ Arrives(2)
    /\ \E t \in Trades :
          LET cum == IF t.missing THEN 0 ELSE (amount + t.price) \div t.price
          IN  /\ amount' = amount + t.price
              /\ process_tick(t.price, cum)
              /\ update_price(t.price, cum, t.strength)
              /\ ticks' = Append(ticks, [at |-> Now, price |-> t.price, cum |-> cum])
    /\ UNCHANGED <<clock, files, loaded>>

-----------------------------------------------------------------------------
(***************************************************************************)
(* The order book, the investors, the trend and the ranking.               *)
(***************************************************************************)
OtherUnchanged == UNCHANGED <<clock, amount, processor, files, history>>

update_hoga ==
    /\ Arrives(1)
    /\ \E book \in Books :
          st' = [st EXCEPT !.ask = book.ask, !.bid = book.bid,
                           !.ask1 = Noted(@, book.ask1), !.bid1 = Noted(@, book.bid1),
                           !.bids = LastOf(Append(@, book.bids), Deque)]
    /\ OtherUnchanged

\* Minutes since a moment of the same day; a day before is long ago.
Since(at) == IF at[1] = day THEN minute - at[2] ELSE FlipGap + FlipFade + 1

\* Foreigners and institutions: 1 when both buy, -1 when both sell.  A flip is
\* noted when they turn to buying, once an hour.
update_investor ==
    /\ Arrives(1)
    /\ \E score \in Readings :
          LET flips == /\ st.buyers # NoReading /\ st.buyers # <<1>> /\ score = 1
                       /\ st.flipAt = Never \/ Since(st.flipAt) > FlipGap
          IN  st' = [st EXCEPT !.buyers = <<score>>, !.flipAt = IF flips THEN Now ELSE @]
    /\ OtherUnchanged

\* A flip fades from 1000 to nothing in FlipFade minutes.
inv_flip_score ==
    IF st.flipAt = Never \/ Since(st.flipAt) > FlipFade THEN 0
    ELSE 1000 - (1000 * Since(st.flipAt)) \div FlipFade

\* The loop notes the trend of the bars.
update_trend_level(level) ==
    /\ Arrives(1)
    /\ st' = [st EXCEPT !.trend = LastOf(Append(@, level), Deque)]
    /\ OtherUnchanged

\* The row of a ranking; it counts the volume by itself.  A new stock starts
\* without bars.
bulk_update ==
    /\ Arrives(2)
    /\ \E volume \in RowVolumes :
          st' = [st EXCEPT !.cum = IF volume > 0 THEN volume ELSE @]
    /\ OtherUnchanged

-----------------------------------------------------------------------------
(***************************************************************************)
(* Loads, files, clean-ups, restarts and time.                             *)
(***************************************************************************)
\* The processor starts anew with the next tick, whose volume it counts from.
ResetProcessor(bars) ==
    /\ lastMin' = NoBar
    /\ ticks' = <<>> /\ loaded' = bars

\* The answer of opt10080 replaces the bars; it holds the minute in progress.
set_min_candles_ohlc ==
    /\ Arrives(2)
    /\ \E bars \in ServerBars :
          /\ st' = [st EXCEPT !.bars = bars]
          /\ ResetProcessor(bars)
          /\ lastCum' = bars[Len(bars)].volume
    /\ UNCHANGED cur
    /\ UNCHANGED <<clock, amount, files>>

save_1min_cache ==
    /\ Len(st.bars) >= SaveLeast
    /\ disk' = [disk EXCEPT ![fileDay] = st.bars]
    /\ UNCHANGED <<clock, amount, processor, st, fileDay, history, left>>

\* The stock leaves the universe.
cleanup_stale_data ==
    /\ Arrives(2)
    /\ st' = Fresh
    /\ ResetProcessor(<<>>) /\ cur' = NoCandle /\ lastCum' = 0
    /\ UNCHANGED <<clock, amount, files>>

\* The process starts and reads the file of the day.
Restart ==
    /\ Arrives(2)
    /\ fileDay' = day
    /\ st' = [Fresh EXCEPT !.bars = disk[day]]
    /\ ResetProcessor(disk[day]) /\ cur' = NoCandle /\ lastCum' = 0
    /\ UNCHANGED <<clock, amount, disk>>

Minute ==
    /\ minute < Minutes /\ minute' = minute + 1
    /\ UNCHANGED <<day, amount, processor, st, files, history, left>>

Overnight ==
    /\ day = 1 /\ day' = 2
    /\ minute' = 0 /\ amount' = 0
    /\ UNCHANGED <<processor, st, files, history, left>>

Arrivals ==
    \/ Tick \/ update_hoga \/ update_investor \/ bulk_update
    \/ set_min_candles_ohlc \/ cleanup_stale_data \/ Restart
=============================================================================
