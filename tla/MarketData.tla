----------------------------- MODULE MarketData -----------------------------
(***************************************************************************)
(* The bars and histories of one stock (Candles) with the indicators the   *)
(* evaluation loop reads from them (Indicators): SmartScanner._evaluate    *)
(* notes the trend of the bars again and again, whatever arrives meanwhile.*)
(***************************************************************************)
EXTENDS Candles, Indicators, TLC

CONSTANT
    DailyCloses         \* lists of daily closes, oldest first

ASSUME DailyAssumption == DailyCloses \subseteq Seq(Nat)

Evaluate == update_trend_level(get_trend_status(st.bars))

Next ==
    \/ Arrivals \/ Evaluate
    \/ save_1min_cache \/ Minute \/ Overnight

Spec == Init /\ [][Next]_vars

-----------------------------------------------------------------------------
(***************************************************************************)
(* Properties.                                                             *)
(***************************************************************************)
Moments == Days \X (0..Minutes)

TypeOK ==
    /\ day \in Days /\ minute \in 0..Minutes /\ amount \in Nat /\ left \in 0..Budget
    /\ lastMin \in {NoBar} \cup 0..Minutes
    /\ cur \in [bar : Bars, cum : Nat] /\ lastCum \in Nat
    /\ st \in [ bars : Kept(Bars, Window), cum : Nat, strength : Nat, rs : Int,
                tickVols : Kept(Nat \ {0}, Deque), chejan : Kept(Nat \ {0}, Deque),
                bid1 : Kept(Nat \ {0}, Deque), ask1 : Kept(Nat \ {0}, Deque),
                bids : Kept(Nat, Deque), ask : Nat, bid : Nat,
                buyers : {NoReading, <<-1>>, <<0>>, <<1>>}, flipAt : {Never} \cup Moments,
                trend : Kept(0..3, Deque) ]
    /\ disk \in [Days -> Kept(Bars, Window)] /\ fileDay \in Days
    /\ ticks \in Seq([at : Moments, price : Nat \ {0}, cum : Nat])
    /\ loaded \in Kept(Bars, Window)

Earlier(a, b) == a[1] < b[1] \/ (a[1] = b[1] /\ a[2] < b[2])

\* The second day goes on with the bars of the first when its first tick does not
\* come earlier in the day than the last one of the day before.
GoesOn ==
    \E i \in 1..(Len(ticks) - 1) : /\ ticks[i].at[1] < ticks[i + 1].at[1]
                                   /\ ticks[i].at[2] <= ticks[i + 1].at[2]

\* The ticks as the processor tells their minutes apart: with one day or with two.
SeenAt(at) == <<IF GoesOn THEN 1 ELSE at[1], at[2]>>
seen ==
    [i \in DOMAIN ticks |->
        [at |-> SeenAt(ticks[i].at), price |-> ticks[i].price, cum |-> ticks[i].cum]]

\* The places of the ticks of a minute, of those before it, and of a day's.
TicksOf(at) == {i \in DOMAIN seen : seen[i].at = at}
TicksBefore(at) == {i \in DOMAIN seen : Earlier(seen[i].at, at)}
TicksOn(d) == {i \in DOMAIN seen : seen[i].at[1] = d}

\* The minutes of a day from its first tick to its last; nothing is between days.
MinutesOf(d) ==
    LET own == TicksOn(d)
        first == seen[Min(own)].at[2]
        last == seen[Max(own)].at[2]
    IN  IF own = {} THEN <<>> ELSE [n \in 1..(last - first + 1) |-> <<d, first + n - 1>>]
CoveredMinutes == MinutesOf(1) \o MinutesOf(2)

\* The volume a minute starts from, and the bar it should have.
StartOf(at) ==
    LET before == TicksBefore(at)
    IN  seen[IF before = {} THEN Min(TicksOf(at)) ELSE Max(before)].cum
BarOf(at) ==
    LET own == TicksOf(at)
        prices == {seen[i].price : i \in own}
    IN  IF own = {} THEN Flat(seen[Max(TicksBefore(at))].price, 0)
        ELSE [ open |-> seen[Min(own)].price, close |-> seen[Max(own)].price,
               high |-> Max(prices), low |-> Min(prices),
               volume |-> Higher(0, seen[Max(own)].cum - StartOf(at)) ]

\* The types, and: since bars were last loaded, restored or dropped, the bars are,
\* minute by minute, what the ticks were, quiet minutes included, and so is the bar
\* in progress (snapshot.py 32-109).  A new day is a new list of minutes only when
\* its first tick comes earlier in the day than yesterday's last one: otherwise the
\* hours between the two are quiet minutes of one day, and the same minute of both
\* days is one bar.  The window keeps the last bars.
BarsMatchTicks ==
    LET minutes == CoveredMinutes
        bars == [n \in DOMAIN minutes |-> BarOf(minutes[n])]
    IN  /\ TypeOK
        /\ ticks = <<>> => st.bars = loaded
        /\ ticks # <<>> => /\ st.bars = LastOf(loaded \o Butlast(bars), Window)
                           /\ cur.bar = Last(bars)

\* The bars when the last one had closed higher.
Raised(bars, price) ==
    [bars EXCEPT ![Len(bars)].close = price, ![Len(bars)].high = Higher(@, price)]

\* The levels that stay when one more is noted: a full history forgets its oldest.
Staying(h) == IF Len(h) < Deque THEN h ELSE Tail(h)

\* A level lower than the last one joins those that stay.
Dampened(h, level) ==
    LET before == Staying(h)
        after == LastOf(Append(h, level), Deque)
        Watch(levels, minutes) ==
            calc_opening_watch_score(levels, 500, st.chejan, 500, minutes)
    IN  Len(before) >= 2 /\ level < Last(h) =>
            /\ calc_trend_momentum(after) <= calc_trend_momentum(before)
            /\ \A minutes \in {3, 10, 20} : Watch(after, minutes) <= Watch(before, minutes)

\* A higher price never makes a stock look weaker: the RSI does not fall, a trend
\* does not end, neither minute bars nor daily closes lose their direction.  A
\* level of the trend below the last one never raises the momentum or the watch
\* score above what the levels it joins give: in a full history, which forgets its
\* oldest level with each new one, only what it forgets can raise them
\* (indicator_service.py 20-280, 612-808).
RiseHelps ==
    LET bars == st.bars
        close == Last(bars).close
    IN  /\ \A level \in 0..2 : Dampened(st.trend, level)
        /\ bars # <<>> =>
           \A price \in {t.price : t \in {u \in Trades : u.price > close}} :
              LET raised == Raised(bars, price)
              IN  /\ Len(bars) > RsiPeriod =>
                        calc_rsi(ClosesOf(raised)) >= calc_rsi(ClosesOf(bars))
                  /\ get_trend_status(bars) > 0 => get_trend_status(raised) > 0
                  /\ get_mtf_trend(bars) => get_mtf_trend(raised)
                  /\ \A daily \in DailyCloses :
                        /\ check_daily_alignment(daily, close) =>
                               check_daily_alignment(daily, price)
                        /\ NearHigh(daily, close) => NearHigh(daily, price)
                        /\ AboveMean(daily, close) => AboveMean(daily, price)

\* Sellers who step back and a weak index do not make a stock a candidate: while
\* no bid rose, no minute and no tick traded more than the one before, the
\* strength did not grow and no investor turned, the leading score is zero.  A
\* strong index needs more of a step back than half of what it was.  So say the
\* comments in the code (indicator_service.py 574-580); the list of sufficient
\* conditions above them still has the step back and the strong index alone (514, 516).
NotRising(h) == \A i \in 2..Len(h) : h[i] <= h[i - 1]
BuyersNeeded ==
    LET score == get_leading_score(st, st.bars, inv_flip_score)
    IN  /\ NotRising(st.bid1) /\ NotRising(st.tickVols) /\ NotRising(st.chejan)
        /\ NotRising([i \in DOMAIN st.bars |-> st.bars[i].volume])
        /\ st.flipAt = Never
        /\ st.rs < 30 \/ calc_ask1_wall_collapse_score(st.ask1) < 200
        => score \in {NoScore, <<0>>}
=============================================================================
