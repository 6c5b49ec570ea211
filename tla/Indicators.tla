----------------------------- MODULE Indicators -----------------------------
(***************************************************************************)
(* The indicators and scores of scanner/indicator_service.py.              *)
(*                                                                         *)
(* Averages are exact: they are fractions.  Scores are in units of 1/1000, *)
(* rounded down.  The periods are parameters.                              *)
(***************************************************************************)
EXTENDS Integers, SequencesExt

CONSTANTS
    RsiPeriod,          \* 14
    EmaPeriod,          \* 20, of the trend
    AtrPeriod,          \* 14
    SlopePeriod,        \* 10, of the slopes
    Group,              \* bars of a five-minute bar: 5
    DailyPeriods,       \* lengths of the daily averages: <<5, 10, 20>>
    HighDays,           \* days of the recent high: 25
    Few,                \* span of the short averages: 5
    Recent, Older       \* spans of the buying strength: 3 and 5

ASSUME PeriodsAssumption ==
    /\ {RsiPeriod, AtrPeriod, SlopePeriod, Group, HighDays, Few, Recent, Older}
          \subseteq Nat \ {0}
    /\ EmaPeriod \in Nat \ {0, 1}
    /\ DailyPeriods \in [1..3 -> Nat \ {0}]
    /\ DailyPeriods[1] <= DailyPeriods[2] /\ DailyPeriods[2] <= DailyPeriods[3]

AtMost(x, y) == IF x < y THEN x ELSE y
AtLeast(x, y) == IF x > y THEN x ELSE y
PartialSums(s) ==
    LET sum[n \in 0..Len(s)] == IF n = 0 THEN 0 ELSE sum[n - 1] + s[n] IN sum
Total(s) == PartialSums(s)[Len(s)]
Ending(s, n) == SubSeq(s, Len(s) - n + 1, Len(s))
Butlast(s) == SubSeq(s, 1, Len(s) - 1)
Greatest(s) == Max({0} \cup Range(s))
Abs(x) == IF x < 0 THEN -x ELSE x

\* pandas' ewm(adjust=False) with weight num/den: the averages as fractions, whose
\* denominators are the powers of den.
Averages(x, num, den) ==
    LET f[i \in DOMAIN x] ==
            IF i = 1 THEN [num |-> x[1], den |-> 1]
            ELSE LET before == f[i - 1]
                 IN  [ num |-> (den - num) * before.num + num * x[i] * before.den,
                       den |-> den * before.den ]
    IN  f
Smoothed(x, num, den) == Averages(x, num, den)[Len(x)]

\* Mutation of calc_rsi: the share of the losses.
calc_rsiOfLosses(closes) ==
    LET moves == [i \in 1..(Len(closes) - 1) |-> closes[i + 1] - closes[i]]
        gain == Smoothed([i \in DOMAIN moves |-> AtLeast(moves[i], 0)], 1, RsiPeriod).num
        loss == Smoothed([i \in DOMAIN moves |-> AtLeast(-moves[i], 0)], 1, RsiPeriod).num
    IN  IF loss = 0 THEN 0 ELSE (1000 * loss) \div (gain + loss)

\* Wilder's RSI of Len(closes) > RsiPeriod closes: 100% when nothing fell.
calc_rsi(closes) ==
    LET moves == [i \in 1..(Len(closes) - 1) |-> closes[i + 1] - closes[i]]
        gain == Smoothed([i \in DOMAIN moves |-> AtLeast(moves[i], 0)], 1, RsiPeriod).num
        loss == Smoothed([i \in DOMAIN moves |-> AtLeast(-moves[i], 0)], 1, RsiPeriod).num
    IN  IF loss = 0 THEN 1000 ELSE (1000 * gain) \div (gain + loss)

\* The exponential average.
calc_ema(closes, period) == Smoothed(closes, 2, period + 1)

calc_atr(bars) ==
    LET ranges == [i \in 1..(Len(bars) - 1) |->
                      LET b == bars[i + 1]
                          c == bars[i].close
                      IN  AtLeast(b.high - b.low,
                                  AtLeast(Abs(b.high - c), Abs(b.low - c)))]
    IN  Smoothed(ranges, 1, AtrPeriod)

ClosesOf(bars) == [i \in DOMAIN bars |-> bars[i].close]

\* How much the average of the closes has grown with the last one, over its
\* denominator; 0 when there are too few.
Slope(closes, period) ==
    LET now == calc_ema(closes, period)
        prev == calc_ema(Butlast(closes), period)
    IN  IF Len(closes) <= period THEN 0 ELSE now.num - (period + 1) * prev.num

\* The distance of the last close from its average, in average ranges.
Distance(bars) ==
    LET closes == ClosesOf(bars)
        ema == calc_ema(closes, EmaPeriod)
        atr == calc_atr(bars)
    IN  [num |-> (Last(closes) * ema.den - ema.num) * atr.den, den |-> atr.num * ema.den]

\* 0 to 3; a price too far above its average counts less.
get_trend_status(bars) ==
    LET closes == ClosesOf(bars)
        ema == calc_ema(closes, EmaPeriod)
    IN  IF \/ Len(bars) < EmaPeriod + 2
           \/ Len(bars) <= AtrPeriod
           \/ calc_atr(bars).num = 0
           \/ Last(closes) * ema.den <= ema.num
           \/ Slope(closes, EmaPeriod) <= 0
        THEN 0
        ELSE LET d == Distance(bars)
                 Tenths(n) == 10 * d.num >= n * d.den
             IN  IF 10 * d.num > 25 * d.den THEN 2 ELSE IF Tenths(15) THEN 3
                 ELSE IF Tenths(10) THEN 2 ELSE IF Tenths(3) THEN 1 ELSE 0

\* Closes of the five-minute bars, grouped from the oldest bar on.
build_5min_closes(closes) ==
    [i \in 1..(Len(closes) \div Group) |-> closes[i * Group]]

\* Both slopes rise; with fewer than three five-minute bars the first decides.
\* A short list of five-minute bars is averaged over its own length, the list
\* before over one less.
FiveSlope(five) ==
    LET n == Len(five)
        now == calc_ema(five, AtMost(SlopePeriod, n))
        prev == calc_ema(Butlast(five), AtMost(SlopePeriod, n - 1))
    IN  now.num * prev.den - prev.num * now.den

get_mtf_trend(bars) ==
    LET closes == ClosesOf(bars)
        five == build_5min_closes(closes)
    IN  /\ Len(bars) >= SlopePeriod
        /\ Slope(closes, SlopePeriod) > 0
        /\ Len(five) >= 3 => FiveSlope(five) > 0

\* Daily closes, oldest first, with today's price as the last.
Mean(s, n) == [num |-> Total(Ending(s, n)), den |-> n]
Above(a, b) == a.num * b.den > b.num * a.den

check_daily_alignment(daily, price) ==
    LET closes == Append(daily, price)
    IN  /\ Len(daily) >= DailyPeriods[3]
        /\ \A i \in {1, 2} :
              Above(Mean(closes, DailyPeriods[i]), Mean(closes, DailyPeriods[i + 1]))

\* Within 3% of the recent high, and not below the long average; both hold when
\* there are too few days, except the high.
NearHigh(daily, price) ==
    /\ Len(daily) >= DailyPeriods[3]
    /\ 100 * price >= 97 * Greatest(Ending(daily, AtMost(HighDays, Len(daily))))
AboveMean(daily, price) ==
    Len(daily) >= DailyPeriods[3] =>
        price * DailyPeriods[3] >= Mean(daily, DailyPeriods[3]).num

-----------------------------------------------------------------------------
(***************************************************************************)
(* The history of the trend.                                               *)
(***************************************************************************)
Drops(h) == Cardinality({i \in 2..Len(h) : h[i] < h[i - 1]})

\* Rises in a row at the end.
Climb(h) ==
    Cardinality({i \in 2..Len(h) : \A j \in i..Len(h) : h[j] > h[j - 1]})

\* In hundredths, by the rises in a row and the highest level.
MomentumBase(climb, peak) ==
    IF      climb >= 4 /\ peak = 3  THEN 100
    ELSE IF climb >= 3 /\ peak = 3  THEN 75
    ELSE IF climb >= 3 /\ peak >= 2 THEN 55
    ELSE IF climb >= 2 /\ peak >= 2 THEN 40
    ELSE IF climb >= 1 THEN (IF peak = 3 THEN 25 ELSE IF peak = 2 THEN 15 ELSE 8)
    ELSE IF peak = 3 THEN 30 ELSE IF peak = 2 THEN 12 ELSE 2

\* A fifth less for each drop, in tenths.
Stability(h) == AtLeast(0, 10 - 2 * Drops(h))

calc_trend_momentum(h) ==
    IF Len(h) < 2 THEN 0 ELSE MomentumBase(Climb(h), Greatest(h)) * Stability(h)

\* Trend 40%, leading score 25%, mean buying strength 20%, speed 15% (in
\* thousandths); less than all of it in the first fifteen minutes.
Discount(minutes) ==
    IF minutes < 5 THEN 10 ELSE IF minutes < 15 THEN 5 + minutes ELSE 20
calc_opening_watch_score(h, leading, chejan, speed, minutes) ==
    LET mean == IF chejan = <<>> THEN 100 ELSE Total(chejan) \div Len(chejan)
        strong == AtMost(AtLeast(10 * (mean - 100), 0), 1000)
        raw == 40 * calc_trend_momentum(h) + 25 * leading + 20 * strong
               + 15 * AtMost(speed, 1000)
    IN  AtMost((raw * Discount(minutes)) \div 2000, 1000)

-----------------------------------------------------------------------------
(***************************************************************************)
(* The leading score.                                                      *)
(***************************************************************************)
\* Sums of the last n values, and of the m before them.
Newest(s, n) == Total(Ending(s, n))
Before(s, n, m) == Total(SubSeq(s, Len(s) - n - m + 1, Len(s) - n))

calc_rs_leading_score(rs) ==
    IF rs >= 80 THEN 1000 ELSE IF rs >= 50 THEN 850 ELSE IF rs >= 30 THEN 650
    ELSE IF rs >= 15 THEN 450 ELSE IF rs >= 5 THEN 250 ELSE 0

\* The strength was below 115% and is above 110%, and by 15% above what it was.
calc_chejan_reversal_score(chejan) ==
    LET new == Newest(chejan, Recent) * Older
        old == Before(chejan, Recent, Older) * Recent
        unit == Recent * Older
    IN  IF /\ old > 0 /\ old < 115 * unit /\ new > 110 * unit /\ 100 * new > 115 * old
        THEN AtMost((2500 * (new - old)) \div old, 1000)
        ELSE 0

calc_chejan_acceleration(chejan) ==
    LET new == Newest(chejan, Recent)
        old == Before(chejan, Recent, Recent)
    IN  IF Len(chejan) > 2 * Recent /\ old > 0 /\ 100 * new > 105 * old
        THEN AtMost((2000 * (new - old)) \div old, 1000)
        ELSE 0

\* What bidders ask for grew by more than 10%.
calc_hoga_velocity(bids) ==
    LET new == Newest(bids, Few)
        old == Before(bids, Few, Few)
    IN  IF Len(bids) >= 2 * Few /\ old > 0 /\ 10 * new > 11 * old
        THEN AtMost((2000 * (new - old)) \div old, 1000)
        ELSE 0

\* The last two minutes traded at least twice as much as the three before.
calc_vol_burst_score(vols) ==
    LET new == 3 * Newest(vols, 2)
        old == 2 * Before(vols, 2, 3)
    IN  IF Len(vols) >= 5 /\ old > 0 /\ new >= 2 * old
        THEN AtMost((500 * new) \div old - 500, 1000)
        ELSE 0

\* The volume doubled and the price moved by less than 1.5%.
calc_accumulation_score(vols, closes) ==
    LET new == Newest(vols, Few)
        old == Before(vols, Few, Few)
        base == closes[Len(closes) - Few]
        move == Abs(Last(closes) - base) * 1000
    IN  IF Len(vols) > 2 * Few /\ Len(closes) > Few /\ old > 0 /\ new >= 2 * old
           /\ move < 15 * base
        THEN (AtMost((1000 * (new - 2 * old)) \div (3 * old), 1000)
              + 1000 - (1000 * move) \div (15 * base)) \div 2
        ELSE 0

\* The best bid rose by 0.05% or more over Few quotes, mostly step by step.
calc_bid1_slope_score(bid1) ==
    LET h == Ending(bid1, Few)
        rise == h[Few] - h[1]
        steps == Cardinality({i \in 2..Few : h[i] >= h[i - 1]})
    IN  IF Len(bid1) < Few \/ 2000 * rise < h[1] \/ 2 * steps < Few - 1 THEN 0
        ELSE (AtMost((400000 * rise) \div h[1] - 200, 1000) * steps) \div (Few - 1)

calc_tick_vol_accel_score(tickVols) ==
    LET new == Newest(tickVols, Few)
        old == Before(tickVols, Few, Few)
    IN  IF Len(tickVols) >= 2 * Few /\ new >= 2 * old
        THEN AtMost((1000 * (new - 2 * old)) \div (3 * old), 1000)
        ELSE 0

\* The quantity at the best ask fell to half of what it was, or less.
calc_ask1_wall_collapse_score(ask1) ==
    LET h == Ending(ask1, Few)
        peak == Greatest(Butlast(h))
    IN  IF Len(ask1) < Few \/ 2 * h[Few] > peak THEN 0
        ELSE AtMost((10000 * (peak - 2 * h[Few])) \div (6 * peak), 1000)

calc_hoga_pressure_score(ask, bid) ==
    IF ask + bid > 0 /\ 100 * bid > 55 * (ask + bid)
    THEN AtMost((5000 * bid) \div (ask + bid) - 2750, 1000)
    ELSE 0

\* The parts of the score.  Bursts count for less while the price falls.
Parts(s, vols, closes, flip) ==
    LET up == Len(closes) >= 3 => Last(closes) > closes[Len(closes) - 2]
        Directed(score) == IF up THEN score ELSE (3 * score) \div 10
    IN  [ bs |-> calc_bid1_slope_score(s.bid1),
          aw |-> calc_ask1_wall_collapse_score(s.ask1),
          rs |-> calc_rs_leading_score(s.rs),
          tv |-> Directed(calc_tick_vol_accel_score(s.tickVols)),
          vb |-> Directed(calc_vol_burst_score(vols)),
          cr |-> calc_chejan_reversal_score(s.chejan),
          ca |-> calc_chejan_acceleration(s.chejan),
          iv |-> flip,
          hp |-> calc_hoga_pressure_score(s.ask, s.bid),
          hv |-> calc_hoga_velocity(s.bids),
          ac |-> calc_accumulation_score(vols, closes) ]

\* Mutation of Supported: a collapsing wall of asks is support enough.
SupportedByWall(p, rebound) == p.aw >= 500 \/ p.bs >= 100 \/ p.cr >= rebound

\* Buyers are at work.
Supported(p, rebound) ==
    p.bs >= 100 \/ p.cr >= rebound \/ p.vb >= 150 \/ p.tv >= 150

\* The order book and the index need support from buyers.
primary_ok(p) ==
    \/ p.bs >= 300 \/ p.vb >= 400 \/ p.cr >= 250 \/ p.iv >= 500 \/ p.tv >= 500
    \/ p.hp >= 500 /\ Supported(p, 100)
    \/ p.aw >= 500 /\ Supported(p, 150)
    \/ p.rs >= 650 /\ (Supported(p, 150) \/ p.aw >= 200)

\* Without enough data there is no score, and who asks goes on without it.
NoScore == <<>>
get_leading_score(s, bars, flip) ==
    LET vols == [i \in DOMAIN bars |-> bars[i].volume]
        p == Parts(s, vols, ClosesOf(bars), flip)
    IN  IF Len(s.chejan) < Recent + Older \/ Len(bars) < 2 * Few + 1 THEN NoScore
        ELSE IF ~primary_ok(p) THEN <<0>>
        ELSE << (19 * (p.bs + p.aw) + 15 * p.rs + 12 * p.tv + 11 * p.vb + 10 * p.cr
                 + 5 * (p.ca + p.iv) + 2 * p.hp + p.hv + p.ac) \div 100 >>
=============================================================================
