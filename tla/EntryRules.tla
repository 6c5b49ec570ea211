----------------------------- MODULE EntryRules -----------------------------
(***************************************************************************)
(* What makes a stock a buy: the evaluators of scanner/evaluators and the  *)
(* strategies of scanner/strategies that call them.  Pure definitions: the *)
(* snapshot s of a stock and the minute of the day decide whether a        *)
(* strategy signals.                                                       *)
(*                                                                         *)
(* A snapshot is a record of what the gates compare: the readings of the   *)
(* indicators, not the candles behind them (Indicators computes those).    *)
(* Percentages are tenths of a percent, ratios and scores hundredths,      *)
(* chejan percent, volume thousands of shares, trade amounts 10^8 won.     *)
(* A reading that the data does not suffice for is Unknown.  Thresholds    *)
(* are the defaults of scanner/config.py; its second definition of a field *)
(* wins.  The wording of a reason is left out.                             *)
(***************************************************************************)
EXTENDS Integers

CONSTANTS
    Cfg    \* SmartScannerConfig: the fields of CfgAssumption

Unknown == -1000

ASSUME CfgAssumption ==
    /\ Cfg.entryStart \in 0..1439 /\ Cfg.entryEnd \in 0..1439
    /\ Cfg.eodStart \in 0..1439 /\ Cfg.eodEnd \in 0..1439
    /\ {Cfg.yosep, Cfg.overnight, Cfg.pivot, Cfg.golden} \subseteq BOOLEAN

\* The readings of a snapshot.
Readings ==
    {"aligned", "amount", "amount5", "amount5Ratio", "amountRatio", "bars", "bars5",
     "bearishHigh", "bidJumps", "bidRatio", "change", "chejan", "chejanTrend", "crosses",
     "days", "dipped", "disparity", "ema20Dist", "energy", "energy10", "energy5", "fromHigh",
     "fromHigh6", "gap", "h1Bars", "h1Falls", "h1Rsi", "h1Trend", "hadLevel3", "index",
     "lastBar", "lastMove", "leading", "level", "ma20Up", "minuteMa20Up", "momentum",
     "nearHigh", "openRise", "overHigh20", "overMa20", "pressure", "rise1", "rise5", "rsi",
     "shortRises", "slope5", "spread", "tf1Trend", "tfAligned", "tickAccel", "ticks", "trend",
     "vel", "volDecay", "volRatio", "volume", "vwap", "watch"}

\* What is computed from what the snapshot shows is a number; the trend has a
\* level, and the leading score is a score or unknown.
Snapshot(s) ==
    /\ Readings \subseteq DOMAIN s
    /\ s.change \in Int /\ s.rsi \in Int /\ s.trend \in 0..3
    /\ s.leading \in Nat \cup {Unknown}

Known(x)       == x # Unknown
Within(x, a, b) == a <= x /\ x <= b
Exceeds(x, n)  == Known(x) /\ x >= n

----------------------------------------------------------------------------
(* Gates that several strategies share *)

\* _resolve_time_slot.
Slot(now) ==
    IF now < 540 THEN "pre"
    ELSE IF now < 600 THEN "opening"
    ELSE IF now < 660 THEN "morning"
    ELSE IF now < 780 THEN "midday"
    ELSE "afternoon"

InWindow(now) == Within(now, Cfg.entryStart, Cfg.entryEnd)

\* _get_slot_value: a parameter with a value of its own for some slots.
PerSlot(slot, opening, morning, midday, afternoon) ==
    IF slot = "opening" THEN opening
    ELSE IF slot = "morning" THEN morning
    ELSE IF slot = "midday" THEN midday
    ELSE afternoon

MaxChange(slot) == PerSlot(slot, 150, 200, 150, 80)
MinChejan(slot) == PerSlot(slot, 140, 90, 120, 130)

\* check_vwap_filter: a stock without a VWAP passes.
AboveVwap(s) == s.vwap # "below"

\* get_daily_context; with fewer than 23 days the mean's slope counts as up.
AboveMa20(s) == s.days >= 20 => s.overMa20
Ma20Up(s)    == s.days >= 23 => s.ma20Up

\* The daily lock of BREAKOUT, PULLBACK and OVERHEAT_PULLBACK.
DailyLock(s) == s.days >= 23 => s.overMa20 /\ s.ma20Up

\* The trend levels count when they are computed (yosep_trend_enabled).
TrendAtLeast(s, n) == Cfg.yosep => s.trend >= n

\* Both time frames point upwards, or there are too few 5-minute bars.
FramesAgree(s) == s.bars5 >= 3 => s.tfAligned

HogaAtLeast(s, n) == Known(s.pressure) => s.pressure >= n

----------------------------------------------------------------------------
(* JDM_ENTRY *)

\* Rejected below a daily volume; one that is not known yet passes.
Liquid(s, slot) ==
    s.volume = 0
    \/ s.volume >= IF slot = "opening" THEN 20 ELSE IF slot = "afternoon" THEN 90 ELSE 50

\* No chase after a jump of the last minutes, unless the leading score is high.
Surged(s) ==
    LET strong == s.chejan >= 900
    IN  /\ s.bars >= 6
        /\ ~Exceeds(s.leading, 30)
        /\ \/ s.rise1 >= (IF strong THEN 30 ELSE 20)
           \/ s.rise5 >= (IF strong THEN 150 ELSE 50)

\* The momentum of the executions fades: three ticks against the three before.
Fading(s) == s.ticks >= 8 /\ s.chejanTrend < 80

LeadingEnough(s) == Known(s.leading) => s.leading >= 15

\* Mutation of ChangeCap: the override for one level of the trend.
ChangeCapMedium(s, slot) ==
    IF s.trend = 2 /\ MaxChange(slot) < 150 THEN 150 ELSE MaxChange(slot)

\* The cap of the day's change, raised for a confirmed trend.
ChangeCap(s, slot) ==
    IF s.trend >= 2 /\ MaxChange(slot) < 150 THEN 150 ELSE MaxChange(slot)

NeedShort == 8     \* jdm_ma_short + 1
NeedLong  == 16    \* jdm_ma_long + 1

Lite(s, slot) == slot = "opening" /\ s.bars \in NeedShort..(NeedLong - 1)

\* _jdm_build_ctx.  The lower limit of RSI it computes is never compared, and
\* the limit of 2.0 on the volume burst lies above that score's maximum.
Eligible(s, now) ==
    LET slot == Slot(now)
    IN  /\ Liquid(s, slot) /\ ~Surged(s) /\ ~Fading(s) /\ LeadingEnough(s)
        /\ InWindow(now) /\ slot # "pre"
        /\ s.change < ChangeCap(s, slot)
        /\ Lite(s, slot) \/ s.bars >= NeedLong

\* The 5-minute bars rise so fast that a dip of the 1-minute bars is a chance.
Strong5(s) == s.slope5 >= 50

FramesBlock(s) ==
    s.tf1Trend < 3 /\ s.bars5 >= 3 /\ ~s.tfAligned /\ ~Strong5(s)

HourFalls(s) ==
    /\ s.h1Bars >= 5 /\ s.h1Falls /\ s.h1Trend = 0
    /\ s.trend < 3 /\ ~Strong5(s)
    /\ Known(s.h1Rsi) => s.h1Rsi > 20

\* The short mean crosses the long one now, or stays above it in a trend.
\* The spread is in hundredths of a percent of the long mean.
MeansCross(s, slot) ==
    LET override == ~s.crosses /\ s.trend >= 2
        wide     == slot = "opening" \/ override
    IN  /\ s.spread > 0 /\ (s.crosses \/ override)
        /\ s.spread >= (IF slot = "opening" THEN 5 ELSE 10)
        /\ s.spread * 2 <= (IF wide THEN 1050 ELSE 700)

\* _jdm_check_trend_and_ma.  The scoring bonus asks for the spread that is the
\* default anyway, and is_warmup is read before it is set.
TrendAndMeans(s, slot) ==
    /\ s.days >= 20 => s.aligned
    /\ ~FramesBlock(s) /\ ~HourFalls(s)
    /\ IF Lite(s, slot) THEN s.shortRises ELSE MeansCross(s, slot)

Warmup(s) == s.bars < 15

\* check_volume_surge.
VolumeSurges(s, mult) == s.bars >= 2 /\ Exceeds(s.volRatio, mult)
JdmVolume(s, slot) == VolumeSurges(s, PerSlot(slot, 150, 150, 120, 120))

\* Silence blocks as well as slowness: no ratio yet means no momentum.
Fast(s, slot) == s.vel # 0 /\ s.vel >= PerSlot(slot, 50, 30, 30, 50)

DisparityMax(s, slot) ==
    (40 * (IF Warmup(s) THEN 15 ELSE 10) * (IF slot = "opening" THEN 13 ELSE 10)) \div 100

\* The upper limit of RSI rises from 70 to 75 with any leading score.
RsiMax(s) == IF Exceeds(s.leading, 15) THEN 75 ELSE 70

\* _jdm_check_execution_quality; a candle pattern is noted, never required.
ExecutionQuality(s, slot, volume) ==
    /\ Warmup(s) => s.chejan >= 920
    /\ volume
    /\ Fast(s, slot)
    /\ s.chejan >= MinChejan(slot) /\ s.chejan < 2000
    /\ s.bars >= 10 => s.disparity < DisparityMax(s, slot)
    /\ ~Lite(s, slot) => s.rsi < RsiMax(s)

\* _jdm_check_daily_context.  After the opening it asks the snapshot for
\* daily_high_prev, a field StockSnapshot does not have: with pivot_r2_enabled
\* the evaluation raises and the strategy has no signal.
DailyContext(s, slot) ==
    IF slot = "opening" THEN s.momentum >= 25 \/ s.watch >= 25
    ELSE /\ ~Cfg.pivot
         /\ s.days >= 20 => s.aligned
         /\ AboveMa20(s) /\ Ma20Up(s)

\* hoga_pressure_min, a fifth lower after a jump of the first bid.
PressureMin(s, slot) ==
    ((IF slot = "opening" THEN 180 ELSE 130) * (IF s.bidJumps THEN 8 ELSE 10)) \div 10

Entry(s, now, volume) ==
    LET slot == Slot(now)
    IN  /\ Eligible(s, now) /\ TrendAndMeans(s, slot)
        /\ ExecutionQuality(s, slot, volume) /\ DailyContext(s, slot)
        /\ AboveVwap(s) /\ HogaAtLeast(s, PressureMin(s, slot))

check_jdm_entry(s, now) == Entry(s, now, JdmVolume(s, Slot(now)))

\* _jdm_check_early_trigger: leading indicators stand in for the volume.
EarlyTrigger(s) == Exceeds(s.leading, 50) \/ s.tickAccel >= 50

check_jdm_entry_early(s, now) == EarlyTrigger(s) /\ Entry(s, now, TRUE)

----------------------------------------------------------------------------
(* MORNING_GOLDENTIME *)

\* _eval_phase2: the opening price is broken.
OpeningBroken(s) ==
    /\ Known(s.openRise) /\ s.openRise > 0 /\ s.openRise <= 50
    /\ Known(s.bidRatio) => s.bidRatio >= 150
    /\ s.chejan >= 110

\* _eval_phase3: the first dip after the first wave.
FirstDip(s) ==
    /\ s.bars >= 5 /\ TrendAtLeast(s, 2) /\ AboveVwap(s)
    /\ Within(s.fromHigh6, -50, -5)
    /\ s.volDecay <= 80
    /\ s.lastBar # "down"

MorningGoldentime(s, now) ==
    /\ Cfg.golden /\ now \in 540..570
    /\ Known(s.openRise)
    /\ s.amount >= 30
    /\ s.index > -20
    /\ IF now <= 550 THEN OpeningBroken(s) ELSE FirstDip(s)

----------------------------------------------------------------------------
(* PULLBACK and GAP_PULLBACK *)

\* Both read vel_ratio; the snapshot's field is exec_velocity_ratio, so what
\* they see is the default.
VelRatio == 0

check_pullback_entry(s) ==
    /\ TrendAtLeast(s, 3) /\ LeadingEnough(s)
    /\ VelRatio >= 50
    /\ s.bars >= 20 /\ DailyLock(s)
    /\ s.dipped /\ s.lastMove = "up"
    /\ Within(s.ema20Dist, -15, 20) /\ Within(s.rsi, 50, 72)
    /\ s.energy >= 120 /\ AboveVwap(s) /\ FramesAgree(s) /\ HogaAtLeast(s, 130)

GapPullback(s, now) ==
    /\ now \in 570..630 /\ s.bars >= 5
    /\ Within(s.gap, 20, 80)
    /\ s.bearishHigh = "broken" /\ Exceeds(s.openRise, -10)
    /\ s.bars >= 6 => s.energy5 >= 150
    /\ TrendAtLeast(s, 2) /\ VelRatio >= 100 /\ FramesAgree(s)

----------------------------------------------------------------------------
(* BREAKOUT, RESISTANCE_BREAKOUT, OVERHEAT_PULLBACK, EOD *)

\* check_breakout: 1% over yesterday, near the day's high, and rising.
Broken(s) ==
    /\ s.change >= 10 /\ s.fromHigh > -50
    /\ s.bars >= 2 => s.lastMove = "up"

\* check_breakout_gate.
BreakoutGate(s, now) ==
    LET slot == Slot(now)
    IN  /\ InWindow(now) /\ DailyLock(s)
        /\ s.change < MaxChange(slot)
        /\ s.chejan >= MinChejan(slot)
        /\ s.chejan < PerSlot(slot, 2000, 1800, 1500, 1500)
        /\ s.bars >= 6 => s.rise1 < 20 /\ s.rise5 < 50
        /\ slot # "opening" => s.rsi < 80
        /\ s.bars >= 6 /\ s.amountRatio >= (IF slot = "opening" THEN 120 ELSE 250)
        /\ AboveVwap(s)

Breakout(s, now) == Broken(s) /\ BreakoutGate(s, now)

\* check_resistance_breakout: above every high of the 20 minutes before.
check_resistance_breakout(s) ==
    s.bars >= 21 /\ s.overHigh20 /\ s.trend >= 2 /\ VolumeSurges(s, 200)

\* OverheatPullbackEvaluator.evaluate: level 1 now, level 3 some bars ago, with
\* money flowing in.  The strategy does not ask for the trend level that the
\* evaluator's own entry function requires.
OverheatPullback(s) ==
    /\ s.bars >= 35 /\ AboveVwap(s)
    /\ IF s.days >= 23 THEN s.ma20Up ELSE s.minuteMa20Up
    /\ s.amount5 >= 5 /\ s.amount5Ratio >= 120
    /\ s.level = 1 /\ s.hadLevel3

\* check_eod_entry: without 20 days there is no alignment, so no entry.
check_eod_entry(s, now) ==
    /\ Cfg.overnight /\ now >= Cfg.eodStart /\ now < Cfg.eodEnd
    /\ s.days >= 20 /\ s.overMa20 /\ s.nearHigh /\ s.aligned
    /\ s.trend >= 3
    /\ Within(s.change, 20, 100) /\ s.chejan >= 115
    /\ s.bars >= 10 => s.energy10 >= 150

----------------------------------------------------------------------------
Strategies ==
    {"JDM_ENTRY", "JDM_ENTRY_EARLY", "MORNING_GOLDENTIME", "PULLBACK", "GAP_PULLBACK",
     "BREAKOUT", "RESISTANCE_BREAKOUT", "OVERHEAT_PULLBACK", "EOD"}

\* The verdict of a strategy.
Buys(strategy, s, now) ==
    \/ strategy = "JDM_ENTRY"           /\ check_jdm_entry(s, now)
    \/ strategy = "JDM_ENTRY_EARLY"     /\ check_jdm_entry_early(s, now)
    \/ strategy = "MORNING_GOLDENTIME"  /\ MorningGoldentime(s, now)
    \/ strategy = "PULLBACK"            /\ check_pullback_entry(s)
    \/ strategy = "GAP_PULLBACK"        /\ GapPullback(s, now)
    \/ strategy = "BREAKOUT"            /\ Breakout(s, now)
    \/ strategy = "RESISTANCE_BREAKOUT" /\ check_resistance_breakout(s)
    \/ strategy = "OVERHEAT_PULLBACK"   /\ OverheatPullback(s)
    \/ strategy = "EOD"                 /\ check_eod_entry(s, now)
=============================================================================
