------------------------------ MODULE MCSignals ------------------------------
(* Values of Signals' constants for TLC. *)
EXTENDS Signals

\* The defaults with the values of params/adaptive_params.json, and the end of
\* the entries as it was before 10:00 became the default.
MCCfg == [entryStart |-> 420, entryEnd |-> 930, eodStart |-> 890, eodEnd |-> 920,
          yosep |-> FALSE, overnight |-> TRUE, pivot |-> FALSE, golden |-> TRUE]

MCTimes == <<545, 565, 600, 900>>

MCOrder == <<"MORNING_GOLDENTIME", "JDM_ENTRY", "EOD">>

\* signal_cooldown_sec, morning_goldentime_cooldown_sec, gap_pullback_cooldown_sec.
MCOwn == [x \in Strategies |->
            CASE x = "MORNING_GOLDENTIME" -> 6
              [] x = "GAP_PULLBACK" -> 10
              [] x \in {"BREAKOUT", "OVERHEAT_PULLBACK", "EOD"} -> 0
              [] OTHER -> 2]

MCMinChange == -15

\* A snapshot that every strategy takes in its time (but the two that read a
\* field that is not there).
Bright ==
    [vwap |-> "above", days |-> 25, overMa20 |-> TRUE, ma20Up |-> TRUE, nearHigh |-> TRUE,
     aligned |-> TRUE, trend |-> 3, bars5 |-> 4, tfAligned |-> TRUE, tf1Trend |-> 1,
     slope5 |-> 10, pressure |-> 200, volume |-> 100, chejan |-> 150, chejanTrend |-> 100,
     ticks |-> 10, bars |-> 40, leading |-> 40, rise1 |-> 5, rise5 |-> 10, change |-> 50,
     h1Bars |-> 6, h1Falls |-> FALSE, h1Trend |-> 0, h1Rsi |-> 50, volRatio |-> 250,
     crosses |-> TRUE, spread |-> 50, shortRises |-> TRUE, vel |-> 100, disparity |-> 10,
     rsi |-> 60, momentum |-> 40, watch |-> 40, bidJumps |-> FALSE, tickAccel |-> 60,
     openRise |-> 30, bidRatio |-> 200, fromHigh6 |-> -20, volDecay |-> 60, lastBar |-> "up",
     amount |-> 50, index |-> 0, dipped |-> TRUE, lastMove |-> "up", ema20Dist |-> 5,
     energy |-> 150, gap |-> 40, bearishHigh |-> "broken", energy5 |-> 200, fromHigh |-> -20,
     amountRatio |-> 300, overHigh20 |-> TRUE, minuteMa20Up |-> TRUE, amount5 |-> 10,
     amount5Ratio |-> 150, level |-> 1, hadLevel3 |-> TRUE, energy10 |-> 200]

\* What is varied: one gate alone, or gates that depend on one another.
Varied ==
    ({"alone"} \X {"vwap", "pressure", "volume", "open", "bars", "days"}) \cup
    ({"score"} \X {10, 20, 60, Unknown} \X {60, 72} \X {5, 25}) \cup
    ({"trend"} \X {0, 2, 3} \X BOOLEAN \X {<<50, 50>>, <<100, 50>>, <<50, 400>>}) \cup
    ({"hour"} \X {0, 3} \X {100, 250}) \cup
    ({"new"} \X {12} \X {150, 950} \X {20, Unknown})

MCFacts ==
    [v \in Varied |->
        CASE v[1] = "score" -> [Bright EXCEPT !.leading = v[2], !.rsi = v[3], !.rise1 = v[4]]
          [] v[1] = "trend" -> [Bright EXCEPT !.trend = v[2], !.crosses = v[3], !.change = v[4][1],
                                              !.spread = v[4][2]]
          [] v[1] = "hour"  -> [Bright EXCEPT !.h1Falls = TRUE, !.trend = v[2], !.volRatio = v[3]]
          [] v[1] = "new"   -> [Bright EXCEPT !.bars = v[2], !.chejan = v[3], !.leading = v[4]]
          [] v[2] = "vwap"     -> [Bright EXCEPT !.vwap = "below"]
          [] v[2] = "pressure" -> [Bright EXCEPT !.pressure = Unknown]
          [] v[2] = "volume"   -> [Bright EXCEPT !.volRatio = 100]
          [] v[2] = "open"     -> [Bright EXCEPT !.openRise = Unknown]
          [] v[2] = "bars"     -> [Bright EXCEPT !.bars = 6]
          [] v[2] = "days"     -> [Bright EXCEPT !.days = 10]]
=============================================================================
