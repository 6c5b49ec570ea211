---------------------------- MODULE MCTradingDay ----------------------------
(* Values of TradingDay's constants for TLC. *)
EXTENDS TradingDay

Slots(o, m, d, a, l) ==
    [s \in {"opening", "morning", "midday", "afternoon", "late"} |->
        CASE s = "opening" -> o [] s = "morning" -> m [] s = "midday" -> d
          [] s = "afternoon" -> a [] s = "late" -> l]

\* scanner/config.py and params/adaptive_params.json.
MCCfg == [stopLoss   |-> Slots(-150, -200, -150, -100, -80),
          activation |-> Slots(300, 300, 250, 300, 300),
          trail1     |-> Slots(250, 250, 120, 250, 250),
          trail2     |-> Slots(300, 300, 180, 300, 300),
          timeCut    |-> Slots(35, 35, 40, 20, 8),
          trail3 |-> 300, trail1Max |-> 500, trail2Max |-> 800,
          hardStop |-> -300, openingHardStop |-> -150, earlyRelax |-> 150, earlyHold |-> 5,
          takeProfit |-> 500, minHold |-> 5, trendDecayMin |-> 50, breakeven |-> 0,
          partialProfit |-> 250, climaxMin |-> 1000,
          gapStop |-> <<-200, -250, -300>>, gapProfit |-> <<500, 600, 700>>]

MCTickHard == -300
MCTickStop == -200
MCGapDown == -150

MCClock == <<0, 540, 570, 880, 920>>

\* Nothing, the EMA protects, everything that sells.
MCShown == {{}, {"above"}, {"below", "climax", "distribution"}}
=============================================================================
