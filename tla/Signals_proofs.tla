--------------------------- MODULE Signals_proofs ---------------------------
(***************************************************************************)
(* Theorems about Signals, and about the gates of EntryRules it asks.      *)
(***************************************************************************)
EXTENDS Signals, NaturalsInduction, WellFoundedInduction, TLAPS

-----------------------------------------------------------------------------
(* The first strategy that answers *)

LEMMA LeastNumber ==
    ASSUME NEW S \in SUBSET Nat, S # {}
    PROVE  \E i \in S : \A j \in S : i <= j
  <1>1. PICK i \in S : \A j \in S : ~(<<j, i>> \in OpToRel(<, Nat))
    BY NatLessThanWellFounded, WFMin
  <1>2. \A j \in S : ~(j < i)
    BY <1>1 DEF OpToRel
  <1> QED
    BY <1>2

LEMMA OrderType == Order \subseteq Strategies /\ \A i \in DOMAIN StrategyOrder : StrategyOrder[i] \in Order
  <1>1. StrategyOrder \in Seq(Strategies)
    BY ConstantsAssumption
  <1> QED
    BY <1>1 DEF Order, Range

LEMMA AnswerType == ASSUME NEW c PROVE Answer(c) \in Order \cup {"none"}
  <1> DEFINE yes   == {i \in DOMAIN StrategyOrder : Answers(StrategyOrder[i], c)}
             first == CHOOSE i \in yes : \A j \in yes : i <= j
  <1>1. yes \subseteq Nat
    <2>1. StrategyOrder \in Seq(Strategies)
      BY ConstantsAssumption
    <2> QED
      BY <2>1
  <1>2. yes # {} => first \in yes
    BY <1>1, LeastNumber
  <1>3. Answer(c) = IF Admitted(Facts[snap[c]]) /\ yes # {} THEN StrategyOrder[first] ELSE "none"
    BY DEF Answer
  <1>4. yes # {} => StrategyOrder[first] \in Order
    BY <1>2, OrderType
  <1> HIDE DEF yes, first
  <1> QED
    BY <1>3, <1>4

-----------------------------------------------------------------------------
(* Quiet after a loss *)

\* The dictionary knows every loss, and is as old as the loss.
Remembered == lossExit = lost

Quiet == \A c \in Codes : out[c] # "none" => lost[c] >= LossCooldown

LEMMA Numbers ==
    /\ SignalCooldown \in Nat /\ LossCooldown \in Nat /\ MaxRestarts \in Nat
    /\ OwnCooldown \in [Strategies -> Nat]
    /\ \A x \in Order : OwnCooldown[x] \in Nat
  <1>1. SignalCooldown \in Nat /\ LossCooldown \in Nat /\ MaxRestarts \in Nat
        /\ OwnCooldown \in [Strategies -> Nat]
    BY ConstantsAssumption
  <1> QED
    BY <1>1, OrderType

LEMMA TicksAre == DOMAIN Times = 1..Len(Times) /\ Len(Times) \in Nat \ {0} /\ 1 \in DOMAIN Times
  <1>1. Times \in Seq(0..1439) /\ Times # <<>>
    BY ConstantsAssumption
  <1> DEFINE T == 0..1439
  <1>2. Times \in Seq(T) /\ Times # <<>>
    BY <1>1
  <1> HIDE DEF T
  <1> QED
    BY <1>2

LEMMA InitQuiet == Init => TypeOK /\ Remembered /\ Quiet
  <1> SUFFICES ASSUME Init PROVE TypeOK /\ Remembered /\ Quiet
    OBVIOUS
  <1>1. own = FreshOwn => /\ own \in [Codes -> [Order -> Nat]]
                          /\ \A c \in Codes, x \in Order : own[c][x] <= OwnCooldown[x]
    BY Numbers DEF FreshOwn
  <1>2. FreshSent \in [Codes -> [Order -> 0..(SignalCooldown + 1)]]
    BY Numbers DEF FreshSent
  <1>3. None \in [Codes -> Order \cup {"none"}] /\ \A c \in Codes : None[c] = "none"
    BY DEF None
  <1>4. lossExit \in [Codes -> 0..LossCooldown] /\ lost = lossExit
    BY Numbers DEF Init
  <1>5. TypeOK
    BY <1>1, <1>2, <1>3, <1>4, TicksAre, Numbers DEF Init, TypeOK
  <1> QED
    BY <1>3, <1>4, <1>5 DEF Remembered, Quiet, Init

LEMMA Ages == ASSUME NEW limit \in Nat, NEW n \in 0..limit
              PROVE  Aged(n, limit) \in 0..limit /\ (n = limit => Aged(n, limit) = limit)
  BY DEF Aged

LEMMA EvaluateQuiet ==
    ASSUME TypeOK, Remembered, Quiet, NEW c \in Codes, Evaluate(c)
    PROVE  TypeOK' /\ Remembered' /\ Quiet'
  <1> DEFINE x == Answer(c)
  <1>1. x \in Order \cup {"none"}
    BY AnswerType
  <1>2. PICK late \in BOOLEAN :
          LET emits == x # "none" /\ Emits(x, c, late)
          IN  /\ out' = [out EXCEPT ![c] = IF emits THEN x ELSE "none"]
              /\ sent' = IF emits THEN [sent EXCEPT ![c][x] = 0] ELSE sent
              /\ own' = Noted(x, c)
    <2>1. (IF x # "none" /\ sent[c][x] = SignalCooldown THEN BOOLEAN ELSE {FALSE}) \subseteq BOOLEAN
      OBVIOUS
    <2> HIDE DEF x
    <2>2. \E late \in (IF x # "none" /\ sent[c][x] = SignalCooldown THEN BOOLEAN ELSE {FALSE}) :
          LET emits == x # "none" /\ Emits(x, c, late)
          IN  /\ out' = [out EXCEPT ![c] = IF emits THEN x ELSE "none"]
              /\ sent' = IF emits THEN [sent EXCEPT ![c][x] = 0] ELSE sent
              /\ own' = Noted(x, c)
      BY DEF Evaluate, x
    <2> QED
      BY <2>1, <2>2
  <1> HIDE DEF x
  <1>3. UNCHANGED <<tick, snap, lossExit, lost, restarts>> /\ evaluated' = evaluated \cup {c}
    BY DEF Evaluate
  <1> DEFINE emits == x # "none" /\ Emits(x, c, late)
  <1>4. emits => x \in Order /\ lossExit[c] >= LossCooldown
    BY <1>1 DEF Emits
  <1>5. /\ out' = [out EXCEPT ![c] = IF emits THEN x ELSE "none"]
        /\ sent' = IF emits THEN [sent EXCEPT ![c][x] = 0] ELSE sent
        /\ own' = Noted(x, c)
    BY <1>2
  <1> HIDE DEF emits
  <1>6. out' \in [Codes -> Order \cup {"none"}]
    BY <1>4, <1>5 DEF TypeOK
  <1>7. sent' \in [Codes -> [Order -> 0..(SignalCooldown + 1)]]
    BY <1>4, <1>5, Numbers DEF TypeOK
  <1>8. /\ own' \in [Codes -> [Order -> Nat]]
        /\ \A d \in Codes, y \in Order : own'[d][y] <= OwnCooldown[y]
    BY <1>1, <1>5, Numbers DEF TypeOK, Noted
  <1>9. TypeOK'
    BY <1>3, <1>6, <1>7, <1>8 DEF TypeOK
  <1>10. Quiet'
    BY <1>3, <1>4, <1>5 DEF Quiet, Remembered, TypeOK
  <1> QED
    BY <1>3, <1>9, <1>10 DEF Remembered

LEMMA HalfMinuteQuiet ==
    ASSUME TypeOK, Remembered, HalfMinute
    PROVE  TypeOK' /\ Remembered' /\ Quiet'
  <1>1. own' \in [Codes -> [Order -> Nat]]
        /\ \A c \in Codes, x \in Order : own'[c][x] <= OwnCooldown[x]
    <2>1. \A c \in Codes, x \in Order : own[c][x] \in 0..OwnCooldown[x]
      BY Numbers DEF TypeOK
    <2>2. \A c \in Codes, x \in Order : Aged(own[c][x], OwnCooldown[x]) \in 0..OwnCooldown[x]
      BY <2>1, Ages, Numbers
    <2>3. \A c \in Codes, x \in Order : /\ Aged(own[c][x], OwnCooldown[x]) \in Nat
                                        /\ Aged(own[c][x], OwnCooldown[x]) <= OwnCooldown[x]
      BY <2>2, Numbers
    <2> QED
      BY <2>3 DEF HalfMinute
  <1>2. sent' \in [Codes -> [Order -> 0..(SignalCooldown + 1)]]
    <2>1. SignalCooldown + 1 \in Nat
      BY Numbers
    <2>2. \A c \in Codes, x \in Order :
            Aged(sent[c][x], SignalCooldown + 1) \in 0..(SignalCooldown + 1)
      BY <2>1, Ages DEF TypeOK
    <2> QED
      BY <2>2 DEF HalfMinute
  <1>3. lossExit' \in [Codes -> 0..LossCooldown] /\ lost' = lossExit'
    <2>1. \A c \in Codes : Aged(lossExit[c], LossCooldown) \in 0..LossCooldown
      BY Ages, Numbers DEF TypeOK
    <2> QED
      BY <2>1 DEF HalfMinute, Remembered
  <1>4. out' \in [Codes -> Order \cup {"none"}] /\ \A c \in Codes : out'[c] = "none"
    BY DEF HalfMinute, None
  <1>5. TypeOK'
    BY <1>1, <1>2, <1>3, <1>4 DEF TypeOK, HalfMinute
  <1> QED
    BY <1>3, <1>4, <1>5 DEF Remembered, Quiet

LEMMA LossExitQuiet ==
    ASSUME TypeOK, Remembered, NEW c \in Codes, LossExit(c)
    PROVE  TypeOK' /\ Remembered' /\ Quiet'
  <1>1. out' \in [Codes -> Order \cup {"none"}] /\ \A d \in Codes : out'[d] = "none"
    BY DEF LossExit, None
  <1>2. lossExit' \in [Codes -> 0..LossCooldown] /\ lost' = lossExit'
    BY Numbers DEF LossExit, TypeOK, Remembered
  <1> QED
    BY <1>1, <1>2 DEF LossExit, TypeOK, Remembered, Quiet, stamps

LEMMA RestartQuiet ==
    ASSUME TypeOK, Remembered, Restart
    PROVE  TypeOK' /\ Remembered' /\ Quiet'
  <1>1. /\ own' \in [Codes -> [Order -> Nat]]
        /\ \A c \in Codes, x \in Order : own'[c][x] <= OwnCooldown[x]
    BY Numbers DEF Restart, FreshOwn
  <1>2. sent' \in [Codes -> [Order -> 0..(SignalCooldown + 1)]]
    BY Numbers DEF Restart, FreshSent
  <1>3. out' \in [Codes -> Order \cup {"none"}] /\ \A d \in Codes : out'[d] = "none"
    BY DEF Restart, None
  <1>4. restarts' \in 0..MaxRestarts
    BY Numbers DEF Restart, TypeOK
  <1> QED
    BY <1>1, <1>2, <1>3, <1>4 DEF Restart, Restored, TypeOK, Remembered, Quiet

LEMMA NextQuiet == TypeOK /\ Remembered /\ Quiet /\ [Next]_vars => TypeOK' /\ Remembered' /\ Quiet'
  <1> SUFFICES ASSUME TypeOK, Remembered, Quiet, [Next]_vars
               PROVE  TypeOK' /\ Remembered' /\ Quiet'
    OBVIOUS
  <1>1. ASSUME NEW c \in Codes, Evaluate(c) PROVE TypeOK' /\ Remembered' /\ Quiet'
    BY <1>1, EvaluateQuiet
  <1>2. ASSUME NEW c \in Codes, Trades(c) PROVE TypeOK' /\ Remembered' /\ Quiet'
    BY <1>2 DEF Trades, TypeOK, Remembered, Quiet, stamps
  <1>3. ASSUME NEW c \in Codes, LossExit(c) PROVE TypeOK' /\ Remembered' /\ Quiet'
    BY <1>3, LossExitQuiet
  <1>4. CASE HalfMinute
    BY <1>4, HalfMinuteQuiet
  <1>5. CASE Restart
    BY <1>5, RestartQuiet
  <1>6. CASE UNCHANGED vars
    BY <1>6 DEF vars, stamps, TypeOK, Remembered, Quiet
  <1> QED
    BY <1>1, <1>2, <1>3, <1>4, <1>5, <1>6 DEF Next

\* A code that was sold with a loss is not signalled before its cool-down is over,
\* whatever strategy answers and however often the program is started again.
\* (_emit, mark_loss_exit, _load_loss_exit_dict)
THEOREM LossesAreQuiet == Spec => []QuietAfterLoss
  <1>1. TypeOK /\ Remembered /\ Quiet => QuietAfterLoss
    BY DEF QuietAfterLoss, Quiet
  <1> QED
    BY InitQuiet, NextQuiet, <1>1, PTL DEF Spec

-----------------------------------------------------------------------------
(* Strength helps *)

Alike(s, t) ==
    /\ t.aligned = s.aligned /\ t.amount = s.amount /\ t.amount5 = s.amount5
    /\ t.amount5Ratio = s.amount5Ratio /\ t.amountRatio = s.amountRatio /\ t.bars = s.bars
    /\ t.bars5 = s.bars5 /\ t.bearishHigh = s.bearishHigh /\ t.bidJumps = s.bidJumps
    /\ t.bidRatio = s.bidRatio /\ t.change = s.change /\ t.chejan = s.chejan
    /\ t.chejanTrend = s.chejanTrend /\ t.crosses = s.crosses /\ t.days = s.days
    /\ t.dipped = s.dipped /\ t.disparity = s.disparity /\ t.ema20Dist = s.ema20Dist
    /\ t.energy = s.energy /\ t.energy10 = s.energy10 /\ t.energy5 = s.energy5
    /\ t.fromHigh = s.fromHigh /\ t.fromHigh6 = s.fromHigh6 /\ t.gap = s.gap
    /\ t.h1Bars = s.h1Bars /\ t.h1Falls = s.h1Falls /\ t.h1Rsi = s.h1Rsi
    /\ t.h1Trend = s.h1Trend /\ t.hadLevel3 = s.hadLevel3 /\ t.index = s.index
    /\ t.lastBar = s.lastBar /\ t.lastMove = s.lastMove /\ t.level = s.level
    /\ t.ma20Up = s.ma20Up /\ t.minuteMa20Up = s.minuteMa20Up /\ t.momentum = s.momentum
    /\ t.nearHigh = s.nearHigh /\ t.openRise = s.openRise /\ t.overHigh20 = s.overHigh20
    /\ t.overMa20 = s.overMa20 /\ t.pressure = s.pressure /\ t.rise1 = s.rise1
    /\ t.rise5 = s.rise5 /\ t.rsi = s.rsi /\ t.shortRises = s.shortRises
    /\ t.slope5 = s.slope5 /\ t.spread = s.spread /\ t.tf1Trend = s.tf1Trend
    /\ t.tfAligned = s.tfAligned /\ t.tickAccel = s.tickAccel /\ t.ticks = s.ticks
    /\ t.vel = s.vel /\ t.volDecay = s.volDecay /\ t.volRatio = s.volRatio
    /\ t.volume = s.volume /\ t.vwap = s.vwap /\ t.watch = s.watch

\* t shows what s shows, but for a stronger trend or a higher leading score.
Stronger(s, t) ==
    /\ Alike(s, t)
    /\ s.change \in Int /\ s.rsi \in Int /\ s.trend \in 0..3 /\ t.trend \in 0..3
    /\ s.leading \in Nat \cup {Unknown} /\ t.leading \in Nat \cup {Unknown}
    /\ t.trend >= s.trend
    /\ t.leading = s.leading \/ (Known(s.leading) /\ t.leading > s.leading)

LEMMA LeadingGates ==
    ASSUME NEW s, NEW t, Stronger(s, t)
    PROVE  /\ LeadingEnough(s) => LeadingEnough(t)
           /\ RsiMax(s) \in Int /\ RsiMax(t) \in Int /\ RsiMax(s) <= RsiMax(t)
           /\ Surged(t) => Surged(s)
           /\ EarlyTrigger(s) => EarlyTrigger(t)
  <1>1. /\ s.leading \in Int /\ t.leading \in Int /\ s.leading >= Unknown
        /\ s.leading # t.leading => s.leading # Unknown /\ t.leading > s.leading
    BY DEF Stronger, Known, Unknown
  <1>2. \A n \in Int : Exceeds(s.leading, n) => Exceeds(t.leading, n)
    BY <1>1 DEF Exceeds, Known, Unknown
  <1>3. LeadingEnough(s) => LeadingEnough(t)
    BY <1>1 DEF LeadingEnough, Known, Unknown
  <1>4. RsiMax(s) \in Int /\ RsiMax(t) \in Int /\ RsiMax(s) <= RsiMax(t)
    BY <1>2 DEF RsiMax
  <1>5. Surged(t) => Surged(s)
    BY <1>2 DEF Surged, Stronger, Alike
  <1>6. EarlyTrigger(s) => EarlyTrigger(t)
    BY <1>2 DEF EarlyTrigger, Stronger, Alike
  <1> QED
    BY <1>3, <1>4, <1>5, <1>6

LEMMA TrendGates ==
    ASSUME NEW s, NEW t, Stronger(s, t), NEW slot
    PROVE  /\ s.change < ChangeCap(s, slot) => t.change < ChangeCap(t, slot)
           /\ TrendAndMeans(s, slot) => TrendAndMeans(t, slot)
           /\ \A n \in Int : TrendAtLeast(s, n) => TrendAtLeast(t, n)
  <1>1. s.change < ChangeCap(s, slot) => t.change < ChangeCap(t, slot)
    <2>1. MaxChange(slot) \in Int
      BY DEF MaxChange, PerSlot
    <2> QED
      BY <2>1 DEF ChangeCap, Stronger, Alike
  <1>2. TrendAndMeans(s, slot) => TrendAndMeans(t, slot)
    <2>1. FramesBlock(t) => FramesBlock(s)
      BY DEF FramesBlock, Strong5, Stronger, Alike
    <2>2. HourFalls(t) => HourFalls(s)
      BY DEF HourFalls, Strong5, Known, Stronger, Alike
    <2>3. Lite(t, slot) = Lite(s, slot)
      BY DEF Lite, Stronger, Alike
    <2>4. MeansCross(s, slot) => MeansCross(t, slot)
      BY DEF MeansCross, Stronger, Alike
    <2> QED
      BY <2>1, <2>2, <2>3, <2>4 DEF TrendAndMeans, Stronger, Alike
  <1>3. \A n \in Int : TrendAtLeast(s, n) => TrendAtLeast(t, n)
    BY DEF TrendAtLeast, Stronger
  <1> QED
    BY <1>1, <1>2, <1>3

LEMMA JdmStronger ==
    ASSUME NEW s, NEW t, Stronger(s, t), NEW now, NEW volume, Entry(s, now, volume)
    PROVE  Entry(t, now, volume)
  <1> DEFINE slot == Slot(now)
  <1>1. Eligible(s, now) /\ TrendAndMeans(s, slot) /\ ExecutionQuality(s, slot, volume)
        /\ DailyContext(s, slot) /\ AboveVwap(s) /\ HogaAtLeast(s, PressureMin(s, slot))
    BY DEF Entry
  <1> HIDE DEF slot
  <1>2. Lite(t, slot) = Lite(s, slot) /\ Liquid(t, slot) = Liquid(s, slot)
        /\ Fading(t) = Fading(s)
    BY DEF Lite, Liquid, Fading, Stronger, Alike
  <1>3. Eligible(t, now)
    BY <1>1, <1>2, LeadingGates, TrendGates DEF Eligible, slot, Stronger, Alike
  <1>4. TrendAndMeans(t, slot)
    BY <1>1, TrendGates
  <1>5. ExecutionQuality(t, slot, volume)
    <2>1. Warmup(t) = Warmup(s) /\ Fast(t, slot) = Fast(s, slot)
          /\ DisparityMax(t, slot) = DisparityMax(s, slot)
      BY DEF Warmup, Fast, DisparityMax, Stronger, Alike
    <2>2. s.rsi < RsiMax(s) => t.rsi < RsiMax(t)
      BY LeadingGates DEF Stronger, Alike
    <2> QED
      BY <1>1, <1>2, <2>1, <2>2 DEF ExecutionQuality, Stronger, Alike
  <1>6. DailyContext(t, slot)
    BY <1>1 DEF DailyContext, AboveMa20, Ma20Up, Stronger, Alike
  <1>7. AboveVwap(t) /\ HogaAtLeast(t, PressureMin(t, slot))
    BY <1>1 DEF AboveVwap, HogaAtLeast, PressureMin, Known, Stronger, Alike
  <1> QED
    BY <1>3, <1>4, <1>5, <1>6, <1>7 DEF Entry, slot

LEMMA OthersStronger ==
    ASSUME NEW s, NEW t, Stronger(s, t), NEW now
    PROVE  /\ MorningGoldentime(s, now) => MorningGoldentime(t, now)
           /\ check_pullback_entry(s) => check_pullback_entry(t)
           /\ GapPullback(s, now) => GapPullback(t, now)
           /\ Breakout(s, now) => Breakout(t, now)
           /\ check_resistance_breakout(s) => check_resistance_breakout(t)
           /\ OverheatPullback(s) => OverheatPullback(t)
           /\ check_eod_entry(s, now) => check_eod_entry(t, now)
  <1>1. MorningGoldentime(s, now) => MorningGoldentime(t, now)
    <2>1. FirstDip(s) => FirstDip(t)
      BY TrendGates DEF FirstDip, AboveVwap, Within, Stronger, Alike
    <2> QED
      BY <2>1 DEF MorningGoldentime, OpeningBroken, Known, Stronger, Alike
  <1>2. check_pullback_entry(s) => check_pullback_entry(t)
    BY DEF check_pullback_entry, VelRatio
  <1>3. GapPullback(s, now) => GapPullback(t, now)
    BY DEF GapPullback, VelRatio
  <1>4. Breakout(s, now) => Breakout(t, now)
    <2>1. Broken(s) => Broken(t)
      BY DEF Broken, Stronger, Alike
    <2>2. BreakoutGate(s, now) => BreakoutGate(t, now)
      BY DEF BreakoutGate, DailyLock, AboveVwap, Stronger, Alike
    <2> QED
      BY <2>1, <2>2 DEF Breakout
  <1>5. check_resistance_breakout(s) => check_resistance_breakout(t)
    BY DEF check_resistance_breakout, VolumeSurges, Exceeds, Known, Stronger, Alike
  <1>6. OverheatPullback(s) => OverheatPullback(t)
    BY DEF OverheatPullback, AboveVwap, Stronger, Alike
  <1>7. check_eod_entry(s, now) => check_eod_entry(t, now)
    BY DEF check_eod_entry, Within, Stronger, Alike
  <1> QED
    BY <1>1, <1>2, <1>3, <1>4, <1>5, <1>6, <1>7

\* No gate of any strategy takes strength amiss, whatever else the snapshot shows.
LEMMA StrongerBuys ==
    ASSUME NEW x, NEW s, NEW t, Stronger(s, t), NEW now, Buys(x, s, now)
    PROVE  Buys(x, t, now)
  <1>1. check_jdm_entry(s, now) => check_jdm_entry(t, now)
    <2>1. JdmVolume(t, Slot(now)) = JdmVolume(s, Slot(now))
      BY DEF JdmVolume, VolumeSurges, Exceeds, Known, Stronger, Alike
    <2> QED
      BY <2>1, JdmStronger DEF check_jdm_entry
  <1>2. check_jdm_entry_early(s, now) => check_jdm_entry_early(t, now)
    BY JdmStronger, LeadingGates DEF check_jdm_entry_early
  <1> QED
    BY <1>1, <1>2, OthersStronger DEF Buys

LEMMA JudgedStronger ==
    ASSUME NEW s, Snapshot(s), NEW t, Snapshot(t),
           \/ Known(s.leading) /\ t.leading > s.leading /\ t = [s EXCEPT !.leading = t.leading]
           \/ t.trend > s.trend /\ t = [s EXCEPT !.trend = t.trend]
    PROVE  Stronger(Judged(s), Judged(t))
  <1>1. \A r \in Readings \ {"leading", "trend"} : t[r] = s[r]
    BY DEF Snapshot, Readings
  <1>2. /\ t.leading = s.leading \/ (Known(s.leading) /\ t.leading > s.leading)
        /\ t.trend >= s.trend
    BY DEF Snapshot, Readings
  <1> DEFINE u == Judged(s)
             v == Judged(t)
  <1>3. \A r \in Readings \ {"leading", "trend"} : v[r] = u[r]
    <2>1. CASE Cfg.yosep \/ Cfg.overnight
      BY <1>1, <2>1 DEF Judged
    <2>2. CASE ~(Cfg.yosep \/ Cfg.overnight)
      <3>1. u = [s EXCEPT !.trend = 0, !.momentum = 0, !.watch = 0]
            /\ v = [t EXCEPT !.trend = 0, !.momentum = 0, !.watch = 0]
        BY <2>2 DEF Judged
      <3>2. u.momentum = 0 /\ v.momentum = 0 /\ u.watch = 0 /\ v.watch = 0
        BY <3>1 DEF Snapshot, Readings
      <3>3. ASSUME NEW r \in Readings, r \notin {"trend", "momentum", "watch"}
            PROVE  u[r] = s[r] /\ v[r] = t[r]
        BY <3>1, <3>3 DEF Snapshot
      <3> QED
        BY <1>1, <3>2, <3>3
    <2> QED
      BY <2>1, <2>2
  <1>4. /\ u.leading = s.leading /\ v.leading = t.leading
        /\ u.trend \in 0..3 /\ v.trend \in 0..3 /\ v.trend >= u.trend
        /\ u.change \in Int /\ u.rsi \in Int
    BY <1>2 DEF Judged, Snapshot, Readings
  <1> HIDE DEF u, v
  <1>5. Alike(u, v)
    BY <1>3 DEF Alike, Readings
  <1>6. Stronger(u, v)
    BY <1>2, <1>4, <1>5 DEF Stronger, Snapshot
  <1> QED
    BY <1>6 DEF u, v

\* More of the leading score or of the trend never costs a stock the signal of any
\* strategy, for every snapshot a stock may have.  (evaluators/jdm.py, Buys)
THEOREM StrengthNeverCosts == Spec => []StrengthHelps
  <1>1. TypeOK => StrengthHelps
    <2> SUFFICES ASSUME TypeOK, NEW c \in Codes, NEW x,
                        NEW g \in MoreLeading[snap[c]] \cup MoreTrend[snap[c]],
                        x \in Wants[tick][snap[c]]
                 PROVE  x \in Wants[tick][g]
      BY DEF StrengthHelps
    <2> DEFINE f == snap[c]
    <2>1. tick \in DOMAIN Times /\ f \in DOMAIN Facts
      BY DEF TypeOK
    <2> HIDE DEF f
    <2>2. /\ g \in DOMAIN Facts
          /\ \/ /\ Known(Facts[f].leading) /\ Facts[g].leading > Facts[f].leading
                /\ Facts[g] = [Facts[f] EXCEPT !.leading = Facts[g].leading]
             \/ /\ Facts[g].trend > Facts[f].trend
                /\ Facts[g] = [Facts[f] EXCEPT !.trend = Facts[g].trend]
      BY <2>1 DEF MoreLeading, MoreTrend, f
    <2>3. Snapshot(Facts[f]) /\ Snapshot(Facts[g])
      BY <2>1, <2>2, ConstantsAssumption
    <2>4. Stronger(Judged(Facts[f]), Judged(Facts[g]))
      BY <2>2, <2>3, JudgedStronger
    <2>5. x \in Strategies /\ Buys(x, Judged(Facts[f]), Times[tick])
      BY <2>1 DEF Wants, f
    <2>6. Buys(x, Judged(Facts[g]), Times[tick])
      BY <2>4, <2>5, StrongerBuys
    <2> QED
      BY <2>1, <2>2, <2>5, <2>6 DEF Wants
  <1> QED
    BY InitQuiet, NextQuiet, <1>1, PTL DEF Spec

=============================================================================
