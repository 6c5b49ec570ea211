------------------------- MODULE TradingDay_proofs -------------------------
(***************************************************************************)
(* Proofs about TradingDay for all codes, prices, clocks, settings and     *)
(* bounds: what the handlers do to a stock, and with it that a deep loss   *)
(* is sold, that a stopped-out code stays out for the day, and that the    *)
(* opening gap is judged on a later day.                                   *)
(***************************************************************************)
EXTENDS TradingDay, SequenceTheorems, TLAPS

-----------------------------------------------------------------------------
(* The clock *)

LEMMA SeqElement == ASSUME NEW S, NEW q \in Seq(S), NEW i \in DOMAIN q PROVE q[i] \in S
  OBVIOUS

LEMMA ClockMinute == ASSUME NEW i \in DOMAIN Clock PROVE Clock[i] \in 0..1439
  <1> DEFINE minutes == 0..1439
  <1>1. Clock \in Seq(minutes)
    BY ConstantsAssumption
  <1> HIDE DEF minutes
  <1>2. Clock[i] \in minutes
    BY <1>1, SeqElement
  <1> QED
    BY <1>2 DEF minutes

LEMMA ClockInt == ASSUME NEW i \in DOMAIN Clock PROVE Clock[i] \in Int
  <1>1. Clock[i] \in 0..1439
    BY ClockMinute
  <1> QED
    BY <1>1

LEMMA ClockForward ==
    ASSUME NEW i \in DOMAIN Clock, i + 1 \in DOMAIN Clock
    PROVE  Clock[i] < Clock[i + 1]
  <1>1. \A a, b \in DOMAIN Clock : a < b => Clock[a] < Clock[b]
    BY ConstantsAssumption
  <1>2. i < i + 1
    <2> DEFINE minutes == 0..1439
    <2>1. Clock \in Seq(minutes)
      BY ConstantsAssumption
    <2> HIDE DEF minutes
    <2>2. i \in Nat
      BY <2>1
    <2> QED
      BY <2>2
  <1> QED
    BY <1>1, <1>2

LEMMA ClockNow ==
    ASSUME day \in 1..MaxDays, tick \in DOMAIN Clock
    PROVE  /\ Time \in 0..1439 /\ Now \in Stamp /\ Now \in Nat \ {0}
           /\ Now = day * 1440 + Time
           /\ Day(Now) = day /\ Minute(Now) = Time
  <1>1. Time \in 0..1439
    BY ClockMinute DEF Time
  <1>2. MaxDays \in Nat /\ day \in Nat /\ day >= 1 /\ day <= MaxDays
    BY ConstantsAssumption
  <1>3. Now = day * 1440 + Time
    BY DEF Now, Time
  <1>4. Now \in Nat \ {0} /\ Now <= (MaxDays + 1) * 1440
    BY <1>1, <1>2, <1>3
  <1>5. Day(Now) = day /\ Minute(Now) = Time
    BY <1>1, <1>2, <1>3 DEF Day, Minute
  <1> QED
    BY <1>1, <1>2, <1>3, <1>4, <1>5 DEF Stamp

-----------------------------------------------------------------------------
(* What the handlers do to a stock *)

\* A handler that neither buys nor executes: it may mark the stock, sell it, and
\* hold it over the gap.
Handled(s, t) ==
    /\ t \in Stock
    /\ t.order = s.order \/ (Owned(s) /\ ~Working(s) /\ Working(t))
    /\ t.forced => s.forced \/ Working(t)
    /\ t.meta = s.meta
    /\ t.lossAt \in {s.lossAt, Now}
    /\ t.pos.qty = s.pos.qty /\ t.pos.avg = s.pos.avg /\ t.pos.cur = s.pos.cur
    /\ t.pos.at = s.pos.at /\ t.pos.eod = s.pos.eod /\ t.pos.app = s.pos.app
    /\ t.pos.held => s.pos.held \/ (GapTime /\ s.pos.eod)

LEMMA HandledSame == ASSUME NEW s \in Stock PROVE Handled(s, s)
  BY DEF Handled

LEMMA HandledTwice ==
    ASSUME NEW s, NEW t, NEW u, Handled(s, t), Handled(t, u)
    PROVE  Handled(s, u)
  <1>1. u \in Stock /\ u.meta = s.meta /\ u.pos.qty = s.pos.qty /\ u.pos.avg = s.pos.avg
        /\ u.pos.cur = s.pos.cur /\ u.pos.at = s.pos.at /\ u.pos.eod = s.pos.eod
        /\ u.pos.app = s.pos.app /\ u.lossAt \in {s.lossAt, Now}
        /\ (u.pos.held => s.pos.held \/ (GapTime /\ s.pos.eod))
    BY DEF Handled
  <1>2. u.order = s.order \/ (Owned(s) /\ ~Working(s) /\ Working(u))
    BY DEF Handled, Working, Owned
  <1>3. Working(t) => Working(u)
    BY DEF Handled, Working
  <1>4. u.forced => s.forced \/ Working(u)
    BY <1>3 DEF Handled
  <1> QED
    BY <1>1, <1>2, <1>4 DEF Handled

\* A position whose identity is kept.
LEMMA Repositioned ==
    ASSUME NEW s \in Stock, NEW q \in Position,
           q.qty = s.pos.qty, q.avg = s.pos.avg, q.cur = s.pos.cur, q.at = s.pos.at,
           q.eod = s.pos.eod, q.app = s.pos.app, q.held => s.pos.held \/ (GapTime /\ s.pos.eod)
    PROVE  Handled(s, [s EXCEPT !.pos = q])
  <1>1. [s EXCEPT !.pos = q] \in Stock
    BY DEF Stock
  <1>2. [s EXCEPT !.pos = q].pos = q
    BY DEF Stock
  <1> QED
    BY <1>1, <1>2 DEF Handled, Stock

LEMMA sellHandled ==
    ASSUME NEW s \in Stock, Owned(s), NEW kind \in {"sale", "part"}, Now \in Stamp
    PROVE  /\ Handled(s, sell(s, kind)) /\ sell(s, kind).pos = s.pos
           /\ sell(s, kind).lossAt = s.lossAt
           /\ Working(sell(s, kind))
           /\ ~Working(s) => sell(s, kind).order = kind
  <1>1. CASE Working(s)
    BY <1>1, HandledSame DEF sell, Working
  <1>2. CASE ~Working(s)
    <2>1. sell(s, kind) = [s EXCEPT !.order = kind]
      BY <1>2 DEF sell
    <2>2. sell(s, kind) \in Stock
      BY <2>1 DEF Stock
    <2>3. sell(s, kind).order = kind /\ sell(s, kind).lossAt = s.lossAt
          /\ sell(s, kind).pos = s.pos /\ sell(s, kind).meta = s.meta
          /\ sell(s, kind).forced = s.forced
      BY <2>1 DEF Stock
    <2>4. Working(sell(s, kind))
      BY <2>3 DEF Working
    <2> QED
      BY <1>2, <2>2, <2>3, <2>4 DEF Handled
  <1> QED
    BY <1>1, <1>2

LEMMA force_exitHandled ==
    ASSUME NEW s \in Stock, Now \in Stamp
    PROVE  /\ Handled(s, force_exit(s)) /\ force_exit(s).pos = s.pos
           /\ force_exit(s).lossAt = s.lossAt
  <1>1. CASE ~Owned(s)
    BY <1>1, HandledSame DEF force_exit
  <1>2. CASE Owned(s)
    <2> DEFINE t == sell(s, "sale")
    <2>1. t \in Stock /\ Handled(s, t) /\ t.pos = s.pos /\ t.lossAt = s.lossAt /\ Working(t)
      BY <1>2, sellHandled DEF Handled
    <2> HIDE DEF t
    <2>2. [t EXCEPT !.barred = TRUE, !.forced = TRUE] \in Stock
      BY <2>1 DEF Stock
    <2>3. Handled(t, [t EXCEPT !.barred = TRUE, !.forced = TRUE])
          /\ [t EXCEPT !.barred = TRUE, !.forced = TRUE].pos = s.pos
          /\ [t EXCEPT !.barred = TRUE, !.forced = TRUE].lossAt = s.lossAt
      BY <2>1, <2>2 DEF Handled, Stock, Working
    <2>4. force_exit(s) = s \/ force_exit(s) = [t EXCEPT !.barred = TRUE, !.forced = TRUE]
      BY DEF force_exit, t
    <2>5. Handled(s, [t EXCEPT !.barred = TRUE, !.forced = TRUE])
      BY <2>1, <2>3, HandledTwice
    <2> QED
      BY <2>3, <2>4, <2>5, HandledSame
  <1> QED
    BY <1>1, <1>2

LEMMA mark_stop_lossHandled ==
    ASSUME NEW s \in Stock
    PROVE  /\ Handled(s, mark_stop_loss(s)) /\ mark_stop_loss(s).pos = s.pos
           /\ mark_stop_loss(s).order = s.order
  <1>1. mark_stop_loss(s) \in Stock
    BY DEF mark_stop_loss, Stock
  <1> QED
    BY <1>1 DEF mark_stop_loss, Handled, Stock

LEMMA mark_loss_exitHandled ==
    ASSUME NEW s \in Stock, Now \in Stamp
    PROVE  /\ Handled(s, mark_loss_exit(s)) /\ mark_loss_exit(s).pos = s.pos
           /\ mark_loss_exit(s).order = s.order
           /\ Losing(s.pos) => mark_loss_exit(s).lossAt = Now
  <1>1. CASE Losing(s.pos)
    <2>1. mark_loss_exit(s) = [s EXCEPT !.lossAt = Now]
      BY <1>1 DEF mark_loss_exit
    <2>2. mark_loss_exit(s) \in Stock
      BY <2>1 DEF Stock
    <2> QED
      BY <2>1, <2>2 DEF Handled, Stock
  <1>2. CASE ~Losing(s.pos)
    BY <1>2, HandledSame DEF mark_loss_exit
  <1> QED
    BY <1>1, <1>2

\* A stop: the mark of the loss is of now.
LEMMA StoppedHandled ==
    ASSUME NEW s \in Stock, Now \in Stamp
    PROVE  /\ Handled(s, Stopped(s)) /\ Stopped(s).pos = s.pos
           /\ Losing(s.pos) => Stopped(s).lossAt = Now
  <1> DEFINE t == mark_stop_loss(s)
             u == mark_loss_exit(t)
  <1>1. t \in Stock /\ Handled(s, t) /\ t.pos = s.pos
    BY mark_stop_lossHandled DEF Handled
  <1> HIDE DEF t
  <1>2. u \in Stock /\ Handled(t, u) /\ u.pos = t.pos /\ (Losing(t.pos) => u.lossAt = Now)
    BY <1>1, mark_loss_exitHandled DEF Handled
  <1> HIDE DEF u
  <1>3. Handled(u, force_exit(u)) /\ force_exit(u).pos = u.pos
        /\ force_exit(u).lossAt = u.lossAt
    BY <1>2, force_exitHandled
  <1>4. Stopped(s) = force_exit(u)
    BY DEF Stopped, t, u
  <1>5. Handled(s, force_exit(u))
    BY <1>1, <1>2, <1>3, HandledTwice
  <1> QED
    BY <1>1, <1>2, <1>3, <1>4, <1>5

\* The partial sale of the exit loop.
LEMMA partial_exitHandled ==
    ASSUME NEW s \in Stock, Owned(s), s.order = "none", Now \in Stamp
    PROVE  Handled(s, partial_exit(s)) /\ partial_exit(s).order = "part"
  <1> DEFINE t == sell(s, "part")
  <1>1. t \in Stock /\ Handled(s, t) /\ t.pos = s.pos /\ t.order = "part"
    BY sellHandled DEF Handled, Working
  <1>2. partial_exit(s) = [t EXCEPT !.pos = [t.pos EXCEPT !.partial = TRUE]]
    BY DEF partial_exit
  <1> HIDE DEF t
  <1>3. t.pos \in Position
    BY <1>1 DEF Stock
  <1>4. [t.pos EXCEPT !.partial = TRUE] \in Position
    BY <1>3 DEF Position
  <1>5. Handled(t, [t EXCEPT !.pos = [t.pos EXCEPT !.partial = TRUE]])
    BY <1>1, <1>3, <1>4, Repositioned DEF Position
  <1>6. Handled(s, partial_exit(s))
    BY <1>1, <1>2, <1>5, HandledTwice
  <1>7. partial_exit(s).order = "part"
    BY <1>1, <1>2 DEF Stock
  <1> QED
    BY <1>6, <1>7

\* The peak of a holding changes nothing else.
LEMMA update_stateKept ==
    ASSUME NEW p \in Position, NEW now
    PROVE  LET q == update_state(p, now)
           IN  /\ q \in Position
               /\ q.qty = p.qty /\ q.avg = p.avg /\ q.cur = p.cur /\ q.at = p.at
               /\ q.eod = p.eod /\ q.held = p.held /\ q.app = p.app /\ q.gap = p.gap
  <1>1. [p EXCEPT !.peak = p.cur] \in Position
    BY DEF Position
  <1>2. update_state(p, now) = p \/ update_state(p, now) = [p EXCEPT !.peak = p.cur]
    BY DEF update_state
  <1> QED
    BY <1>1, <1>2 DEF Position

LEMMA TrendedHandled ==
    ASSUME NEW s \in Stock, NEW lv \in 0..3
    PROVE  Handled(s, Trended(s, lv)) /\ Trended(s, lv).order = s.order
  <1> DEFINE q == [s.pos EXCEPT !.prev = s.pos.trend, !.trend = lv]
  <1>1. s.pos \in Position
    BY DEF Stock
  <1>2. q \in Position /\ q.qty = s.pos.qty /\ q.avg = s.pos.avg /\ q.cur = s.pos.cur
        /\ q.at = s.pos.at /\ q.eod = s.pos.eod /\ q.app = s.pos.app
          /\ q.held = s.pos.held
    BY <1>1 DEF Position
  <1>3. Trended(s, lv) = s \/ Trended(s, lv) = [s EXCEPT !.pos = q]
    BY <1>1 DEF Trended, Position, Stock
  <1> HIDE DEF q
  <1>4. Handled(s, [s EXCEPT !.pos = q]) /\ [s EXCEPT !.pos = q].order = s.order
    BY <1>2, Repositioned DEF Stock
  <1> QED
    BY <1>3, <1>4, HandledSame

\* The soft stop leaves the time of the last loss, or marks it now.
LEMMA SoftStopHandled ==
    ASSUME NEW s \in Stock, NEW confirmed \in BOOLEAN, NEW lv \in 0..3, Now \in Stamp
    PROVE  Handled(s, SoftStop(s, confirmed, lv))
  <1>1. CASE s.pos.sl /\ AtMost(s.pos, TickStop)
    <2> DEFINE t == IF confirmed THEN Stopped(s) ELSE s
    <2>1. Handled(s, t) /\ t \in Stock
      BY HandledSame, StoppedHandled DEF Handled
    <2>2. SoftStop(s, confirmed, lv) = Trended(t, lv)
      BY <1>1 DEF SoftStop
    <2> HIDE DEF t
    <2>3. Handled(t, Trended(t, lv))
      BY <2>1, TrendedHandled
    <2> QED
      BY <2>1, <2>2, <2>3, HandledTwice
  <1>2. CASE ~(s.pos.sl /\ AtMost(s.pos, TickStop))
    <2> DEFINE low == AtMost(s.pos, TickStop)
               q   == [s.pos EXCEPT !.sl = low]
    <2>1. low \in BOOLEAN
      BY DEF AtMost
    <2>2. SoftStop(s, confirmed, lv) = Trended([s EXCEPT !.pos = q], lv)
      BY <1>2 DEF SoftStop
    <2> HIDE DEF low
    <2>3. s.pos \in Position
      BY DEF Stock
    <2>4. q \in Position /\ q.qty = s.pos.qty /\ q.avg = s.pos.avg /\ q.cur = s.pos.cur
          /\ q.at = s.pos.at /\ q.eod = s.pos.eod /\ q.app = s.pos.app
          /\ q.held = s.pos.held
      BY <2>1, <2>3 DEF Position
    <2> HIDE DEF q
    <2>5. Handled(s, [s EXCEPT !.pos = q])
      BY <2>4, Repositioned
    <2>6. Handled([s EXCEPT !.pos = q], Trended([s EXCEPT !.pos = q], lv))
      BY <2>5, TrendedHandled DEF Handled
    <2> QED
      BY <2>2, <2>5, <2>6, HandledTwice
  <1> QED
    BY <1>1, <1>2

-----------------------------------------------------------------------------
(* Verdicts *)

\* No target lies below the price that was paid.
TargetsAbove ==
    /\ Cfg.takeProfit >= 0 /\ Cfg.climaxMin >= 0
    /\ \A k \in 1..3 : Cfg.gapProfit[k] >= 0

\* However it was bought, the hard stop does not lie below DeepLoss.
ShallowStops ==
    /\ Cfg.earlyRelax >= 0 /\ Cfg.hardStop - Cfg.earlyRelax >= DeepLoss
    /\ \A k \in 1..3 : (Cfg.gapStop[k] * 3) \div 2 - Cfg.earlyRelax >= DeepLoss

LEMMA CfgNumbers ==
    /\ Cfg.takeProfit \in Int /\ Cfg.climaxMin \in Int /\ Cfg.earlyRelax \in Int
    /\ Cfg.hardStop \in Int /\ Cfg.openingHardStop \in Int
    /\ \A k \in 1..3 : Cfg.gapStop[k] \in Int /\ Cfg.gapProfit[k] \in Int
  BY CfgAssumption

LEMMA Scaled == ASSUME NEW a \in Int, NEW b \in Int, NEW n \in Nat, a <= b PROVE a * n <= b * n
  OBVIOUS

LEMMA Prices0 == ASSUME NEW p \in Position PROVE p.cur \in Nat /\ p.avg \in Nat
  <1>1. Prices \cup {0} \subseteq Nat
    BY ConstantsAssumption
  <1>2. p.cur \in Prices \cup {0} /\ p.avg \in Prices \cup {0}
    BY DEF Position
  <1> QED
    BY <1>1, <1>2

LEMMA Tiers == ASSUME NEW p PROVE GapTier(p) \in 0..3
  BY DEF GapTier

\* The first of some rules is one of them, and no other comes before it.
LEMMA FirstRule ==
    ASSUME NEW S \in SUBSET (1..11), S # {}
    PROVE  First(S) \in S /\ \A j \in S : First(S) <= j
  <1>1. \E i \in S : \A j \in S : i <= j
    <2> DEFINE Least(i) == i \in S /\ \A j \in S : i <= j
    <2>1. ASSUME NEW n \in 0..11, S \cap 1..n = {}, n # 11, ~Least(n + 1)
          PROVE  S \cap 1..(n + 1) = {}
      BY <2>1
    <2>2. S \cap 1..0 = {}
      OBVIOUS
    <2>3. S \cap 1..3 = {} \/ \E i \in S : Least(i)
      BY <2>1, <2>2
    <2>4. S \cap 1..6 = {} \/ \E i \in S : Least(i)
      BY <2>1, <2>3
    <2>5. S \cap 1..9 = {} \/ \E i \in S : Least(i)
      BY <2>1, <2>4
    <2>6. S \cap 1..11 = {} \/ \E i \in S : Least(i)
      BY <2>1, <2>5
    <2> QED
      BY <2>6
  <1> QED
    BY <1>1 DEF First

LEMMA OrderRules == DOMAIN Order = 1..11 /\ Order[1] = "hard stop"
  BY DEF Order

\* A verdict is a rule that fires.
LEMMA Verdicts ==
    ASSUME NEW p, NEW now, NEW facts
    PROVE  LET v == should_exit(p, now, facts)
           IN  v = "hold" \/ (Fires(v, p, now, facts) /\ \E i \in 1..11 : v = Order[i])
  <1> DEFINE firing == {i \in DOMAIN Order : Fires(Order[i], p, now, facts)}
  <1>1. CASE firing = {}
    BY <1>1 DEF should_exit
  <1>2. CASE firing # {}
    <2>1. First(firing) \in firing
      BY <1>2, OrderRules, FirstRule
    <2>2. should_exit(p, now, facts) = Order[First(firing)]
      BY <1>2 DEF should_exit
    <2> QED
      BY <2>1, <2>2, OrderRules
  <1> QED
    BY <1>1, <1>2

\* A rule that sells what has lost bars its code for the day.
LEMMA LosersBarred ==
    ASSUME TargetsAbove, NEW p \in Position, NEW now, NEW facts,
           Losing(p), Sells(should_exit(p, now, facts))
    PROVE  IsLossExit(should_exit(p, now, facts), p)
  <1> DEFINE v == should_exit(p, now, facts)
  <1>1. Fires(v, p, now, facts) /\ \E i \in 1..11 : v = Order[i]
    BY Verdicts DEF Sells
  <1>2. v \in {"hard stop", "trail", "take profit", "support", "stop loss", "time cut",
               "breakeven", "ema20", "trend decay", "climax", "distribution"}
    BY <1>1 DEF Fires
  <1> HIDE DEF v
  <1>3. p.cur \in Nat /\ p.avg \in Nat /\ p.cur < p.avg
    BY Prices0 DEF Losing
  <1>4. ASSUME NEW pct \in Int, pct >= 0 PROVE ~AtLeast(p, pct)
    <2>1. 0 * p.avg <= pct * p.avg
      BY <1>3, <1>4, Scaled
    <2> QED
      BY <1>3, <2>1 DEF AtLeast
  <1>5. v # "climax"
    <2>1. ~AtLeast(p, Cfg.climaxMin)
      BY <1>4, CfgNumbers DEF TargetsAbove
    <2> QED
      BY <1>1, <2>1 DEF Fires
  <1>6. v # "take profit"
    <2>1. TakeProfit(p) \in Int /\ TakeProfit(p) >= 0
      BY CfgNumbers, Tiers DEF TakeProfit, TargetsAbove
    <2>2. ~AtLeast(p, TakeProfit(p))
      BY <1>4, <2>1
    <2> QED
      BY <1>1, <2>2 DEF Fires
  <1>7. v # "support"
    BY DEF Sells, v
  <1>8. IsLossExit(v, p)
    BY <1>2, <1>5, <1>6, <1>7, Losing(p) DEF IsLossExit, LossReasons
  <1> QED
    BY <1>8 DEF v

\* A deep loss is below the hard stop, whatever relaxes or widens it.
LEMMA DeepBelowStop ==
    ASSUME ShallowStops, NEW p \in Position, NEW now, AtMost(p, DeepLoss)
    PROVE  AtMost(p, HardStop(p, now))
  <1>1. Relax(p, now) \in Int /\ Relax(p, now) <= Cfg.earlyRelax
    BY CfgNumbers DEF Relax, ShallowStops
  <1>2. HardStop(p, now) \in Int /\ HardStop(p, now) >= DeepLoss
    <2> DEFINE tier == GapTier(p)
    <2>1. tier \in 0..3
      BY Tiers
    <2> HIDE DEF tier
    <2>2. CASE tier > 0
      <3> DEFINE wide == (Cfg.gapStop[tier] * 3) \div 2
      <3>1. wide \in Int /\ wide - Cfg.earlyRelax >= DeepLoss
        BY <2>1, <2>2, CfgNumbers DEF ShallowStops
      <3>2. HardStop(p, now) = Lower(Cfg.hardStop, wide) - Relax(p, now)
        BY <2>2 DEF HardStop, tier
      <3> HIDE DEF wide
      <3> QED
        BY <1>1, <3>1, <3>2, CfgNumbers DEF Lower, ShallowStops, DeepLoss
    <2>3. CASE ~(tier > 0)
      <3>1. \/ HardStop(p, now) = Higher(Cfg.hardStop, Cfg.openingHardStop) - Relax(p, now)
            \/ HardStop(p, now) = Cfg.hardStop - Relax(p, now)
        BY <2>3 DEF HardStop, tier
      <3> QED
        BY <1>1, <3>1, CfgNumbers DEF Higher, ShallowStops, DeepLoss
    <2> QED
      BY <2>2, <2>3
  <1>3. p.cur \in Nat /\ p.avg \in Nat
    BY Prices0
  <1>4. DeepLoss * p.avg <= HardStop(p, now) * p.avg
    BY <1>2, <1>3, Scaled DEF DeepLoss
  <1> QED
    BY <1>2, <1>3, <1>4 DEF AtMost, DeepLoss

LEMMA DeepSells ==
    ASSUME ShallowStops, NEW p \in Position, NEW now, NEW facts, AtMost(p, DeepLoss)
    PROVE  should_exit(p, now, facts) = "hard stop"
  <1> DEFINE firing == {i \in DOMAIN Order : Fires(Order[i], p, now, facts)}
  <1>1. Fires("hard stop", p, now, facts)
    BY DeepBelowStop DEF Fires
  <1>2. 1 \in firing
    <2>1. Fires(Order[1], p, now, facts)
      BY ONLY <1>1, OrderRules
    <2>2. 1 \in DOMAIN Order
      <3>1. 1 \in 1..11
        OBVIOUS
      <3> QED
        BY <3>1, OrderRules, Zenon
    <2> QED
      BY <2>1, <2>2, Zenon
  <1>3. firing \in SUBSET (1..11)
    BY OrderRules
  <1>4. should_exit(p, now, facts) = Order[First(firing)]
    BY <1>2 DEF should_exit
  <1> HIDE DEF firing
  <1>5. First(firing) = 1
    <2>1. firing # {}
      BY <1>2
    <2>2. First(firing) \in firing /\ \A j \in firing : First(firing) <= j
      BY <1>3, <2>1, FirstRule
    <2>3. First(firing) <= 1
      BY <1>2, <2>2
    <2>4. First(firing) \in 1..11
      BY <1>3, <2>2
    <2> QED
      BY <2>3, <2>4
  <1> QED
    BY <1>4, <1>5, OrderRules
-----------------------------------------------------------------------------
(* The exit loop, and a tick *)

LEMMA ExitedHandled ==
    ASSUME NEW s \in Stock, Owned(s), s.order = "none", NEW v, Now \in Stamp
    PROVE  /\ Handled(s, Exited(s, v)) /\ Exited(s, v).order = "sale"
           /\ Exited(s, v).pos = s.pos
           /\ IsLossExit(v, s.pos) /\ Losing(s.pos) => Exited(s, v).lossAt = Now
  <1> DEFINE m == mark_stop_loss(s)
             marked == IF IsLossExit(v, s.pos) THEN mark_loss_exit(m) ELSE s
             t == sell(marked, "sale")
  <1>1. m \in Stock /\ Handled(s, m) /\ m.pos = s.pos /\ m.order = s.order
    BY mark_stop_lossHandled DEF Handled
  <1>2. Exited(s, v) = [t EXCEPT !.barred = TRUE]
    BY DEF Exited
  <1> HIDE DEF m
  <1>3. mark_loss_exit(m) \in Stock /\ Handled(m, mark_loss_exit(m))
        /\ mark_loss_exit(m).pos = m.pos /\ mark_loss_exit(m).order = m.order
        /\ (Losing(m.pos) => mark_loss_exit(m).lossAt = Now)
    BY <1>1, mark_loss_exitHandled DEF Handled
  <1>4. Handled(s, mark_loss_exit(m))
    BY <1>1, <1>3, HandledTwice
  <1>5. marked \in Stock /\ Handled(s, marked) /\ marked.pos = s.pos /\ marked.order = "none"
        /\ (IsLossExit(v, s.pos) /\ Losing(s.pos) => marked.lossAt = Now)
    BY <1>1, <1>3, <1>4, HandledSame
  <1> HIDE DEF marked
  <1>6. t \in Stock /\ Handled(marked, t) /\ t.pos = s.pos /\ t.order = "sale"
        /\ t.lossAt = marked.lossAt
    BY <1>5, sellHandled DEF Handled, Working, Owned
  <1>7. Handled(s, t)
    BY <1>5, <1>6, HandledTwice
  <1> HIDE DEF t
  <1>8. [t EXCEPT !.barred = TRUE] \in Stock
    BY <1>6 DEF Stock
  <1>9. Handled(t, [t EXCEPT !.barred = TRUE])
        /\ [t EXCEPT !.barred = TRUE].order = "sale" /\ [t EXCEPT !.barred = TRUE].pos = t.pos
        /\ [t EXCEPT !.barred = TRUE].lossAt = t.lossAt
    BY <1>6, <1>8 DEF Handled, Stock
  <1> QED
    BY <1>2, <1>5, <1>6, <1>7, <1>9, HandledTwice

\* What the exit loop does to a stock; what it sells at a loss is marked now, and
\* what has lost deeply is sold.
LEMMA ExitOfHandled ==
    ASSUME NEW s \in Stock, NEW facts, Now \in Stamp
    PROVE  LET t == ExitOf(s, facts)
           IN  /\ Handled(s, t)
               /\ TargetsAbove /\ s.order # "sale" /\ t.order = "sale" /\ Losing(t.pos)
                    => t.lossAt = Now
               /\ ShallowStops /\ Managed(s) /\ s.order = "none" /\ AtMost(s.pos, DeepLoss)
                    => t.order = "sale"
  <1>1. CASE ~Managed(s) \/ s.order # "none"
    <2>1. ExitOf(s, facts) = s
      BY <1>1 DEF ExitOf
    <2> QED
      BY <1>1, <2>1, HandledSame
  <1>2. CASE Managed(s) /\ s.order = "none"
    <2> DEFINE q == update_state(s.pos, Now)
               t == [s EXCEPT !.pos = q]
               v == should_exit(q, Now, facts)
    <2>1. s.pos \in Position
      BY DEF Stock
    <2>2. q \in Position /\ q.qty = s.pos.qty /\ q.avg = s.pos.avg /\ q.cur = s.pos.cur
          /\ q.at = s.pos.at /\ q.eod = s.pos.eod /\ q.app = s.pos.app /\ q.held = s.pos.held
      BY <2>1, update_stateKept
    <2> HIDE DEF q
    <2>3. t \in Stock /\ Handled(s, t) /\ t.pos = q /\ t.order = "none" /\ Owned(t)
      BY <1>2, <2>2, Repositioned DEF Handled, Stock, Managed, Owned
    <2>4. ExitOf(s, facts) = IF Sells(v) THEN Exited(t, v)
                             ELSE IF should_partial_exit(t.pos) THEN partial_exit(t) ELSE t
      BY <1>2, <2>3 DEF ExitOf, q
    <2> HIDE DEF t
    <2>5. CASE Sells(v)
      <3>1. Handled(t, Exited(t, v)) /\ Exited(t, v).order = "sale" /\ Exited(t, v).pos = q
            /\ (IsLossExit(v, q) /\ Losing(q) => Exited(t, v).lossAt = Now)
        BY <2>3, ExitedHandled
      <3>2. Handled(s, Exited(t, v))
        BY <2>3, <3>1, HandledTwice
      <3>3. TargetsAbove /\ Losing(q) => IsLossExit(v, q)
        BY <2>2, <2>5, LosersBarred
      <3> QED
        BY <2>4, <2>5, <3>1, <3>2, <3>3
    <2>6. CASE ~Sells(v)
      <3> DEFINE x == IF should_partial_exit(t.pos) THEN partial_exit(t) ELSE t
      <3>1. Handled(t, x) /\ x.order # "sale"
        BY <2>3, partial_exitHandled, HandledSame
      <3>2. Handled(s, x)
        BY <2>3, <3>1, HandledTwice
      <3>3. ~(ShallowStops /\ AtMost(s.pos, DeepLoss))
        <4>1. AtMost(s.pos, DeepLoss) => AtMost(q, DeepLoss)
          BY <2>2 DEF AtMost
        <4>2. ShallowStops /\ AtMost(q, DeepLoss) => v = "hard stop"
          BY <2>2, DeepSells
        <4> QED
          BY <2>6, <4>1, <4>2 DEF Sells
      <3>4. ExitOf(s, facts) = x
        BY <2>4, <2>6
      <3> HIDE DEF x
      <3> QED
        BY <3>1, <3>2, <3>3, <3>4
    <2> QED
      BY <2>5, <2>6
  <1> QED
    BY <1>1, <1>2

\* A tick: the new price, then what the handlers do; what it sells at the hard
\* stop at a loss is marked now.
LEMMA TickedHandled ==
    ASSUME NEW s \in Stock, NEW p \in Prices, NEW lv \in 0..3, NEW confirmed \in BOOLEAN,
           NEW grace \in BOOLEAN, Now \in Stamp
    PROVE  LET t == Ticked(s, p, lv, confirmed, grace)
           IN  /\ ~Owned(s) => t = s
               /\ Owned(s) => Handled([s EXCEPT !.pos.cur = p], t)
               /\ s.order # "sale" /\ t.order = "sale" /\ AtMost(t.pos, TickHard)
                    /\ Losing(t.pos) => t.lossAt = Now
  <1> DEFINE x == Ticked(s, p, lv, confirmed, grace)
             t == [s EXCEPT !.pos.cur = p]
             u == [t EXCEPT !.pos.peak = Higher(@, p)]
             trail == get_trail_price(u.pos, "morning")
             falls == \/ trail > 0 /\ p <= trail
                      \/ s.pos.partial /\ ~grace /\ AtMost(u.pos, Cfg.breakeven)
             q == [s.pos EXCEPT !.cur = p]
             r == [q EXCEPT !.peak = Higher(@, p)]
  <1>1. x = IF ~Owned(s) THEN s
            ELSE IF s.stopped THEN t
            ELSE IF AtMost(t.pos, TickHard) THEN Stopped(t)
            ELSE IF falls THEN force_exit(u) ELSE SoftStop(u, confirmed, lv)
    BY DEF Ticked
  <1>2. s.pos \in Position /\ p \in Prices \cup {0}
    BY DEF Stock
  <1>3. q \in Position
    BY <1>2 DEF Position
  <1>4. t \in Stock /\ t.pos = q /\ t.order = s.order /\ t.stopped = s.stopped
    BY <1>3 DEF Stock
  <1>5. r \in Position /\ r.qty = q.qty /\ r.avg = q.avg /\ r.cur = q.cur /\ r.at = q.at
        /\ r.eod = q.eod /\ r.app = q.app /\ r.held = q.held
    BY <1>2, <1>3 DEF Position, Higher
  <1>6. u = [t EXCEPT !.pos = r]
    BY <1>4 DEF Stock
  <1> HIDE DEF x, q, r, t, u, falls
  <1>7. Handled(t, u) /\ u \in Stock /\ u.order = t.order
    BY <1>4, <1>5, <1>6, Repositioned DEF Handled, Stock
  <1>8. CASE ~Owned(s) \/ s.stopped
    <2>1. (~Owned(s) => x = s) /\ (Owned(s) => x = t)
      BY <1>1, <1>8
    <2> QED
      BY <1>4, <2>1, HandledSame DEF x, t
  <1>9. CASE Owned(s) /\ ~s.stopped /\ AtMost(q, TickHard)
    <2>1. x = Stopped(t)
      BY <1>1, <1>4, <1>9
    <2>2. Handled(t, x) /\ x.pos = q /\ (Losing(q) => x.lossAt = Now)
      BY <1>4, <2>1, StoppedHandled
    <2> QED
      BY <1>9, <2>2 DEF x, t
  <1>10. CASE Owned(s) /\ ~s.stopped /\ ~AtMost(q, TickHard)
    <2>1. x = force_exit(u) \/ x = SoftStop(u, confirmed, lv)
      BY <1>1, <1>4, <1>10
    <2>2. Handled(u, x)
      BY <1>7, <2>1, force_exitHandled, SoftStopHandled
    <2>3. Handled(t, x)
      BY <1>7, <2>2, HandledTwice
    <2>4. x.pos.cur = q.cur /\ x.pos.avg = q.avg
      BY <1>4, <2>3 DEF Handled
    <2>5. ~AtMost(x.pos, TickHard)
      BY <1>10, <2>4 DEF AtMost
    <2> QED
      BY <1>10, <2>3, <2>5 DEF x, t
  <1> QED
    BY <1>8, <1>9, <1>10
-----------------------------------------------------------------------------
(* The minute timer *)

LEMMA GapHandled ==
    ASSUME NEW s \in Stock, Now \in Stamp, GapTime
    PROVE  Handled(s, check_overnight_gap(s))
  <1>1. Handled(s, s) /\ Handled(s, force_exit(s))
    BY HandledSame, force_exitHandled
  <1>2. Handled(s, force_exit(mark_stop_loss(s)))
    <2>1. mark_stop_loss(s) \in Stock /\ Handled(s, mark_stop_loss(s))
      BY mark_stop_lossHandled DEF Handled
    <2> QED
      BY <2>1, force_exitHandled, HandledTwice
  <1>3. s.pos.eod => Handled(s, [s EXCEPT !.pos.held = TRUE])
    <2> DEFINE q == [s.pos EXCEPT !.held = TRUE]
    <2>1. s.pos \in Position
      BY DEF Stock
    <2>2. q \in Position /\ q.qty = s.pos.qty /\ q.avg = s.pos.avg /\ q.cur = s.pos.cur
          /\ q.at = s.pos.at /\ q.eod = s.pos.eod /\ q.app = s.pos.app
      BY <2>1 DEF Position
    <2>3. [s EXCEPT !.pos.held = TRUE] = [s EXCEPT !.pos = q]
      OBVIOUS
    <2> HIDE DEF q
    <2> QED
      BY <2>2, <2>3, Repositioned
  <1>4. \/ check_overnight_gap(s) = s
        \/ check_overnight_gap(s) = force_exit(s)
        \/ check_overnight_gap(s) = force_exit(mark_stop_loss(s))
        \/ s.pos.eod /\ check_overnight_gap(s) = [s EXCEPT !.pos.held = TRUE]
    BY DEF check_overnight_gap
  <1> QED
    BY <1>1, <1>2, <1>3, <1>4

LEMMA TimecutHandled ==
    ASSUME NEW s \in Stock, Now \in Stamp
    PROVE  Handled(s, check_overnight_timecut(s))
  BY HandledSame, force_exitHandled DEF check_overnight_timecut

LEMMA TargetsHandled ==
    ASSUME NEW s \in Stock, Now \in Stamp
    PROVE  Handled(s, check_eod_daytime_targets(s))
  <1>1. Handled(s, s) /\ Handled(s, force_exit(s))
    BY HandledSame, force_exitHandled
  <1>2. Handled(s, force_exit(mark_stop_loss(s)))
    <2>1. mark_stop_loss(s) \in Stock /\ Handled(s, mark_stop_loss(s))
      BY mark_stop_lossHandled DEF Handled
    <2> QED
      BY <2>1, force_exitHandled, HandledTwice
  <1>3. CASE ~Owned(s)
    BY <1>1, <1>3 DEF check_eod_daytime_targets
  <1>4. CASE Owned(s)
    <2> DEFINE t == sell(s, "part")
               q == [t.pos EXCEPT !.taken = TRUE]
    <2>1. t \in Stock /\ Handled(s, t)
      BY <1>4, sellHandled DEF Handled
    <2>2. \/ check_eod_daytime_targets(s) = s
          \/ check_eod_daytime_targets(s) = force_exit(s)
          \/ check_eod_daytime_targets(s) = force_exit(mark_stop_loss(s))
          \/ check_eod_daytime_targets(s) = [t EXCEPT !.pos.taken = TRUE]
      BY DEF check_eod_daytime_targets
    <2>3. [t EXCEPT !.pos.taken = TRUE] = [t EXCEPT !.pos = q]
      OBVIOUS
    <2> HIDE DEF t
    <2>4. t.pos \in Position
      BY <2>1 DEF Stock
    <2>5. q \in Position /\ q.qty = t.pos.qty /\ q.avg = t.pos.avg /\ q.cur = t.pos.cur
          /\ q.at = t.pos.at /\ q.eod = t.pos.eod /\ q.app = t.pos.app /\ q.held = t.pos.held
      BY <2>4 DEF Position
    <2> HIDE DEF q
    <2>6. Handled(t, [t EXCEPT !.pos = q])
      BY <2>1, <2>5, Repositioned
    <2>7. Handled(s, [t EXCEPT !.pos = q])
      BY <2>1, <2>6, HandledTwice
    <2> QED
      BY <1>1, <1>2, <2>2, <2>3, <2>7
  <1> QED
    BY <1>3, <1>4

LEMMA LiquidateHandled ==
    ASSUME NEW s \in Stock, Now \in Stamp
    PROVE  /\ Handled(s, liquidate_all_positions(s))
           /\ Managed(s) /\ ~s.pos.eod /\ ~Working(s)
                => liquidate_all_positions(s).order = "sale"
  BY HandledSame, sellHandled DEF liquidate_all_positions, Managed

\* A handler that goes through the whole book.
BookHandled(b, r) == r \in [Codes -> Stock] /\ \A c \in Codes : Handled(b[c], r[c])

LEMMA BookSame == ASSUME NEW b \in [Codes -> Stock] PROVE BookHandled(b, b)
  BY HandledSame DEF BookHandled

LEMMA BookTwice ==
    ASSUME NEW b, NEW q, NEW r, BookHandled(b, q), BookHandled(q, r)
    PROVE  BookHandled(b, r)
  BY HandledTwice DEF BookHandled

LEMMA ExitAllHandled ==
    ASSUME NEW b \in [Codes -> Stock], NEW facts, Now \in Stamp
    PROVE  BookHandled(b, check_and_exit_all(b, facts))
  <1>1. ASSUME NEW c \in Codes PROVE Handled(b[c], ExitOf(b[c], facts[c]))
    BY ExitOfHandled
  <1>2. \A c \in Codes : ExitOf(b[c], facts[c]) \in Stock
    BY <1>1 DEF Handled
  <1>3. BookHandled(b, [c \in Codes |-> ExitOf(b[c], facts[c])])
    BY <1>1, <1>2 DEF BookHandled
  <1> QED
    BY <1>3, BookSame DEF check_and_exit_all
LEMMA DueJobs ==
    /\ "gap check" \in Due => GapTime
    /\ "closing" \in Due <=> "closing" \notin done /\ Time = 920
  <1>1. /\ "gap check" # "night mode" /\ "gap check" # "closing" /\ "closing" # "night mode"
        /\ "closing" \in Jobs
    BY DEF Jobs
  <1>2. "gap check" \in Due => GapTime
    BY <1>1 DEF Due
  <1>3. "closing" \in Due <=> "closing" \in Jobs \ done /\ Time = 920
    BY <1>1 DEF Due
  <1> QED
    BY ZenonT(30), <1>1, <1>2, <1>3

\* What the timer does to the book: at the close it sells the day trades, and at
\* 09:30 it cuts what is held before it looks at the targets of the rest.
LEMMA ScheduledHandled ==
    ASSUME book \in [Codes -> Stock], NEW facts, Now \in Stamp, Time \in Nat
    PROVE  /\ BookHandled(book, Scheduled(facts))
           /\ "closing" \in Due =>
                \A c \in Codes : Managed(book[c]) /\ ~book[c].pos.eod /\ ~Working(book[c])
                                   => Scheduled(facts)[c].order = "sale"
           /\ Time = 570 =>
                Scheduled(facts) =
                  [c \in Codes |-> check_eod_daytime_targets(check_overnight_timecut(book[c]))]
  <1> DEFINE gaps   == Each(check_overnight_gap, book, "gap check" \in Due)
             cut    == Each(check_overnight_timecut, gaps, Time = 570)
             phase1 == IF Time = 630 THEN check_and_exit_all(cut, facts) ELSE cut
             eod    == Each(check_eod_daytime_targets, phase1, Time \in 540..918)
             trail  == IF Time \in 631..914 THEN check_and_exit_all(eod, facts) ELSE eod
             closed == Each(liquidate_all_positions, trail, "closing" \in Due)
             end    == IF "closing" \in Due THEN check_and_exit_all(closed, facts) ELSE closed
  <1>1. Scheduled(facts) = end
    BY DEF Scheduled
  <1>2. gaps = (IF "gap check" \in Due THEN [c \in Codes |-> check_overnight_gap(book[c])] ELSE book)
    BY DEF Each
  <1>3. cut = (IF Time = 570 THEN [c \in Codes |-> check_overnight_timecut(gaps[c])] ELSE gaps)
    BY DEF Each
  <1>4. eod = (IF Time \in 540..918 THEN [c \in Codes |-> check_eod_daytime_targets(phase1[c])]
                                    ELSE phase1)
    BY DEF Each
  <1>5. closed = (IF "closing" \in Due THEN [c \in Codes |-> liquidate_all_positions(trail[c])]
                                       ELSE trail)
    BY DEF Each
  <1> HIDE DEF gaps
  <1>6. gaps \in [Codes -> Stock] /\ BookHandled(book, gaps)
    <2>1. CASE "gap check" \in Due
      <3>1. \A c \in Codes : Handled(book[c], check_overnight_gap(book[c]))
        <4>1. GapTime
          BY <2>1, DueJobs
        <4> QED
          BY <4>1, GapHandled
      <3> QED
        BY <1>2, <2>1, <3>1 DEF BookHandled, Handled
    <2>2. CASE "gap check" \notin Due
      BY <1>2, <2>2, BookSame
    <2> QED
      BY <2>1, <2>2
  <1> HIDE DEF cut
  <1>7. cut \in [Codes -> Stock] /\ BookHandled(gaps, cut)
    BY <1>3, <1>6, BookSame, TimecutHandled DEF BookHandled, Handled
  <1>8. phase1 \in [Codes -> Stock] /\ BookHandled(cut, phase1)
    BY <1>7, BookSame, ExitAllHandled DEF BookHandled
  <1>9. Time = 570 => phase1 = cut
    OBVIOUS
  <1> HIDE DEF phase1, eod
  <1>10. eod \in [Codes -> Stock] /\ BookHandled(phase1, eod)
    BY <1>4, <1>8, BookSame, TargetsHandled DEF BookHandled, Handled
  <1>11. trail \in [Codes -> Stock] /\ BookHandled(eod, trail)
    BY <1>10, BookSame, ExitAllHandled DEF BookHandled
  <1>12. Time \in {570, 920} => trail = eod
    OBVIOUS
  <1> HIDE DEF trail, closed
  <1>13. closed \in [Codes -> Stock] /\ BookHandled(trail, closed)
    BY <1>5, <1>11, BookSame, LiquidateHandled DEF BookHandled, Handled
  <1>14. end \in [Codes -> Stock] /\ BookHandled(closed, end)
    BY <1>13, BookSame, ExitAllHandled DEF BookHandled
  <1>15. "closing" \notin Due => end = closed
    OBVIOUS
  <1> HIDE DEF end
  <1>16. BookHandled(book, Scheduled(facts))
    BY <1>1, <1>6, <1>7, <1>8, <1>10, <1>11, <1>13, <1>14, BookTwice
  <1>17. ASSUME "closing" \in Due, NEW c \in Codes, Managed(book[c]), ~book[c].pos.eod,
                ~Working(book[c])
         PROVE  Scheduled(facts)[c].order = "sale"
    <2>1. Time = 920
      BY <1>17, DueJobs
    <2>2. trail = book
      <3>1. ~GapTime /\ Time \notin 540..918 /\ Time # 570 /\ Time # 630
        BY <2>1 DEF GapTime
      <3>2. gaps = book
        BY ZenonT(30), <1>2, <3>1, DueJobs
      <3>3. phase1 = cut /\ cut = gaps
        BY <1>3, <3>1 DEF phase1
      <3>4. eod = phase1 /\ trail = eod
        BY <1>4, <1>12, <2>1, <3>1
      <3> QED
        BY <3>2, <3>3, <3>4
    <2>3. closed[c] = liquidate_all_positions(book[c])
      BY <1>5, <1>17, <2>2
    <2>4. closed[c].order = "sale"
      BY <1>17, <2>3, LiquidateHandled
    <2>5. end[c].order = "sale"
      BY <1>14, <2>4 DEF BookHandled, Handled, Working
    <2> QED
      BY <1>1, <2>5
  <1>18. ASSUME Time = 570
         PROVE  Scheduled(facts) =
                  [c \in Codes |-> check_eod_daytime_targets(check_overnight_timecut(book[c]))]
    <2>1. "gap check" \notin Due /\ "closing" \notin Due
      <3>1. ~GapTime /\ Time # 920
        BY <1>18 DEF GapTime
      <3> QED
        BY <3>1, DueJobs
    <2>2. gaps = book /\ phase1 = [c \in Codes |-> check_overnight_timecut(book[c])]
      BY <1>2, <1>3, <1>9, <1>18, <2>1
    <2>3. eod = [c \in Codes |-> check_eod_daytime_targets(phase1[c])]
      BY <1>4, <1>18
    <2>4. \A c \in Codes : phase1[c] = check_overnight_timecut(book[c])
      BY <2>2
    <2>5. eod = [c \in Codes |-> check_eod_daytime_targets(check_overnight_timecut(book[c]))]
      BY <2>3, <2>4
    <2>6. Scheduled(facts) = eod
      BY <1>1, <1>5, <1>12, <1>15, <1>18, <2>1
    <2> QED
      BY <2>5, <2>6
  <1> QED
    BY <1>16, <1>17, <1>18
-----------------------------------------------------------------------------
(* The inductive invariant *)

\* A stop of today is marked in memory, and every mark of today is on disk.
Marked(c) ==
    /\ lostOn[c] <= day /\ Day(book[c].lossAt) <= day
    /\ lostOn[c] = day => book[c].lossAt # 0 /\ Day(book[c].lossAt) = day

StopsMarked == \A c \in Codes : Marked(c)

MarksSaved ==
    /\ lossFile.date <= day
    /\ \A c \in Codes :
          /\ book[c].lossAt # 0 /\ Day(book[c].lossAt) = day => lossFile.date = day
          /\ lossFile.date = day => lossFile.entries[c] = book[c].lossAt

Remembered == StopsMarked /\ MarksSaved

\* An overnight order is sent, and so executed, in the window of its strategy,
\* and a holding kept over the gap is one of an earlier day.
Late(s) ==
    /\ s.order = "buy" => ~s.meta.held
    /\ s.order = "buy" /\ s.meta.eod => EodStart <= Time
    /\ s.pos.eod => EodStart <= Minute(s.pos.at)
    /\ s.pos.at <= Now
    /\ s.pos.held => Day(s.pos.at) < day

BoughtLate == \A c \in Codes : Late(book[c])

\* Only what is being sold, or was sold in part, is on the list of forced sales.
Unforced(s) == s.order \in {"none", "buy"} => ~s.forced

ForcedWorks == \A c \in Codes : Unforced(book[c])

Closed == Time > 920 \/ (Time = 920 /\ fired)

\* Bought after 15:20, or left by a sale that ended after the closing of day n.
Excused(s, n) == Minute(s.pos.at) >= 920 \/ n >= Day(s.pos.at)

\* After the close a day trade of before 15:20 waits for the end of its sale.
ClosingOrder(s, n) ==
    Managed(s) /\ ~s.pos.eod =>
      /\ Day(s.pos.at) <= day
      /\ Day(s.pos.at) < day => Excused(s, n)
      /\ Closed => Excused(s, n) \/ (Working(s) /\ "closing" \in done)

ClosingOrders == \A c \in Codes : ClosingOrder(book[c], unsold[c])

ClosingAhead == Closed \/ (Time = 0 /\ ~fired) \/ "closing" \notin done

-----------------------------------------------------------------------------
(* The steps *)

LEMMA SavedType ==
    ASSUME TypeOK, NEW b \in [Codes -> Stock]
    PROVE  Saved(b) \in [date : 0..MaxDays, entries : [Codes -> Stamp]]
  <1>1. [c \in Codes |-> b[c].lossAt] \in [Codes -> Stamp]
    <2>1. \A c \in Codes : b[c].lossAt \in Stamp
      BY DEF Stock
    <2> QED
      BY <2>1
  <1>2. day \in 0..MaxDays
    BY ConstantsAssumption DEF TypeOK
  <1> DEFINE marks == [c \in Codes |-> b[c].lossAt]
  <1> HIDE DEF marks
  <1>3. [date |-> day, entries |-> marks] \in [date : 0..MaxDays, entries : [Codes -> Stamp]]
    BY <1>1, <1>2 DEF marks
  <1> QED
    BY <1>3 DEF Saved, TypeOK, marks

LEMMA LostType ==
    ASSUME TypeOK, NEW b, NEW pct
    PROVE  Lost(b, pct) \in [Codes -> 0..MaxDays]
  <1>1. day \in 0..MaxDays
    BY ConstantsAssumption DEF TypeOK
  <1> QED
    BY <1>1 DEF Lost, TypeOK

\* The three handlers that go through the book.
LEMMA ExitLoopBook ==
    ASSUME TypeOK, ExitLoop
    PROVE  /\ BookHandled(book, book')
           /\ TargetsAbove => \A c \in Codes :
                book[c].order # "sale" /\ book'[c].order = "sale" /\ Losing(book'[c].pos)
                  => book'[c].lossAt = Now
  <1>1. Now \in Stamp /\ book \in [Codes -> Stock]
    BY ClockNow DEF TypeOK
  <1>2. PICK facts \in [Codes -> Shown] : book' = check_and_exit_all(book, facts)
    BY DEF ExitLoop
  <1>3. BookHandled(book, book')
    BY <1>1, <1>2, ExitAllHandled
  <1>4. ASSUME TargetsAbove, NEW c \in Codes, book[c].order # "sale", book'[c].order = "sale",
               Losing(book'[c].pos)
        PROVE  book'[c].lossAt = Now
    <2>1. book'[c] = book[c] \/ book'[c] = ExitOf(book[c], facts[c])
      BY <1>2 DEF check_and_exit_all
    <2> QED
      BY <1>1, <1>4, <2>1, ExitOfHandled
  <1> QED
    BY <1>3, <1>4

LEMMA TimerBook ==
    ASSUME TypeOK, MinuteTimer
    PROVE  BookHandled(book, book')
  <1>1. Now \in Stamp /\ book \in [Codes -> Stock] /\ Time \in Nat
    BY ClockNow, SMTT(30) DEF TypeOK
  <1>2. book' = book \/ \E facts \in [Codes -> Shown] : book' = Scheduled(facts)
    BY DEF MinuteTimer
  <1> QED
    BY <1>1, <1>2, BookSame, ScheduledHandled

\* The stock with the new price of a tick.
Priced(s, p) == [s EXCEPT !.pos.cur = p]

LEMMA PricedStock ==
    ASSUME NEW s \in Stock, NEW p \in Prices
    PROVE  LET t == Priced(s, p)
           IN  /\ t \in Stock /\ t.pos.cur = p
               /\ t.pos.qty = s.pos.qty /\ t.pos.at = s.pos.at /\ t.pos.eod = s.pos.eod
               /\ t.pos.app = s.pos.app /\ t.pos.held = s.pos.held
               /\ t.order = s.order /\ t.forced = s.forced /\ t.meta = s.meta
               /\ t.lossAt = s.lossAt
  <1> DEFINE q == [s.pos EXCEPT !.cur = p]
  <1>1. s.pos \in Position
    BY DEF Stock
  <1>2. q \in Position /\ q.cur = p /\ q.qty = s.pos.qty /\ q.at = s.pos.at
        /\ q.eod = s.pos.eod /\ q.app = s.pos.app /\ q.held = s.pos.held
    BY <1>1 DEF Position
  <1>3. Priced(s, p) = [s EXCEPT !.pos = q]
    BY DEF Priced
  <1> HIDE DEF q
  <1> QED
    BY <1>2, <1>3 DEF Stock

LEMMA TickBook ==
    ASSUME TypeOK, NEW c \in Codes, Tick(c)
    PROVE  \E p \in Prices :
             /\ price' = [price EXCEPT ![c] = p]
             /\ book' \in [Codes -> Stock]
             /\ \A d \in Codes \ {c} : book'[d] = book[d]
             /\ ~Owned(book[c]) => book'[c] = book[c]
             /\ Owned(book[c]) => Handled(Priced(book[c], p), book'[c])
             /\ book[c].order # "sale" /\ book'[c].order = "sale" /\ Losing(book'[c].pos)
                   /\ AtMost(book'[c].pos, TickHard) => book'[c].lossAt = Now
  <1>1. Now \in Stamp /\ book \in [Codes -> Stock] /\ book[c] \in Stock
    BY ClockNow DEF TypeOK
  <1>2. PICK p \in Prices, lv \in Trends, confirmed \in {FALSE, book[c].pos.sl},
             grace \in {FALSE, book[c].pos.partial} :
          /\ price' = [price EXCEPT ![c] = p]
          /\ book' = [book EXCEPT ![c] = Ticked(@, p, lv, confirmed, grace)]
    BY ZenonT(30) DEF Tick
  <1>3. lv \in 0..3 /\ confirmed \in BOOLEAN /\ grace \in BOOLEAN
    <2>1. Trends \subseteq 0..3
      BY ConstantsAssumption
    <2>2. book[c].pos.sl \in BOOLEAN /\ book[c].pos.partial \in BOOLEAN
      BY <1>1 DEF Stock, Position
    <2> QED
      BY <2>1, <2>2
  <1> DEFINE t == Ticked(book[c], p, lv, confirmed, grace)
  <1>4. /\ ~Owned(book[c]) => t = book[c]
        /\ Owned(book[c]) => Handled(Priced(book[c], p), t)
        /\ book[c].order # "sale" /\ t.order = "sale" /\ AtMost(t.pos, TickHard)
             /\ Losing(t.pos) => t.lossAt = Now
    BY <1>1, <1>3, TickedHandled DEF Priced
  <1>5. book' = [book EXCEPT ![c] = t]
    BY <1>2
  <1> HIDE DEF t
  <1>6. t \in Stock
    BY <1>1, <1>4 DEF Handled
  <1>7. book' \in [Codes -> Stock] /\ book'[c] = t /\ \A d \in Codes \ {c} : book'[d] = book[d]
    BY <1>1, <1>5, <1>6
  <1> QED
    BY <1>2, <1>4, <1>7

\* What the exit loop, the minute timer and a tick have in common.
Kept(s, t) ==
    /\ t.order = s.order \/ (Owned(s) /\ ~Working(s) /\ Working(t))
    /\ t.forced => s.forced \/ Working(t)
    /\ t.meta = s.meta
    /\ t.lossAt \in {s.lossAt, Now}
    /\ t.pos.qty = s.pos.qty /\ t.pos.at = s.pos.at /\ t.pos.eod = s.pos.eod
    /\ t.pos.app = s.pos.app
    /\ t.pos.held => s.pos.held \/ (GapTime /\ s.pos.eod)

HandlerStep ==
    /\ \A c \in Codes : Kept(book[c], book'[c])
    /\ lossFile' = Saved(book')
    /\ UNCHANGED <<day, tick>>

LEMMA HandlerSteps ==
    ASSUME TypeOK, ExitLoop \/ MinuteTimer \/ \E c \in Codes : Tick(c)
    PROVE  HandlerStep
  <1>1. lossFile' = Saved(book') /\ UNCHANGED <<day, tick>>
    BY ZenonT(30) DEF ExitLoop, MinuteTimer, Tick, clock
  <1>2. CASE ExitLoop \/ MinuteTimer
    BY <1>1, <1>2, ExitLoopBook, TimerBook DEF HandlerStep, BookHandled, Handled, Kept
  <1>3. ASSUME NEW c \in Codes, Tick(c) PROVE \A d \in Codes : Kept(book[d], book'[d])
    <2>1. PICK p \in Prices :
            /\ \A d \in Codes \ {c} : book'[d] = book[d]
            /\ ~Owned(book[c]) => book'[c] = book[c]
            /\ Owned(book[c]) => Handled(Priced(book[c], p), book'[c])
      BY <1>3, TickBook
    <2>2. \A d \in Codes : book'[d] = book[d] => Kept(book[d], book'[d])
      BY DEF Kept
    <2>3. Owned(book[c]) => Kept(book[c], book'[c])
      <3>1. book[c] \in Stock
        BY DEF TypeOK
      <3>2. (Working(Priced(book[c], p)) <=> Working(book[c]))
            /\ (Owned(Priced(book[c], p)) <=> Owned(book[c]))
        BY <3>1, PricedStock DEF Working, Owned
      <3> QED
        BY <2>1, <3>1, <3>2, PricedStock DEF Handled, Kept
    <2> QED
      BY <2>1, <2>2, <2>3
  <1> QED
    BY <1>1, <1>2, <1>3 DEF HandlerStep

LEMMA NoPositionTyped == NoPosition \in Position /\ Nothing \in Stock
  <1>1. 0 \in Stamp /\ MaxQty \in Nat
    BY ConstantsAssumption DEF Stamp
  <1>2. NoPosition \in Position
    BY <1>1 DEF NoPosition, Position
  <1> QED
    BY <1>1, <1>2 DEF Nothing, Stock

\* A stock shows the price of the day, and only what is owned is being sold.
Sound(s, p) ==
    /\ s \in Stock
    /\ Owned(s) => s.pos.cur = p
    /\ Working(s) => Owned(s)

SoundBook == book \in [Codes -> Stock] /\ \A c \in Codes : Sound(book[c], price[c])

Typed == TypeOK /\ SoundBook

\* The ends of a sale.
SaleEnds(c) == SaleFills(c) \/ SaleLapses(c) \/ SaleRefused(c)

LEMMA HoldingTyped ==
    ASSUME NEW p \in Position
    PROVE  Holding(p) \in Position /\ Holding(p).qty = p.qty /\ Holding(p).cur = p.cur
  BY NoPositionTyped DEF Holding, Position, NoPosition

LEMMA SoundFor ==
    ASSUME SoundBook, price' = price, NEW c \in Codes, NEW t, Sound(t, price[c]),
           book' = [book EXCEPT ![c] = t]
    PROVE  SoundBook'
  <1>1. t \in Stock
    BY DEF Sound
  <1>2. book' \in [Codes -> Stock] /\ book'[c] = t /\ \A d \in Codes \ {c} : book'[d] = book[d]
    BY <1>1 DEF SoundBook
  <1> QED
    BY <1>2 DEF SoundBook

LEMMA SoundHandled ==
    ASSUME NEW s, NEW p, Sound(s, p), NEW t, Handled(s, t)
    PROVE  Sound(t, p)
  BY DEF Sound, Handled, Owned, Working

LEMMA SoundSteps ==
    ASSUME Typed, Next
    PROVE  SoundBook'
  <1>1. Now \in Stamp /\ book \in [Codes -> Stock] /\ price \in [Codes -> Prices] /\ TypeOK
        /\ SoundBook /\ \A c \in Codes : Sound(book[c], price[c])
    BY ClockNow DEF Typed, TypeOK, SoundBook
  <1>2. CASE ExitLoop \/ MinuteTimer
    <2>1. BookHandled(book, book')
      BY <1>1, <1>2, ExitLoopBook, TimerBook
    <2>2. price' = price
      BY <1>2 DEF ExitLoop, MinuteTimer
    <2>3. \A c \in Codes : Sound(book'[c], price[c])
      BY <1>1, <2>1, SoundHandled DEF BookHandled
    <2> QED
      BY <2>1, <2>2, <2>3 DEF BookHandled, SoundBook
  <1>3. ASSUME NEW c \in Codes, Tick(c) PROVE SoundBook'
    <2>1. PICK p \in Prices :
             /\ price' = [price EXCEPT ![c] = p]
             /\ book' \in [Codes -> Stock]
             /\ \A d \in Codes \ {c} : book'[d] = book[d]
             /\ ~Owned(book[c]) => book'[c] = book[c]
             /\ Owned(book[c]) => Handled(Priced(book[c], p), book'[c])
      BY <1>1, <1>3, TickBook
    <2>2. price'[c] = p /\ \A d \in Codes \ {c} : price'[d] = price[d]
      BY <1>1, <2>1
    <2>3. CASE Owned(book[c])
      <3>1. Sound(Priced(book[c], p), p)
        BY <1>1, <2>3, PricedStock DEF Sound, Owned
      <3>2. Sound(book'[c], p)
        BY <2>1, <2>3, <3>1, SoundHandled
      <3> QED
        BY <1>1, <2>1, <2>2, <3>2 DEF SoundBook
    <2>4. CASE ~Owned(book[c])
      <3>1. Sound(book'[c], p)
        BY <1>1, <2>1, <2>4 DEF Sound
      <3> QED
        BY <1>1, <2>1, <2>2, <3>1 DEF SoundBook
    <2> QED
      BY <2>3, <2>4
  <1>4. CASE UserToggles \/ \E c \in Codes, type \in Types : Rejected(c, type)
    <2>1. book' = book /\ price' = price
      BY <1>4 DEF UserToggles, Rejected
    <2> QED
      BY <1>1, <2>1 DEF SoundBook
  <1>5. CASE TimePasses
    <2> DEFINE new(c) == [book[c] EXCEPT !.stopped = FALSE, !.barred = FALSE]
    <2>1. price' = price /\ (book' = book \/ book' = [c \in Codes |-> new(c)])
      BY <1>5 DEF TimePasses, Rolled
    <2>2. \A c \in Codes : new(c) \in Stock /\ new(c).pos = book[c].pos
                            /\ new(c).order = book[c].order
      BY <1>1 DEF Stock
    <2> HIDE DEF new
    <2>3. \A c \in Codes : Sound(new(c), price[c])
      BY <1>1, <2>2 DEF Sound, Owned, Working
    <2>4. CASE book' = [c \in Codes |-> new(c)]
      BY <2>1, <2>2, <2>3, <2>4 DEF SoundBook
    <2>5. CASE book' = book
      BY <1>1, <2>1, <2>5 DEF SoundBook
    <2> QED
      BY <2>1, <2>4, <2>5
  <1>6. CASE Restart
    <2> DEFINE at(c) == IF lossFile.date = day THEN lossFile.entries[c] ELSE 0
               q(c) == Holding(book[c].pos)
               new(c) == Rebuilt(book[c], at(c))
    <2>1. price' = price /\ book' = [c \in Codes |-> new(c)]
      BY <1>6 DEF Restart
    <2>2. ASSUME NEW c \in Codes
          PROVE  new(c) \in Stock /\ Sound(new(c), price[c])
      <3>1. at(c) \in Stamp
        <4>1. 0 \in Stamp
          BY ConstantsAssumption DEF Stamp
        <4>2. lossFile.entries[c] \in Stamp
          BY <1>1 DEF TypeOK
        <4> QED
          BY <4>1, <4>2
      <3>2. book[c].pos \in Position
        BY <1>1 DEF Stock
      <3>3. q(c) \in Position /\ q(c).qty = book[c].pos.qty /\ q(c).cur = book[c].pos.cur
        BY <3>2, HoldingTyped
      <3>4. new(c) = [Nothing EXCEPT !.lossAt = at(c), !.pos = q(c)]
        BY DEF Rebuilt
      <3> HIDE DEF at, q, new
      <3>5. new(c) \in Stock /\ new(c).pos = q(c) /\ new(c).order = "none"
        BY <3>1, <3>3, <3>4, NoPositionTyped DEF Stock, Nothing
      <3> QED
        BY <1>1, <3>3, <3>5 DEF Sound, Owned, Working
    <2> HIDE DEF new
    <2> QED
      BY <2>1, <2>2 DEF SoundBook
  <1>7. ASSUME NEW c \in Codes, BuyFills(c) \/ BuyLapses(c) \/ LockEnds(c) PROVE SoundBook'
    <2> DEFINE q == [book[c].meta EXCEPT !.avg = price[c], !.cur = price[c],
                                         !.peak = price[c], !.at = Now, !.app = TRUE]
               t == [book[c] EXCEPT !.order = "none", !.meta = NoPosition]
               u == [t EXCEPT !.pos = q]
               w == [book[c] EXCEPT !.order = "none", !.forced = FALSE]
    <2>1. price' = price /\ \/ book' = [book EXCEPT ![c] = t]
                            \/ book' = [book EXCEPT ![c] = u]
                            \/ book' = [book EXCEPT ![c] = w]
      BY <1>7 DEF BuyFills, BuyLapses, LockEnds
    <2>2. book[c] \in Stock /\ book[c].meta \in Position /\ price[c] \in Prices
          /\ Sound(book[c], price[c])
      BY <1>1 DEF Stock
    <2>3. q \in Position /\ q.cur = price[c]
      BY <1>1, <2>2 DEF Position
    <2>4. w \in Stock /\ w.pos = book[c].pos /\ w.order = "none"
      BY <2>2 DEF Stock
    <2> HIDE DEF q, w
    <2>5. t \in Stock /\ t.pos = book[c].pos /\ t.order = "none"
      BY <2>2, NoPositionTyped DEF Stock
    <2> HIDE DEF t
    <2>6. u \in Stock /\ u.pos = q /\ u.order = "none"
      BY <2>3, <2>5 DEF Stock
    <2> HIDE DEF u
    <2>7. Sound(t, price[c]) /\ Sound(u, price[c]) /\ Sound(w, price[c])
      BY <2>2, <2>3, <2>4, <2>5, <2>6 DEF Sound, Owned, Working
    <2> QED
      BY <1>1, <2>1, <2>7, SoundFor
  <1>8. ASSUME NEW c \in Codes, SaleFills(c) PROVE SoundBook'
    <2> DEFINE s == book[c]
               n == s.pos.qty - PartQty(s.pos.qty)
               q == [s.pos EXCEPT !.qty = n]
    <2>1. price' = price /\ book' = [book EXCEPT ![c] = Sold(s)] /\ Working(s)
      BY <1>8 DEF SaleFills
    <2>2. Sound(s, price[c]) /\ s \in Stock /\ s.pos \in Position /\ s.pos.qty \in 0..MaxQty
      BY <1>1 DEF Stock, Position
    <2>3. MaxQty \in Nat /\ s.pos.qty \in Nat \ {0} /\ s.pos.qty <= MaxQty
      <3>1. MaxQty \in Nat
        BY ConstantsAssumption
      <3>2. s.pos.qty > 0
        BY <2>1, <2>2 DEF Sound, Owned
      <3> QED
        BY <2>2, <3>1, <3>2
    <2>4. n \in 0..MaxQty
      BY <2>3 DEF PartQty, Higher
    <2> DEFINE out == [s EXCEPT !.pos = NoPosition, !.order = "none", !.forced = FALSE]
               left == [s EXCEPT !.pos = q, !.order = "locked"]
    <2>5. n = 0 => PartQty(s.pos.qty) = s.pos.qty
      BY <2>3 DEF PartQty, Higher
    <2>6. Sold(s) = out \/ (n # 0 /\ Sold(s) = left)
      BY <2>5 DEF Sold
    <2>7. out \in Stock /\ out.pos.qty = 0 /\ out.order = "none"
      BY <2>2, NoPositionTyped DEF Stock, NoPosition
    <2> HIDE DEF n
    <2>8. q \in Position /\ q.cur = s.pos.cur
      BY <2>2, <2>4 DEF Position
    <2> HIDE DEF q
    <2>9. left \in Stock /\ left.pos = q /\ left.order = "locked"
      BY <2>2, <2>8 DEF Stock
    <2> HIDE DEF left, out
    <2>10. Sound(left, price[c]) /\ Sound(out, price[c])
      BY <2>2, <2>3, <2>7, <2>8, <2>9 DEF Sound, Owned, Working
    <2> QED
      BY <1>1, <2>1, <2>6, <2>10, SoundFor
  <1>10. ASSUME NEW c \in Codes, SaleLapses(c) \/ SaleRefused(c) PROVE SoundBook'
    <2> DEFINE s == book[c]
               lock == [s EXCEPT !.order = "locked"]
               free == [s EXCEPT !.order = "none", !.forced = FALSE]
               lost == [free EXCEPT !.pos = NoPosition]
               back == [free EXCEPT !.pos = Holding(s.pos)]
    <2>1. price' = price /\ \/ book' = [book EXCEPT ![c] = lock]
                            \/ book' = [book EXCEPT ![c] = free]
                            \/ book' = [book EXCEPT ![c] = lost]
                            \/ book' = [book EXCEPT ![c] = back]
      BY <1>10 DEF SaleLapses, SaleRefused
    <2>2. s \in Stock /\ s.pos \in Position /\ Sound(s, price[c])
      BY <1>1 DEF Stock
    <2>3. lock \in Stock /\ lock.pos = s.pos /\ lock.order = "locked"
      BY <2>2 DEF Stock
    <2>4. free \in Stock /\ free.pos = s.pos /\ free.order = "none"
      BY <2>2 DEF Stock
    <2> HIDE DEF free
    <2>5. lost \in Stock /\ lost.pos = NoPosition /\ lost.order = "none"
      BY <2>4, NoPositionTyped DEF Stock
    <2>6. back \in Stock /\ back.pos = Holding(s.pos) /\ back.order = "none"
      BY <2>2, <2>4, HoldingTyped DEF Stock
    <2>7. NoPosition.qty = 0
      BY DEF NoPosition
    <2> HIDE DEF lock, lost, back
    <2>8. Sound(lock, price[c]) /\ Sound(free, price[c]) /\ Sound(lost, price[c])
          /\ Sound(back, price[c])
      BY <2>2, <2>3, <2>4, <2>5, <2>6, <2>7, HoldingTyped DEF Sound, Owned, Working
    <2> QED
      BY <1>1, <2>1, <2>8, SoundFor
  <1>9. ASSUME NEW c \in Codes, NEW type \in Types, Accepted(c, type) PROVE SoundBook'
    <2>1. PICK gap \in Gaps, lv \in Trends, sent \in BOOLEAN :
            LET s == [Forgotten(c) EXCEPT !.entryAt = Now]
            IN book' = [book EXCEPT ![c] =
                 IF sent /\ MayBuy(s)
                 THEN [s EXCEPT !.order = "buy", !.meta = Meta(type, gap, lv)]
                 ELSE s]
      BY <1>9 DEF Accepted
    <2> DEFINE s == [Forgotten(c) EXCEPT !.entryAt = Now]
               m == Meta(type, gap, lv)
               t == [s EXCEPT !.order = "buy", !.meta = m]
    <2>2. book' = [book EXCEPT ![c] = t] \/ book' = [book EXCEPT ![c] = s]
      BY <2>1
    <2>3. book[c] \in Stock /\ Sound(book[c], price[c]) /\ price' = price
      BY <1>1, <1>9 DEF Accepted
    <2>4. s \in Stock /\ s.pos = book[c].pos /\ s.order = book[c].order
      <3>1. 0 \in Stamp
        BY ConstantsAssumption DEF Stamp
      <3> QED
        BY <1>1, <2>3, <3>1 DEF Forgotten, Stock
    <2>5. m \in Position
      <3>5. MaxQty \in Nat
        BY ConstantsAssumption
      <3>6. Trends \subseteq 0..3
        BY ConstantsAssumption
      <3>1. Trends \subseteq 0..3 /\ MaxQty \in 0..MaxQty /\ gap \in Gaps \cup {0}
        BY <3>5, <3>6
      <3>2. (type = "EOD") \in BOOLEAN
        OBVIOUS
      <3> DEFINE late == (type = "EOD")
                 g == IF Time < 600 THEN gap ELSE 0
                 ph == IF PhaseOne THEN 1 ELSE 2
      <3>3. g \in Gaps \cup {0} /\ ph \in 0..2 /\ late \in BOOLEAN /\ lv \in 0..3
        BY <3>1
      <3>4. m = [NoPosition EXCEPT !.qty = MaxQty, !.gap = g, !.trend = lv, !.eod = late, !.phase = ph]
        BY DEF Meta
      <3> HIDE DEF late, g, ph, m
      <3> QED
        BY <3>1, <3>3, <3>4, NoPositionTyped DEF Position
    <2> HIDE DEF s, m
    <2>6. t \in Stock /\ t.pos = book[c].pos /\ t.order = "buy"
      BY <2>4, <2>5 DEF Stock
    <2> HIDE DEF t
    <2>7. Sound(t, price[c]) /\ Sound(s, price[c])
      BY <2>3, <2>4, <2>6 DEF Sound, Owned, Working
    <2> QED
      BY <1>1, <2>2, <2>3, <2>7, SoundFor
  <1> QED
    BY <1>2, <1>3, <1>4, <1>5, <1>6, <1>7, <1>8, <1>9, <1>10 DEF Next

LEMMA InitTyped == Init => Typed
  <1> SUFFICES ASSUME Init PROVE Typed
    OBVIOUS
  <1>1. MaxDays \in Nat \ {0} /\ MaxEntries \in Nat /\ MaxInterrupts \in Nat /\ 0 \in Stamp
        /\ 1 \in DOMAIN Clock /\ 1 \in 1..MaxDays /\ 0 \in 0..MaxDays
    <2> DEFINE minutes == 0..1439
    <2>1. Clock \in Seq(minutes) /\ Clock # <<>> /\ MaxDays \in Nat \ {0}
          /\ MaxEntries \in Nat /\ MaxInterrupts \in Nat
      BY ConstantsAssumption
    <2> HIDE DEF minutes
    <2>2. 1 \in DOMAIN Clock
      BY <2>1, EmptySeq, LenProperties
    <2> QED
      BY <2>1, <2>2 DEF Stamp
  <1>2. \A c \in Codes : book[c] = Nothing
    BY DEF Init
  <1>3. Sound(Nothing, 0) /\ Nothing.pos.qty = 0
    BY NoPositionTyped DEF Sound, Owned, Working, Nothing, NoPosition
  <1>4. \A c \in Codes : Sound(book[c], price[c])
    BY <1>2, <1>3 DEF Sound, Owned
  <1>5. book \in [Codes -> Stock]
    BY NoPositionTyped DEF Init
  <1>6. lossFile \in [date : 0..MaxDays, entries : [Codes -> Stamp]]
    BY <1>1 DEF Init
  <1>7. TypeOK
    <2>1. \A c \in Codes : book[c].pos.qty > 0 => book[c].pos.cur = price[c]
      BY <1>4 DEF Sound, Owned
    <2>2. lostOn \in [Codes -> 0..MaxDays] /\ unsold \in [Codes -> 0..MaxDays]
      BY <1>1 DEF Init
    <2>3. entries \in 0..MaxEntries /\ interrupts \in 0..MaxInterrupts /\ opening \in Stamp
      BY <1>1 DEF Init
    <2>4. day \in 1..MaxDays /\ tick \in DOMAIN Clock
      BY <1>1 DEF Init
    <2>5. /\ fired \in BOOLEAN /\ done \subseteq Jobs /\ overnight \in BOOLEAN
          /\ auto \in BOOLEAN /\ first \in BOOLEAN /\ price \in [Codes -> Prices]
      BY DEF Init
    <2> QED
      BY <1>5, <1>6, <2>1, <2>2, <2>3, <2>4, <2>5 DEF TypeOK
  <1> QED
    BY <1>4, <1>5, <1>7 DEF Typed, SoundBook

LEMMA NextTyped == Typed /\ [Next]_vars => Typed'
  <1> SUFFICES ASSUME Typed, [Next]_vars PROVE Typed'
    OBVIOUS
  <1>1. CASE UNCHANGED vars
    BY <1>1 DEF Typed, TypeOK, SoundBook, vars, clock, modes, files, counters
  <1>2. CASE Next
    <2>1. SoundBook' /\ TypeOK /\ Now \in Stamp
      BY <1>2, SoundSteps, ClockNow DEF Typed, TypeOK
    <2>2. MaxDays \in Nat \ {0} /\ MaxEntries \in Nat /\ MaxInterrupts \in Nat /\ 0 \in Stamp
      BY ConstantsAssumption DEF Stamp
    <2>3. day' \in 1..MaxDays /\ tick' \in DOMAIN Clock
      <3>1. CASE TimePasses
        <4> DEFINE minutes == 0..1439
        <4>1. Clock \in Seq(minutes) /\ Clock # <<>>
          BY ConstantsAssumption
        <4> HIDE DEF minutes
        <4>2. DOMAIN Clock = 1..Len(Clock) /\ Len(Clock) \in Nat /\ 1 \in DOMAIN Clock
          BY <4>1, EmptySeq, LenProperties
        <4>3. day \in 1..MaxDays /\ tick \in 1..Len(Clock)
          BY <2>1, <4>2 DEF TypeOK
        <4>4. CASE tick < Len(Clock) /\ tick' = tick + 1 /\ day' = day
          BY <4>2, <4>3, <4>4
        <4>5. CASE day < MaxDays /\ tick' = 1 /\ day' = day + 1
          BY <2>2, <4>2, <4>3, <4>5
        <4> QED
          BY <3>1, <4>4, <4>5 DEF TimePasses
      <3>2. CASE ~TimePasses
        <4>1. UNCHANGED <<day, tick>>
          BY <1>2, <3>2, ZenonT(60) DEF Next, ExitLoop, UserToggles, MinuteTimer, Restart, Tick, BuyFills,
             BuyLapses, SaleFills, SaleLapses, SaleRefused, LockEnds, Rejected, Accepted, clock
        <4> QED
          BY <2>1, <4>1 DEF TypeOK
      <3> QED
        BY <3>1, <3>2
    <2>4. fired' \in BOOLEAN /\ done' \subseteq Jobs /\ overnight' \in BOOLEAN
      <3>1. Due \subseteq Jobs
        BY DEF Due
      <3>2. fired' \in {fired, TRUE, FALSE} /\ done' \in {done, {}, done \cup Due}
        BY <1>2, ZenonT(60) DEF Next, ExitLoop, UserToggles, MinuteTimer, TimePasses, Restart, Tick, BuyFills,
           BuyLapses, SaleFills, SaleLapses, SaleRefused, LockEnds, Rejected, Accepted, clock
      <3>3. overnight' = overnight \/ overnight' \in BOOLEAN
        BY <1>2, ZenonT(60) DEF Next, ExitLoop, UserToggles, MinuteTimer, TimePasses, Restart, Tick, BuyFills,
           BuyLapses, SaleFills, SaleLapses, SaleRefused, LockEnds, Rejected, Accepted, modes
      <3> QED
        BY <2>1, <3>1, <3>2, <3>3 DEF TypeOK
    <2>5. auto' \in BOOLEAN /\ first' \in BOOLEAN
      <3>1. auto \in BOOLEAN /\ first \in BOOLEAN
        BY <2>1 DEF TypeOK
      <3>2. CASE UserToggles
        BY <3>1, <3>2 DEF UserToggles
      <3>3. CASE \E c \in Codes, type \in Types : Rejected(c, type) \/ Accepted(c, type)
        BY <3>1, <3>3 DEF Rejected, Accepted, SwitchesOn
      <3>4. CASE Restart
        BY <3>4 DEF Restart
      <3>5. ASSUME ExitLoop \/ MinuteTimer \/ TimePasses
                   \/ \E c \in Codes : Tick(c) \/ BuyFills(c) \/ BuyLapses(c)
                                      \/ SaleEnds(c) \/ LockEnds(c)
            PROVE  UNCHANGED <<auto, first>>
        BY <3>5, ZenonT(60) DEF SaleEnds, ExitLoop, MinuteTimer, TimePasses, Tick, BuyFills, BuyLapses, SaleFills, SaleLapses, SaleRefused,
           LockEnds, modes
      <3> QED
        BY <1>2, <3>1, <3>2, <3>3, <3>4, <3>5 DEF Next, SaleEnds
    <2>6. price' \in [Codes -> Prices]
      <3>1. price' = price \/ \E c \in Codes, p \in Prices : price' = [price EXCEPT ![c] = p]
        BY <1>2, ZenonT(60) DEF Next, ExitLoop, UserToggles, MinuteTimer, TimePasses, Restart, Tick, BuyFills,
           BuyLapses, SaleFills, SaleLapses, SaleRefused, LockEnds, Rejected, Accepted
      <3> QED
        BY <2>1, <3>1 DEF TypeOK
    <2>7. lossFile' \in [date : 0..MaxDays, entries : [Codes -> Stamp]]
      <3>1. lossFile' = lossFile \/ lossFile' = Saved(book')
        BY <1>2, ZenonT(60) DEF Next, ExitLoop, UserToggles, MinuteTimer, TimePasses, Restart, Tick, BuyFills,
           BuyLapses, SaleFills, SaleLapses, SaleRefused, LockEnds, Rejected, Accepted, files
      <3> QED
        BY <2>1, <3>1, SavedType DEF TypeOK, SoundBook
    <2>8. lostOn' \in [Codes -> 0..MaxDays]
      <3>1. lostOn' = lostOn \/ lostOn' = Lost(book', 0) \/ lostOn' = Lost(book', TickHard)
        <4>1. ExitLoop => lostOn' = Lost(book', 0)
          BY DEF ExitLoop
        <4>2. (\E c \in Codes : Tick(c)) => lostOn' = Lost(book', TickHard)
          BY DEF Tick
        <4>3. ~ExitLoop /\ ~(\E c \in Codes : Tick(c)) => lostOn' = lostOn
          BY <1>2 DEF Next, UserToggles, MinuteTimer, TimePasses, Restart, BuyFills,
             BuyLapses, SaleFills, SaleLapses, SaleRefused, LockEnds, Rejected, Accepted, files
        <4> QED
          BY <4>1, <4>2, <4>3
      <3> QED
        BY <2>1, <3>1, LostType DEF TypeOK
    <2>9. opening' \in Stamp
      <3>1. opening' = opening \/ opening' = Now \/ opening' = 0
        <4>1. Restart => opening' = 0
          BY DEF Restart
        <4>2. ASSUME NEW c \in Codes, NEW type \in Types, Accepted(c, type)
              PROVE  opening' = Now \/ opening' = opening
          BY <4>2 DEF Accepted
        <4>3. ~Restart /\ ~(\E c \in Codes, type \in Types : Accepted(c, type))
                => opening' = opening
          BY <1>2, ZenonT(60) DEF Next, ExitLoop, UserToggles, MinuteTimer, TimePasses, Tick, BuyFills,
             BuyLapses, SaleFills, SaleLapses, SaleRefused, LockEnds, Rejected
        <4> QED
          BY <4>1, <4>2, <4>3
      <3> QED
        BY <2>1, <2>2, <3>1 DEF TypeOK
    <2>10. entries' \in 0..MaxEntries /\ interrupts' \in 0..MaxInterrupts
      <3>1. \/ entries' = entries
            \/ entries < MaxEntries /\ entries' = entries + 1
        BY <1>2, ZenonT(60) DEF Next, ExitLoop, UserToggles, MinuteTimer, TimePasses, Restart, Tick, BuyFills,
           BuyLapses, SaleFills, SaleLapses, SaleRefused, LockEnds, Rejected, Accepted, counters
      <3>2. \/ interrupts' = interrupts
            \/ interrupts < MaxInterrupts /\ interrupts' = interrupts + 1
        BY <1>2, ZenonT(60) DEF Next, ExitLoop, UserToggles, MinuteTimer, TimePasses, Restart, Tick, BuyFills,
           BuyLapses, SaleFills, SaleLapses, SaleRefused, LockEnds, Rejected, Accepted, counters
      <3> QED
        BY <2>1, <2>2, <3>1, <3>2 DEF TypeOK
    <2>12. unsold' \in [Codes -> 0..MaxDays]
      <3>1. unsold' = unsold \/ \E c \in Codes : unsold' = [unsold EXCEPT ![c] = day]
        BY <1>2, ZenonT(60) DEF Next, ExitLoop, UserToggles, MinuteTimer, TimePasses, Restart, Tick, BuyFills,
           BuyLapses, SaleFills, SaleLapses, SaleRefused, LockEnds, Rejected, Accepted, files, Left
      <3>2. day \in 0..MaxDays
        BY <2>1, <2>2 DEF TypeOK
      <3> QED
        BY <2>1, <3>1, <3>2 DEF TypeOK
    <2>11. TypeOK'
      BY <2>1, <2>3, <2>4, <2>5, <2>6, <2>7, <2>8, <2>9, <2>10, <2>12 DEF TypeOK, SoundBook, Sound, Owned
    <2> QED
      BY <2>1, <2>11 DEF Typed
  <1> QED
    BY <1>1, <1>2

\* The variables keep their types, no price of a holding is stale, and nothing is
\* sold that is not owned, in every behaviour.  (TypeOK, SaleFills)
THEOREM TypeCorrect == Spec => []Typed
  BY InitTyped, NextTyped, PTL DEF Spec

\* A deep loss is sold by the next run of the exit loop, with every setting of
\* the stops that is shallow enough, however the candles look.  (should_exit)
THEOREM DeepLosses == ASSUME ShallowStops PROVE Spec => []DeepLossSold
  <1>1. Typed => DeepLossSold
    <2> SUFFICES ASSUME Typed, NEW c \in Codes, Managed(book[c]), book[c].order = "none",
                        AtMost(book[c].pos, DeepLoss), NEW facts \in Shown
                 PROVE  ExitOf(book[c], facts).order = "sale"
      BY DEF DeepLossSold
    <2>1. Now \in Stamp /\ book[c] \in Stock
      BY ClockNow DEF Typed, TypeOK
    <2> QED
      BY <2>1, ExitOfHandled
  <1> QED
    BY <1>1, TypeCorrect, PTL

-----------------------------------------------------------------------------
(* What the other steps do to a stock *)

Others(c) == \A d \in Codes \ {c} : book'[d] = book[d]

LEMMA BuyFillsStock ==
    ASSUME Typed, NEW c \in Codes, BuyFills(c)
    PROVE  /\ Others(c) /\ UNCHANGED <<clock, lossFile, lostOn>> /\ book[c].order = "buy"
           /\ book'[c].order = "none" /\ book'[c].forced = book[c].forced
           /\ book'[c].lossAt = book[c].lossAt
           /\ book'[c].pos.at = Now /\ book'[c].pos.eod = book[c].meta.eod
           /\ book'[c].pos.held = book[c].meta.held
  <1> DEFINE q == [book[c].meta EXCEPT !.avg = price[c], !.cur = price[c],
                                       !.peak = price[c], !.at = Now, !.app = TRUE]
             t == [book[c] EXCEPT !.order = "none", !.meta = NoPosition, !.pos = q]
  <1>1. book \in [Codes -> Stock] /\ book[c] \in Stock /\ book[c].meta \in Position
    BY DEF Typed, TypeOK, Stock
  <1>2. book' = [book EXCEPT ![c] = t]
    BY DEF BuyFills
  <1>3. q.at = Now /\ q.eod = book[c].meta.eod /\ q.held = book[c].meta.held
    BY <1>1 DEF Position
  <1> HIDE DEF q
  <1>4. t.order = "none" /\ t.forced = book[c].forced /\ t.lossAt = book[c].lossAt /\ t.pos = q
    BY <1>1 DEF Stock
  <1> HIDE DEF t
  <1>5. book'[c] = t /\ Others(c)
    BY <1>1, <1>2 DEF Others
  <1> QED
    BY <1>3, <1>4, <1>5 DEF BuyFills, files

\* What ends an order without a purchase: the position is kept, or the program
\* forgets it.
LEMMA OrderEndsStock ==
    ASSUME Typed, NEW c \in Codes, BuyLapses(c) \/ LockEnds(c) \/ SaleEnds(c)
    PROVE  /\ Others(c) /\ UNCHANGED <<clock, lossFile, lostOn>>
           /\ book'[c].lossAt = book[c].lossAt
           /\ \/ /\ book'[c].order = "none" /\ ~book'[c].forced
                 /\ ~book'[c].pos.eod /\ ~book'[c].pos.held /\ ~book'[c].pos.app
                 /\ book'[c].pos.at = 0
              \/ /\ book'[c].order \in {"none", "locked"}
                 /\ book'[c].pos.at = book[c].pos.at /\ book'[c].pos.eod = book[c].pos.eod
                 /\ book'[c].pos.held = book[c].pos.held /\ book'[c].pos.app = book[c].pos.app
                 /\ Owned(book'[c]) => Owned(book[c])
                 /\ \/ ~book'[c].forced \/ book'[c].order = "locked"
                    \/ book[c].order = "buy" /\ book'[c].forced = book[c].forced
  <1>1. book \in [Codes -> Stock] /\ book[c] \in Stock /\ book[c].pos \in Position
        /\ (Working(book[c]) => Owned(book[c]))
    BY DEF Typed, TypeOK, Stock, SoundBook, Sound
  <1>2. UNCHANGED <<clock, lossFile, lostOn>>
    BY DEF SaleEnds, BuyLapses, LockEnds, SaleFills, SaleLapses, SaleRefused, files
  <1>3. CASE BuyLapses(c)
    <2> DEFINE t == [book[c] EXCEPT !.order = "none", !.meta = NoPosition]
    <2>1. book' = [book EXCEPT ![c] = t] /\ book[c].order = "buy"
      BY <1>3 DEF BuyLapses
    <2>2. t.order = "none" /\ t.pos = book[c].pos /\ t.forced = book[c].forced
          /\ t.lossAt = book[c].lossAt
      BY <1>1 DEF Stock
    <2> HIDE DEF t
    <2> QED
      BY <1>1, <1>2, <2>1, <2>2 DEF Others, Owned
  <1>4. CASE LockEnds(c)
    <2> DEFINE t == [book[c] EXCEPT !.order = "none", !.forced = FALSE]
    <2>1. book' = [book EXCEPT ![c] = t] /\ book[c].order = "locked"
      BY <1>4 DEF LockEnds
    <2>2. t.order = "none" /\ t.pos = book[c].pos /\ t.forced = FALSE
          /\ t.lossAt = book[c].lossAt
      BY <1>1 DEF Stock
    <2> HIDE DEF t
    <2> QED
      BY <1>1, <1>2, <2>1, <2>2 DEF Others, Owned
  <1>5. CASE SaleFills(c)
    <2> DEFINE s == book[c]
               q == [s.pos EXCEPT !.qty = @ - PartQty(@)]
               out == [s EXCEPT !.pos = NoPosition, !.order = "none", !.forced = FALSE]
               left == [s EXCEPT !.pos = q, !.order = "locked"]
    <2>1. book' = [book EXCEPT ![c] = Sold(s)] /\ Working(s)
      BY <1>5 DEF SaleFills
    <2>2. Sold(s) = out \/ (s.order # "sale" /\ Sold(s) = left)
      BY DEF Sold
    <2>3. out.pos = NoPosition /\ out.order = "none" /\ out.forced = FALSE
          /\ out.lossAt = s.lossAt
      BY <1>1 DEF Stock
    <2>4. q.at = s.pos.at /\ q.eod = s.pos.eod /\ q.held = s.pos.held /\ q.app = s.pos.app
      BY <1>1 DEF Position
    <2> HIDE DEF q
    <2>5. left.pos = q /\ left.order = "locked" /\ left.lossAt = s.lossAt
      BY <1>1 DEF Stock
    <2> HIDE DEF out, left
    <2>6. book'[c] = Sold(s) /\ Others(c)
      BY <1>1, <2>1 DEF Others
    <2>7. Owned(s)
      BY <1>1, <2>1
    <2>8. CASE Sold(s) = out
      BY <1>2, <2>3, <2>6, <2>8 DEF NoPosition
    <2>9. CASE s.order # "sale" /\ Sold(s) = left
      BY <1>2, <2>4, <2>5, <2>6, <2>7, <2>9
    <2> QED
      BY <2>2, <2>8, <2>9
  <1>6. CASE SaleLapses(c)
    <2> DEFINE lock == [book[c] EXCEPT !.order = "locked"]
               free == [book[c] EXCEPT !.order = "none", !.forced = FALSE]
    <2>1. book' = [book EXCEPT ![c] = lock] \/ book' = [book EXCEPT ![c] = free]
      BY <1>6 DEF SaleLapses
    <2>2. lock.order = "locked" /\ lock.pos = book[c].pos /\ lock.lossAt = book[c].lossAt
      BY <1>1 DEF Stock
    <2>3. free.order = "none" /\ free.pos = book[c].pos /\ free.lossAt = book[c].lossAt
          /\ free.forced = FALSE
      BY <1>1 DEF Stock
    <2> HIDE DEF lock, free
    <2> QED
      BY <1>1, <1>2, <2>1, <2>2, <2>3 DEF Others, Owned
  <1>7. CASE SaleRefused(c)
    <2> DEFINE free == [book[c] EXCEPT !.order = "none", !.forced = FALSE]
               lost == [free EXCEPT !.pos = NoPosition]
               back == [free EXCEPT !.pos = Holding(book[c].pos)]
    <2>1. book' = [book EXCEPT ![c] = lost] \/ book' = [book EXCEPT ![c] = back]
      BY <1>7 DEF SaleRefused
    <2>2. ~NoPosition.eod /\ ~NoPosition.held /\ ~NoPosition.app /\ NoPosition.at = 0
      BY DEF NoPosition
    <2>6. LET p == Holding(book[c].pos) IN ~p.eod /\ ~p.held /\ ~p.app /\ p.at = 0
      BY DEF Holding, NoPosition
    <2>3. free \in Stock /\ free.order = "none" /\ free.lossAt = book[c].lossAt /\ free.forced = FALSE
      BY <1>1 DEF Stock
    <2> HIDE DEF free
    <2>4. lost.order = "none" /\ lost.lossAt = book[c].lossAt /\ lost.forced = FALSE
          /\ lost.pos = NoPosition
      BY <2>3 DEF Stock
    <2>5. back.order = "none" /\ back.lossAt = book[c].lossAt /\ back.forced = FALSE
          /\ back.pos = Holding(book[c].pos)
      BY <2>3 DEF Stock
    <2> HIDE DEF lost, back
    <2> QED
      BY <1>1, <1>2, <2>1, <2>2, <2>4, <2>5, <2>6 DEF Others
  <1> QED
    BY <1>3, <1>4, <1>5, <1>6, <1>7 DEF SaleEnds

LEMMA AcceptedStock ==
    ASSUME Typed, NEW c \in Codes, NEW type \in Types, Accepted(c, type)
    PROVE  /\ Others(c) /\ UNCHANGED <<clock, lostOn>> /\ lossFile' = Saved(book')
           /\ ~LostToday(c) /\ book'[c].lossAt = 0
           /\ book'[c].pos = book[c].pos /\ book'[c].forced = book[c].forced
           /\ \/ book'[c].order = book[c].order /\ book'[c].meta = book[c].meta
              \/ /\ book[c].order = "none" /\ book'[c].order = "buy" /\ ~Owned(book[c])
                 /\ ~book'[c].meta.held /\ (book'[c].meta.eod => EodStart <= Time)
  <1>1. book \in [Codes -> Stock] /\ book[c] \in Stock
    BY DEF Typed, TypeOK
  <1>2. PICK gap \in Gaps, lv \in Trends, sent \in BOOLEAN :
          /\ Passes(c, type, lv)
          /\ LET s == [Forgotten(c) EXCEPT !.entryAt = Now]
             IN book' = [book EXCEPT ![c] =
                  IF sent /\ MayBuy(s)
                  THEN [s EXCEPT !.order = "buy", !.meta = Meta(type, gap, lv)]
                  ELSE s]
    BY DEF Accepted
  <1> DEFINE s == [Forgotten(c) EXCEPT !.entryAt = Now]
             m == Meta(type, gap, lv)
             t == [s EXCEPT !.order = "buy", !.meta = m]
  <1>3. (book' = [book EXCEPT ![c] = t] /\ MayBuy(s)) \/ book' = [book EXCEPT ![c] = s]
    BY <1>2
  <1>4. ~LostToday(c) /\ ~Owned(book[c])
    BY <1>2 DEF Passes, should_entry
  <1>5. s.lossAt = 0 /\ s.pos = book[c].pos /\ s.forced = book[c].forced
        /\ s.order = book[c].order /\ s.meta = book[c].meta
        /\ s = [book[c] EXCEPT !.lossAt = 0, !.entryAt = Now]
    BY <1>1 DEF Forgotten, Stock
  <1>6. ~m.held /\ (m.eod => EodStart <= Time)
    <2>1. ~m.held /\ (m.eod => type = "EOD")
      BY DEF Meta, NoPosition
    <2>2. type = "EOD" => EodStart <= Time
      BY DEF Accepted, MaySignal
    <2> QED
      BY <2>1, <2>2
  <1> HIDE DEF m
  <1>7. t.lossAt = 0 /\ t.pos = book[c].pos /\ t.forced = book[c].forced
        /\ t.order = "buy" /\ t.meta = m
    BY <1>1, <1>5 DEF Stock
  <1>8. MayBuy(s) => book[c].order = "none"
    BY <1>5 DEF MayBuy
  <1> HIDE DEF s, t
  <1>9. Others(c) /\ (book'[c] = s \/ (book'[c] = t /\ MayBuy(s)))
    BY <1>1, <1>3 DEF Others
  <1>10. UNCHANGED <<clock, lostOn>> /\ lossFile' = Saved(book')
    BY DEF Accepted
  <1> QED
    BY <1>4, <1>5, <1>6, <1>7, <1>8, <1>9, <1>10

LEMMA RestartStock ==
    ASSUME Typed, Restart, NEW c \in Codes
    PROVE  /\ UNCHANGED <<day, tick, fired, lossFile, lostOn>> /\ done' = {}
           /\ book'[c].order = "none" /\ ~book'[c].forced
           /\ book'[c].pos.at = 0 /\ ~book'[c].pos.eod /\ ~book'[c].pos.held
           /\ ~book'[c].pos.app
           /\ book'[c].lossAt = IF lossFile.date = day THEN lossFile.entries[c] ELSE 0
  <1> DEFINE at == IF lossFile.date = day THEN lossFile.entries[c] ELSE 0
             q == Holding(book[c].pos)
             t == [Nothing EXCEPT !.lossAt = at, !.pos = q]
  <1>1. book'[c] = t
    BY DEF Restart, Rebuilt
  <1>2. q.at = 0 /\ q.eod = FALSE /\ q.held = FALSE /\ q.app = FALSE
    BY DEF Holding, NoPosition
  <1> HIDE DEF q, at
  <1>3. t.order = "none" /\ t.forced = FALSE /\ t.pos = q /\ t.lossAt = at
    BY DEF Nothing
  <1> HIDE DEF t
  <1> QED
    BY <1>1, <1>2, <1>3 DEF Restart, files, at

LEMMA TimePassesStock ==
    ASSUME Typed, TimePasses, NEW c \in Codes
    PROVE  /\ UNCHANGED <<done, lossFile, lostOn>>
           /\ book[c].order = "none" /\ book'[c].order = "none"
           /\ book'[c].pos = book[c].pos /\ book'[c].forced = book[c].forced
           /\ book'[c].lossAt = book[c].lossAt
  <1> DEFINE t == [book[c] EXCEPT !.stopped = FALSE, !.barred = FALSE]
  <1>1. book[c] \in Stock /\ book[c].order = "none"
    BY DEF Typed, TypeOK, TimePasses
  <1>2. book'[c] = book[c] \/ book'[c] = t
    BY DEF TimePasses, Rolled
  <1>3. t.order = book[c].order /\ t.pos = book[c].pos /\ t.forced = book[c].forced
        /\ t.lossAt = book[c].lossAt
    BY <1>1 DEF Stock
  <1> HIDE DEF t
  <1> QED
    BY <1>1, <1>2, <1>3 DEF TimePasses, files

-----------------------------------------------------------------------------
(* The gap is judged on a later day *)

\* A holding bought in the window of the overnight strategy, at an hour that has
\* not come yet, was bought on an earlier day.
LEMMA LateOverGap ==
    ASSUME TypeOK, NEW at \in Stamp, at <= Now, NEW start \in Nat, start <= Minute(at),
           Time < start
    PROVE  Day(at) < day
  <1>1. Now = day * 1440 + Time /\ Time \in 0..1439 /\ day \in Nat /\ at \in Nat
    <2>1. Now = day * 1440 + Time /\ Time \in 0..1439
      BY ClockNow DEF TypeOK
    <2>2. day \in Nat /\ at \in Nat
      BY ConstantsAssumption DEF TypeOK, Stamp
    <2> QED
      BY <2>1, <2>2
  <1>2. at = (at \div 1440) * 1440 + (at % 1440) /\ at \div 1440 \in Nat /\ at % 1440 \in Nat
    BY <1>1
  <1> DEFINE d == at \div 1440
             m == at % 1440
  <1>3. start <= m
    BY DEF Minute
  <1> HIDE DEF d, m
  <1>4. d < day
    BY <1>1, <1>2, <1>3 DEF d, m
  <1> QED
    BY <1>4 DEF Day, d

LEMMA LateKept ==
    ASSUME Typed, EodStart >= 570, NEW c \in Codes, Late(book[c]), NEW t, Kept(book[c], t)
    PROVE  Late(t)
  <1>1. EodStart \in Nat
    BY ConstantsAssumption
  <1>2. t.order = "buy" => book[c].order = "buy"
    BY DEF Kept, Working
  <1>3. t.pos.held => Day(t.pos.at) < day
    <2>1. CASE book[c].pos.held
      BY <2>1 DEF Kept, Late
    <2>2. CASE GapTime /\ book[c].pos.eod
      <3>1. book[c].pos.at \in Stamp /\ book[c].pos.at <= Now /\ EodStart <= Minute(book[c].pos.at)
        BY <2>2 DEF Typed, TypeOK, Stock, Position, Late
      <3>2. Time < EodStart
        BY <1>1, <2>2 DEF GapTime
      <3>3. Day(book[c].pos.at) < day
        BY <1>1, <3>1, <3>2, LateOverGap DEF Typed
      <3> QED
        BY <3>3 DEF Kept
    <2> QED
      BY <2>1, <2>2 DEF Kept
  <1> QED
    BY <1>2, <1>3 DEF Kept, Late

LEMMA InitLate == Init => BoughtLate
  <1> SUFFICES ASSUME Init, NEW c \in Codes PROVE Late(book[c])
    BY DEF BoughtLate
  <1>1. book[c] = Nothing /\ Now \in Nat
    BY InitTyped, ClockNow DEF Init, Typed, TypeOK
  <1> QED
    BY <1>1 DEF Late, Nothing, NoPosition

\* Steps that leave the clock alone.
LEMMA SameClock ==
    ASSUME UNCHANGED <<day, tick>>
    PROVE  Now' = Now /\ Time' = Time
  BY DEF Now, Time

LEMMA TimeGoesOn ==
    ASSUME Typed, Typed', TimePasses
    PROVE  /\ Now <= Now' /\ day <= day'
           /\ day \in Int /\ day' \in Int /\ Now \in Int /\ Now' \in Int
  <1>1. day \in Nat /\ day' \in Nat /\ tick \in DOMAIN Clock /\ tick' \in DOMAIN Clock
    BY ConstantsAssumption DEF Typed, TypeOK
  <1>2. Clock[tick] \in 0..1439 /\ Clock[tick'] \in 0..1439
    BY <1>1, ClockMinute
  <1>3. (day' = day /\ Clock[tick] < Clock[tick']) \/ day' = day + 1
    <2>1. CASE tick' = tick + 1 /\ day' = day
      BY <1>1, <2>1, ClockForward
    <2> QED
      BY <2>1 DEF TimePasses
  <1> DEFINE d == day
             e == day'
             m == Clock[tick]
             n == Clock[tick']
  <1>4. Now = d * 1440 + m /\ Now' = e * 1440 + n
    BY DEF Now
  <1>5. d \in Nat /\ e \in Nat /\ m \in 0..1439 /\ n \in 0..1439 /\ ((e = d /\ m < n) \/ e = d + 1)
    BY <1>1, <1>2, <1>3
  <1> HIDE DEF d, e, m, n
  <1>6. d <= e /\ d * 1440 + m <= e * 1440 + n
        /\ d * 1440 + m \in Int /\ e * 1440 + n \in Int
    BY <1>5
  <1>7. Now <= Now' /\ Now \in Int /\ Now' \in Int
    BY <1>4, <1>6
  <1>8. d \in Int /\ e \in Int /\ d <= e
    BY <1>5, <1>6
  <1> QED
    BY <1>7, <1>8 DEF d, e

LEMMA NextLate ==
    ASSUME EodStart >= 570
    PROVE  Typed /\ Typed' /\ BoughtLate /\ [Next]_vars => BoughtLate'
  <1> SUFFICES ASSUME Typed, Typed', BoughtLate, [Next]_vars
               PROVE  BoughtLate'
    OBVIOUS
  <1>1. ASSUME UNCHANGED <<day, tick>>, \A c \in Codes : Late(book'[c]) PROVE BoughtLate'
    BY <1>1, SameClock DEF BoughtLate, Late
  <1>2. CASE ExitLoop \/ MinuteTimer \/ \E c \in Codes : Tick(c)
    <2>1. HandlerStep
      BY <1>2, HandlerSteps DEF Typed
    <2> QED
      BY <1>1, <2>1, LateKept DEF HandlerStep, BoughtLate
  <1>3. ASSUME NEW c \in Codes, BuyFills(c) PROVE BoughtLate'
    <2>1. /\ Others(c) /\ UNCHANGED clock /\ book[c].order = "buy" /\ book'[c].order = "none"
          /\ book'[c].pos.at = Now /\ book'[c].pos.eod = book[c].meta.eod
          /\ book'[c].pos.held = book[c].meta.held
      BY <1>3, BuyFillsStock
    <2>2. Minute(Now) = Time /\ Now \in Nat
      BY ClockNow DEF Typed, TypeOK
    <2>3. Late(book'[c])
      BY <2>1, <2>2 DEF BoughtLate, Late
    <2> QED
      BY <1>1, <2>1, <2>3 DEF Others, BoughtLate, clock
  <1>4. ASSUME NEW c \in Codes, BuyLapses(c) \/ LockEnds(c) \/ SaleEnds(c) PROVE BoughtLate'
    <2>1. /\ Others(c) /\ UNCHANGED clock /\ book'[c].order # "buy"
          /\ \/ ~book'[c].pos.eod /\ ~book'[c].pos.held /\ book'[c].pos.at = 0
             \/ /\ book'[c].pos.at = book[c].pos.at /\ book'[c].pos.eod = book[c].pos.eod
                /\ book'[c].pos.held = book[c].pos.held
      BY <1>4, OrderEndsStock
    <2>2. Now \in Nat
      BY ClockNow DEF Typed, TypeOK
    <2>3. Late(book'[c])
      BY <2>1, <2>2 DEF BoughtLate, Late
    <2> QED
      BY <1>1, <2>1, <2>3 DEF Others, BoughtLate, clock
  <1>5. ASSUME NEW c \in Codes, NEW type \in Types, Accepted(c, type) PROVE BoughtLate'
    <2>1. /\ Others(c) /\ UNCHANGED clock /\ book'[c].pos = book[c].pos
          /\ \/ book'[c].order = book[c].order /\ book'[c].meta = book[c].meta
             \/ ~book'[c].meta.held /\ (book'[c].meta.eod => EodStart <= Time)
      BY <1>5, AcceptedStock
    <2>2. Late(book'[c])
      BY <2>1 DEF BoughtLate, Late
    <2> QED
      BY <1>1, <2>1, <2>2 DEF Others, BoughtLate, clock
  <1>6. CASE Restart
    <2>1. Now \in Nat
      BY ClockNow DEF Typed, TypeOK
    <2>2. \A c \in Codes : Late(book'[c])
      BY <1>6, <2>1, RestartStock DEF Late
    <2> QED
      BY <1>1, <1>6, <2>2 DEF Restart
  <1>7. CASE TimePasses
    <2>1. ASSUME NEW c \in Codes PROVE book'[c].order = "none" /\ book'[c].pos = book[c].pos
      BY <1>7, TimePassesStock
    <2>2. Now <= Now' /\ day <= day' /\ day \in Int /\ day' \in Int /\ Now \in Int /\ Now' \in Int
      BY <1>7, TimeGoesOn
    <2>3. ASSUME NEW c \in Codes PROVE Late(book[c])'
      <3>1. book[c].pos.at \in Int /\ Day(book[c].pos.at) \in Int
        BY DEF Typed, TypeOK, Stock, Position, Stamp, Day
      <3>2. Late(book[c])
        BY DEF BoughtLate
      <3> QED
        BY <2>1, <2>2, <3>1, <3>2 DEF Late
    <2> QED
      BY <2>3 DEF BoughtLate
  <1>8. CASE UserToggles \/ (\E c \in Codes, type \in Types : Rejected(c, type)) \/ UNCHANGED vars
    <2>1. UNCHANGED <<day, tick, book>>
      BY <1>8 DEF UserToggles, Rejected, vars, clock
    <2> QED
      BY <1>1, <2>1 DEF BoughtLate
  <1> QED
    BY <1>2, <1>3, <1>4, <1>5, <1>6, <1>7, <1>8 DEF Next, SaleEnds

\* The opening gap of an overnight holding is judged on a later day than the one
\* it was bought on, whenever the window of the strategy opens after the gap
\* check.  (check_overnight_gap, _on_timer_timeout, MaySignal)
THEOREM GapsJudged == ASSUME EodStart >= 570 PROVE Spec => []GapJudgedLater
  <1>1. Typed /\ BoughtLate => GapJudgedLater
    BY DEF Typed, BoughtLate, Late, GapJudgedLater
  <1>2. Spec => []BoughtLate
    BY TypeCorrect, InitLate, NextLate, PTL DEF Spec
  <1> QED
    BY <1>1, <1>2, TypeCorrect, PTL

-----------------------------------------------------------------------------
(* A stopped-out code stays out for the day *)

LEMMA InitRemembered == Init => Remembered
  <1> SUFFICES ASSUME Init PROVE Remembered
    OBVIOUS
  <1>1. day = 1 /\ lossFile.date = 0 /\ \A c \in Codes : lostOn[c] = 0 /\ book[c].lossAt = 0
    BY DEF Init, Nothing
  <1>2. Day(0) = 0
    BY DEF Day
  <1> QED
    BY <1>1, <1>2 DEF Remembered, StopsMarked, Marked, MarksSaved

\* A change of the marks is written to disk at once.
LEMMA SaveKeeps ==
    ASSUME MarksSaved, day \in Int, lossFile' = Saved(book'), day' = day
    PROVE  MarksSaved'
  <1>1. CASE \A c \in Codes : book'[c].lossAt = book[c].lossAt
    <2>1. lossFile' = lossFile
      BY <1>1 DEF Saved
    <2> QED
      BY <1>1, <2>1 DEF MarksSaved, Day
  <1>2. CASE ~\A c \in Codes : book'[c].lossAt = book[c].lossAt
    <2> DEFINE marks == [c \in Codes |-> book'[c].lossAt]
    <2>1. lossFile' = [date |-> day, entries |-> marks]
      BY <1>2 DEF Saved
    <2>2. \A c \in Codes : marks[c] = book'[c].lossAt
      OBVIOUS
    <2> HIDE DEF marks
    <2>3. lossFile'.date = day /\ lossFile'.entries = marks
      BY <2>1
    <2> QED
      BY <2>2, <2>3 DEF MarksSaved
  <1> QED
    BY <1>1, <1>2

\* What a handler marks, it marks now.
LEMMA HandlerMarks ==
    ASSUME Typed, StopsMarked, HandlerStep, NEW c \in Codes, lostOn'[c] = lostOn[c]
    PROVE  Marked(c)'
  <1>1. day' = day /\ book'[c].lossAt \in {book[c].lossAt, Now}
    BY DEF HandlerStep, Kept
  <1>2. Now # 0 /\ Day(Now) = day /\ day \in Int
    BY ClockNow, ConstantsAssumption DEF Typed, TypeOK
  <1>3. Marked(c)
    BY DEF StopsMarked
  <1>4. CASE book'[c].lossAt = Now
    BY <1>1, <1>2, <1>3, <1>4 DEF Marked, Day
  <1>5. CASE book'[c].lossAt = book[c].lossAt
    BY <1>1, <1>3, <1>5 DEF Marked, Day
  <1> QED
    BY <1>1, <1>4, <1>5

\* A sale at a loss that lostOn records is marked by the step that sends it.
LEMMA LossMarks ==
    ASSUME Typed, StopsMarked, HandlerStep, NEW pct, lostOn' = Lost(book', pct), NEW c \in Codes,
           book[c].order # "sale" /\ book'[c].order = "sale" /\ Losing(book'[c].pos)
             /\ AtMost(book'[c].pos, pct) => book'[c].lossAt = Now
    PROVE  Marked(c)'
  <1> DEFINE lost == book[c].order # "sale" /\ book'[c].order = "sale" /\ Losing(book'[c].pos)
                      /\ AtMost(book'[c].pos, pct)
  <1>1. lostOn'[c] = IF lost THEN day ELSE lostOn[c]
    BY DEF Lost
  <1>2. CASE lost
    <2>1. lostOn'[c] = day /\ book'[c].lossAt = Now /\ day' = day
      BY <1>1, <1>2 DEF HandlerStep
    <2>2. Now # 0 /\ Day(Now) = day /\ day \in Int
      BY ClockNow, ConstantsAssumption DEF Typed, TypeOK
    <2> QED
      BY <2>1, <2>2 DEF Marked, Day
  <1>3. CASE ~lost
    BY <1>1, <1>3, HandlerMarks
  <1> QED
    BY <1>2, <1>3

LEMMA NextRemembered ==
    ASSUME TargetsAbove
    PROVE  Typed /\ Typed' /\ Remembered /\ [Next]_vars => Remembered'
  <1> SUFFICES ASSUME Typed, Typed', Remembered, [Next]_vars
               PROVE  Remembered'
    OBVIOUS
  <1>1. StopsMarked /\ MarksSaved /\ TypeOK /\ day \in Nat \ {0}
        /\ (\A c \in Codes : lostOn[c] \in Int /\ book[c].lossAt \in Nat /\ Day(book[c].lossAt) \in Int)
        /\ lossFile.date \in Int
    <2>1. TypeOK /\ MaxDays \in Nat
      BY ConstantsAssumption DEF Typed
    <2>2. \A c \in Codes : lostOn[c] \in Int /\ book[c].lossAt \in Nat
      BY <2>1 DEF TypeOK, Stock, Stamp
    <2> QED
      BY <2>1, <2>2 DEF Remembered, TypeOK, Day
  <1>2. CASE ExitLoop \/ \E c \in Codes : Tick(c)
    <2>1. HandlerStep
      BY <1>1, <1>2, HandlerSteps
    <2>2. MarksSaved'
      BY <1>1, <2>1, SaveKeeps DEF HandlerStep
    <2>3. CASE ExitLoop
      <3>1. lostOn' = Lost(book', 0)
        BY <2>3 DEF ExitLoop
      <3>2. \A c \in Codes : book[c].order # "sale" /\ book'[c].order = "sale" /\ Losing(book'[c].pos)
                             => book'[c].lossAt = Now
        BY <1>1, <2>3, ExitLoopBook
      <3>3. \A c \in Codes : Marked(c)'
        BY <1>1, <2>1, <3>1, <3>2, LossMarks
      <3> QED
        BY <2>2, <3>3 DEF Remembered, StopsMarked
    <2>4. ASSUME NEW c \in Codes, Tick(c) PROVE Remembered'
      <3>1. lostOn' = Lost(book', TickHard)
        BY <2>4 DEF Tick
      <3>2. /\ \A d \in Codes \ {c} : book'[d] = book[d]
            /\ book[c].order # "sale" /\ book'[c].order = "sale" /\ Losing(book'[c].pos)
                 /\ AtMost(book'[c].pos, TickHard) => book'[c].lossAt = Now
        BY <1>1, <2>4, TickBook
      <3>3. ASSUME NEW d \in Codes PROVE Marked(d)'
        <4>1. book[d].order # "sale" /\ book'[d].order = "sale" /\ Losing(book'[d].pos)
                /\ AtMost(book'[d].pos, TickHard) => book'[d].lossAt = Now
          BY <3>2
        <4> QED
          BY <1>1, <2>1, <3>1, <4>1, LossMarks
      <3> QED
        BY <2>2, <3>3 DEF Remembered, StopsMarked
    <2> QED
      BY <1>2, <2>3, <2>4
  <1>3. CASE MinuteTimer
    <2>1. HandlerStep /\ lostOn' = lostOn
      BY <1>1, <1>3, HandlerSteps DEF MinuteTimer
    <2>2. MarksSaved'
      BY <1>1, <2>1, SaveKeeps DEF HandlerStep
    <2>3. \A c \in Codes : Marked(c)'
      BY <1>1, <2>1, HandlerMarks
    <2> QED
      BY <2>2, <2>3 DEF Remembered, StopsMarked
  <1>4. ASSUME UNCHANGED <<day, lossFile, lostOn>>, \A c \in Codes : book'[c].lossAt = book[c].lossAt
        PROVE  Remembered'
    BY <1>4 DEF Remembered, StopsMarked, MarksSaved, Marked, Day
  <1>5. ASSUME NEW c \in Codes, BuyFills(c) \/ BuyLapses(c) \/ LockEnds(c) \/ SaleEnds(c)
        PROVE  Remembered'
    <2>1. Others(c) /\ UNCHANGED <<clock, lossFile, lostOn>> /\ book'[c].lossAt = book[c].lossAt
      BY <1>5, BuyFillsStock, OrderEndsStock
    <2> QED
      BY <1>4, <2>1 DEF Others, clock
  <1>6. ASSUME NEW c \in Codes, NEW type \in Types, Accepted(c, type) PROVE Remembered'
    <2>1. Others(c) /\ UNCHANGED <<day, lostOn>> /\ lossFile' = Saved(book')
          /\ ~LostToday(c) /\ book'[c].lossAt = 0
      BY <1>6, AcceptedStock DEF clock
    <2>2. MarksSaved'
      BY <1>1, <2>1, SaveKeeps
    <2>3. lostOn[c] # day
      BY <1>1, <2>1 DEF LostToday, StopsMarked, Marked
    <2>4. Marked(c)'
      <3>1. Day(0) = 0
        BY DEF Day
      <3>2. lostOn'[c] <= day' /\ Day(book'[c].lossAt) <= day' /\ lostOn'[c] # day'
        BY <1>1, <2>1, <2>3, <3>1 DEF StopsMarked, Marked
      <3> QED
        BY <3>2 DEF Marked, Day
    <2>5. \A d \in Codes \ {c} : Marked(d)'
      BY <1>1, <2>1 DEF Others, StopsMarked, Marked, Day
    <2> QED
      BY <2>2, <2>4, <2>5 DEF Remembered, StopsMarked
  <1>7. CASE Restart
    <2>1. UNCHANGED <<day, lossFile, lostOn>>
      BY <1>7 DEF Restart, files
    <2>2. CASE lossFile.date = day
      <3>1. \A c \in Codes : book'[c].lossAt = book[c].lossAt
        BY <1>1, <1>7, <2>2, RestartStock DEF MarksSaved
      <3> QED
        BY <1>4, <2>1, <3>1
    <2>3. CASE lossFile.date # day
      <3>1. \A c \in Codes : book'[c].lossAt = 0
        BY <1>7, <2>3, RestartStock
      <3>2. \A c \in Codes : lostOn[c] # day
        BY <1>1, <2>3 DEF MarksSaved, StopsMarked, Marked
      <3>3. Day(0) = 0
        BY DEF Day
      <3>4. \A c \in Codes : lostOn'[c] <= day' /\ Day(book'[c].lossAt) <= day' /\ lostOn'[c] # day'
        BY <1>1, <2>1, <3>1, <3>2, <3>3 DEF StopsMarked, Marked
      <3>5. StopsMarked'
        BY <3>4 DEF StopsMarked, Marked, Day
      <3>6. MarksSaved'
        BY <1>1, <2>1, <2>3, <3>1 DEF MarksSaved
      <3> QED
        BY <3>5, <3>6 DEF Remembered
    <2> QED
      BY <2>2, <2>3
  <1>8. CASE TimePasses
    <2>1. UNCHANGED <<lossFile, lostOn>> /\ \A c \in Codes : book'[c].lossAt = book[c].lossAt
      BY <1>8, TimePassesStock DEF TimePasses, files
    <2>2. day' = day \/ day' = day + 1
      BY <1>8 DEF TimePasses
    <2>3. CASE day' = day + 1
      <3>1. \A c \in Codes : lostOn'[c] < day' /\ Day(book'[c].lossAt) < day'
        BY <1>1, <2>1, <2>3 DEF StopsMarked, Marked
      <3>2. lossFile'.date < day'
        BY <1>1, <2>1, <2>3 DEF MarksSaved
      <3>3. day' \in Int /\ lossFile'.date \in Int
            /\ \A c \in Codes : lostOn'[c] \in Int /\ Day(book'[c].lossAt) \in Int
        BY <1>1, <2>1, <2>3
      <3>4. \A c \in Codes : /\ lostOn'[c] <= day' /\ lostOn'[c] # day'
                            /\ Day(book'[c].lossAt) <= day' /\ Day(book'[c].lossAt) # day'
        BY <3>1, <3>3
      <3>5. lossFile'.date <= day' /\ lossFile'.date # day'
        BY <3>2, <3>3
      <3>6. StopsMarked'
        BY <3>4 DEF StopsMarked, Marked, Day
      <3>7. MarksSaved'
        BY <3>4, <3>5 DEF MarksSaved, Day
      <3> QED
        BY <3>6, <3>7 DEF Remembered
    <2> QED
      BY <1>4, <2>1, <2>2, <2>3
  <1>9. CASE UserToggles \/ (\E c \in Codes, type \in Types : Rejected(c, type)) \/ UNCHANGED vars
    <2>1. UNCHANGED <<day, book, lossFile, lostOn>>
      BY <1>9 DEF UserToggles, Rejected, vars, clock, files
    <2> QED
      BY <1>4, <2>1
  <1> QED
    BY <1>2, <1>3, <1>5, <1>6, <1>7, <1>8, <1>9 DEF Next, SaleEnds

\* Only a signal orders a purchase, and none does for a code that is marked.
LEMMA EntryUnmarked ==
    Typed /\ Remembered /\ [Next]_vars =>
      \A c \in Codes : book[c].order # "buy" /\ book'[c].order = "buy" => lostOn[c] # day
  <1> SUFFICES ASSUME Typed, Remembered, [Next]_vars, NEW c \in Codes,
                      book[c].order # "buy", book'[c].order = "buy"
               PROVE  lostOn[c] # day
    OBVIOUS
  <1>1. ~(ExitLoop \/ MinuteTimer \/ \E d \in Codes : Tick(d))
    <2> SUFFICES ASSUME ExitLoop \/ MinuteTimer \/ \E d \in Codes : Tick(d) PROVE FALSE
      OBVIOUS
    <2>1. HandlerStep
      BY HandlerSteps DEF Typed
    <2> QED
      BY <2>1 DEF HandlerStep, Kept, Working
  <1>2. ~\E d \in Codes : BuyFills(d) \/ BuyLapses(d) \/ LockEnds(d) \/ SaleEnds(d)
    <2> SUFFICES ASSUME NEW d \in Codes, BuyFills(d) \/ BuyLapses(d) \/ LockEnds(d) \/ SaleEnds(d)
                 PROVE  FALSE
      OBVIOUS
    <2>1. Others(d) /\ book'[d].order # "buy"
      BY BuyFillsStock, OrderEndsStock
    <2> QED
      BY <2>1 DEF Others
  <1>3. ~Restart /\ ~TimePasses
    BY RestartStock, TimePassesStock
  <1>4. ~(UserToggles \/ (\E d \in Codes, type \in Types : Rejected(d, type)) \/ UNCHANGED vars)
    BY DEF UserToggles, Rejected, vars
  <1>5. PICK d \in Codes, type \in Types : Accepted(d, type)
    BY <1>1, <1>2, <1>3, <1>4 DEF Next, SaleEnds
  <1>6. Others(d) /\ ~LostToday(d)
    BY <1>5, AcceptedStock
  <1>7. c = d
    BY <1>6 DEF Others
  <1> QED
    BY <1>6, <1>7 DEF LostToday, Remembered, StopsMarked, Marked

\* A code that the exit loop sold at a loss, or a tick at the hard stop, is not
\* bought again on that day, over restarts as well, whenever no target lies below
\* the price paid.  (mark_loss_exit, _save_loss_exit_dict, should_entry)
THEOREM NoReentry == ASSUME TargetsAbove PROVE Spec => NoReentryAfterStop
  <1>1. Spec => []Remembered
    BY TypeCorrect, InitRemembered, NextRemembered, PTL DEF Spec
  <1>2. Typed /\ Remembered /\ [Next]_vars =>
          [\A c \in Codes : book[c].order # "buy" /\ book'[c].order = "buy" => lostOn[c] # day]_vars
    BY EntryUnmarked
  <1> QED
    BY <1>1, <1>2, TypeCorrect, PTL DEF Spec, NoReentryAfterStop

-----------------------------------------------------------------------------
(* Overnight holdings are decided at 09:30 *)

LEMMA InitForced == Init => ForcedWorks
  BY DEF Init, ForcedWorks, Unforced, Nothing

LEMMA NextForced == Typed /\ ForcedWorks /\ [Next]_vars => ForcedWorks'
  <1> SUFFICES ASSUME Typed, ForcedWorks, [Next]_vars
               PROVE  ForcedWorks'
    OBVIOUS
  <1>1. ASSUME \A c \in Codes : Unforced(book'[c]) PROVE ForcedWorks'
    BY <1>1 DEF ForcedWorks, Unforced
  <1>2. CASE ExitLoop \/ MinuteTimer \/ \E c \in Codes : Tick(c)
    <2>1. HandlerStep
      BY <1>2, HandlerSteps DEF Typed
    <2>2. \A c \in Codes : Unforced(book'[c])
      BY <2>1 DEF HandlerStep, Kept, Working, ForcedWorks, Unforced
    <2> QED
      BY <1>1, <2>2
  <1>3. ASSUME NEW c \in Codes, BuyFills(c) \/ BuyLapses(c) \/ LockEnds(c) \/ SaleEnds(c)
        PROVE  ForcedWorks'
    <2>1. Others(c) /\ Unforced(book'[c])
      BY <1>3, BuyFillsStock, OrderEndsStock DEF ForcedWorks, Unforced
    <2> QED
      BY <1>1, <2>1 DEF Others, ForcedWorks
  <1>4. ASSUME NEW c \in Codes, NEW type \in Types, Accepted(c, type) PROVE ForcedWorks'
    <2>1. Others(c) /\ Unforced(book'[c])
      BY <1>4, AcceptedStock DEF ForcedWorks, Unforced
    <2> QED
      BY <1>1, <2>1 DEF Others, ForcedWorks
  <1>5. CASE Restart
    BY <1>1, <1>5, RestartStock DEF Unforced
  <1>6. CASE TimePasses
    <2>1. \A c \in Codes : Unforced(book'[c])
      BY <1>6, TimePassesStock DEF ForcedWorks, Unforced
    <2> QED
      BY <1>1, <2>1
  <1>7. CASE UserToggles \/ (\E c \in Codes, type \in Types : Rejected(c, type)) \/ UNCHANGED vars
    <2>1. book' = book
      BY <1>7 DEF UserToggles, Rejected, vars
    <2> QED
      BY <2>1 DEF ForcedWorks, Unforced
  <1> QED
    BY <1>2, <1>3, <1>4, <1>5, <1>6, <1>7 DEF Next, SaleEnds

LEMMA ForceSells ==
    ASSUME NEW s \in Stock, Now \in Stamp, InHours(Time), ~s.forced, Owned(s), s.order = "none"
    PROVE  force_exit(s).order = "sale"
  <1> DEFINE t == sell(s, "sale")
  <1>1. t \in Stock /\ t.order = "sale"
    BY sellHandled DEF Handled, Working
  <1>2. force_exit(s) = [t EXCEPT !.barred = TRUE, !.forced = TRUE]
    BY DEF force_exit
  <1> HIDE DEF t
  <1> QED
    BY <1>1, <1>2 DEF Stock

\* The two checks of 09:30, one after the other.
LEMMA Decided ==
    ASSUME NEW s \in Stock, Now \in Stamp, Time = 570, ~s.forced, Owned(s), s.pos.eod,
           s.order = "none"
    PROVE  LET t == check_eod_daytime_targets(check_overnight_timecut(s))
           IN  \/ t.order = "sale"
               \/ t.pos.held /\ AtLeast(t.pos, TimeCutMin)
               \/ ~t.pos.held /\ ~AtMost(t.pos, EodStop)
  <1>1. InHours(Time) /\ ~GapTime
    BY DEF InHours, GapTime
  <1>2. CASE s.pos.held /\ ~AtLeast(s.pos, TimeCutMin)
    <2> DEFINE u == check_overnight_timecut(s)
    <2>1. u = force_exit(s)
      BY <1>2 DEF check_overnight_timecut
    <2>2. u.order = "sale" /\ u \in Stock
      BY <1>1, <2>1, ForceSells, force_exitHandled DEF Handled
    <2> HIDE DEF u
    <2>3. Handled(u, check_eod_daytime_targets(u))
      BY <2>2, TargetsHandled
    <2>4. check_eod_daytime_targets(u).order = "sale"
      BY <2>2, <2>3 DEF Handled, Working
    <2> QED
      BY <2>4 DEF u
  <1>3. CASE s.pos.held /\ AtLeast(s.pos, TimeCutMin)
    <2>1. check_overnight_timecut(s) = s
      BY <1>3 DEF check_overnight_timecut
    <2>2. check_eod_daytime_targets(s) = s
      BY <1>3 DEF check_eod_daytime_targets, BeforeGap
    <2> QED
      BY <1>3, <2>1, <2>2
  <1>4. CASE ~s.pos.held
    <2>1. check_overnight_timecut(s) = s
      BY <1>4 DEF check_overnight_timecut
    <2>2. CASE AtMost(s.pos, EodStop)
      <3> DEFINE m == mark_stop_loss(s)
      <3>1. check_eod_daytime_targets(s) = force_exit(m)
        BY <1>4, <2>2 DEF check_eod_daytime_targets, BeforeGap
      <3>2. m \in Stock /\ m.order = "none" /\ m.pos = s.pos /\ ~m.forced
        BY mark_stop_lossHandled DEF Handled, Working
      <3> HIDE DEF m
      <3>3. force_exit(m).order = "sale"
        BY <1>1, <3>2, ForceSells DEF Owned
      <3> QED
        BY <2>1, <3>1, <3>3
    <2>3. CASE ~AtMost(s.pos, EodStop)
      <3> DEFINE t == check_eod_daytime_targets(s)
      <3>1. Handled(s, t)
        BY TargetsHandled
      <3> HIDE DEF t
      <3>2. ~t.pos.held
        BY <1>1, <1>4, <3>1 DEF Handled
      <3>3. ~AtMost(t.pos, EodStop)
        BY <2>3, <3>1 DEF Handled, AtMost
      <3> QED
        BY <2>1, <3>2, <3>3 DEF t
    <2> QED
      BY <2>2, <2>3
  <1> QED
    BY <1>2, <1>3, <1>4

LEMMA TimerOfNine ==
    ASSUME Typed, ForcedWorks, [Next]_vars, Time = 570, ~fired, fired', NEW c \in Codes,
           Managed(book[c]), book[c].pos.eod, book[c].order = "none"
    PROVE  \/ book'[c].order = "sale"
           \/ book'[c].pos.held /\ AtLeast(book'[c].pos, TimeCutMin)
           \/ ~book'[c].pos.held /\ ~AtMost(book'[c].pos, EodStop)
  <1>1. MinuteTimer
    BY ZenonT(60) DEF Next, ExitLoop, UserToggles, TimePasses, Restart, Tick, BuyFills, BuyLapses,
       SaleFills, SaleLapses, SaleRefused, LockEnds, Rejected, Accepted, clock, vars
  <1>2. ~Midnight
    BY DEF Midnight
  <1>3. PICK facts \in [Codes -> Shown] : book' = Scheduled(facts)
    BY <1>1, <1>2 DEF MinuteTimer
  <1>4. book \in [Codes -> Stock] /\ book[c] \in Stock /\ Now \in Stamp /\ Time \in Nat
    BY ClockNow DEF Typed, TypeOK
  <1>5. book' = [d \in Codes |-> check_eod_daytime_targets(check_overnight_timecut(book[d]))]
    BY <1>3, <1>4, ScheduledHandled
  <1>6. book'[c] = check_eod_daytime_targets(check_overnight_timecut(book[c]))
    BY <1>5
  <1>7. ~book[c].forced /\ Owned(book[c])
    BY DEF ForcedWorks, Unforced, Managed
  <1> QED
    BY <1>4, <1>6, <1>7, Decided

\* At 09:30 every overnight holding is sold, or kept with the profit asked for,
\* or held against the stop of the day.
\* (check_overnight_timecut, check_eod_daytime_targets)
THEOREM DecidedAtNineThirty == Spec => OvernightDecided
  <1>1. Spec => []ForcedWorks
    BY TypeCorrect, InitForced, NextForced, PTL DEF Spec
  <1>2. Typed /\ ForcedWorks /\ [Next]_vars =>
          [Time = 570 /\ ~fired /\ fired' => \A c \in Codes :
             Managed(book[c]) /\ book[c].pos.eod /\ Day(book[c].pos.at) < day
               /\ book[c].order = "none" =>
                 \/ book'[c].order = "sale"
                 \/ book'[c].pos.held /\ AtLeast(book'[c].pos, TimeCutMin)
                 \/ ~book'[c].pos.held /\ ~AtMost(book'[c].pos, EodStop)]_vars
    BY TimerOfNine
  <1> QED
    BY <1>1, <1>2, TypeCorrect, PTL DEF Spec, OvernightDecided

-----------------------------------------------------------------------------
(* Day trades are closed *)

\* The timer runs at midnight and in the minute of the close.
ClosingOnClock == Clock[1] = 0 /\ \E i \in DOMAIN Clock : Clock[i] = 920

Closing == ClosingAhead /\ ClosingOrders

LEMMA InitClosing == ASSUME ClosingOnClock PROVE Init => Closing
  <1> SUFFICES ASSUME Init PROVE Closing
    OBVIOUS
  <1>1. Time = 0 /\ ~fired
    BY DEF Init, Time, ClosingOnClock
  <1>2. \A c \in Codes : ~Managed(book[c])
    BY DEF Init, Nothing, NoPosition, Managed, Owned
  <1> QED
    BY <1>1, <1>2 DEF Closing, ClosingAhead, ClosingOrders, ClosingOrder

\* The clock does not pass the minute of the close without stopping at it.
LEMMA NoLeap ==
    ASSUME ClosingOnClock, NEW i \in DOMAIN Clock,
           \/ i + 1 \in DOMAIN Clock /\ Clock[i + 1] > 920
           \/ i = Len(Clock)
    PROVE  Clock[i] >= 920
  <1> DEFINE minutes == 0..1439
  <1>1. Clock \in Seq(minutes)
    BY ConstantsAssumption
  <1>2. PICK k \in DOMAIN Clock : Clock[k] = 920
    BY DEF ClosingOnClock
  <1> HIDE DEF minutes
  <1>3. i \in Nat /\ k \in Nat /\ (i = Len(Clock) => k <= i)
    BY <1>1
  <1>4. \A a \in DOMAIN Clock : Clock[a] \in Int
    BY ClockInt
  <1>5. \A a, b \in DOMAIN Clock : a < b => Clock[a] < Clock[b]
    BY ConstantsAssumption
  <1>6. CASE k <= i
    <2>1. CASE k = i
      BY <1>2, <2>1
    <2>2. CASE k # i
      <3>1. k < i
        BY <1>3, <1>6, <2>2
      <3>2. Clock[k] < Clock[i]
        BY <1>5, <3>1
      <3>3. Clock[i] \in Int
        BY <1>4
      <3> QED
        BY <1>2, <3>2, <3>3
    <2> QED
      BY <2>1, <2>2
  <1>7. CASE i < k
    <2> DEFINE j == i + 1
    <2>1. j \in DOMAIN Clock /\ Clock[j] > 920 /\ (j = k \/ j < k)
      BY <1>3, <1>7
    <2> HIDE DEF j
    <2>2. Clock[j] \in Int
      BY <1>4, <2>1
    <2>3. j # k
      BY <1>2, <2>1, <2>2
    <2>4. Clock[j] < Clock[k]
      BY <1>5, <2>1, <2>3
    <2> QED
      BY <1>2, <2>1, <2>2, <2>4
  <1> QED
    BY <1>3, <1>6, <1>7

\* What a handler keeps of a holding that waits for the close.
LEMMA ClosingKept ==
    ASSUME NEW s, NEW n, ClosingOrder(s, n), NEW t, Kept(s, t)
    PROVE  ClosingOrder(t, n)
  <1>1. Managed(t) => Managed(s)
    BY DEF Kept, Managed, Owned
  <1>2. Working(s) => Working(t)
    BY DEF Kept, Working
  <1> QED
    BY <1>1, <1>2 DEF ClosingOrder, Kept, Excused

LEMMA SameClosing ==
    ASSUME UNCHANGED clock, \A c \in Codes : ClosingOrder(book'[c], unsold'[c])
    PROVE  ClosingOrders'
  <1>1. Closed' = Closed /\ UNCHANGED <<day, done>>
    BY DEF Closed, Time, clock
  <1> QED
    BY <1>1 DEF ClosingOrders, ClosingOrder, Excused, Day, Minute, Managed, Owned, Working

\* What the end of an order writes down of what it leaves.
LEMMA LeftOver ==
    ASSUME Typed, NEW c \in Codes,
           BuyFills(c) \/ BuyLapses(c) \/ LockEnds(c) \/ SaleEnds(c)
    PROVE  /\ \A d \in Codes \ {c} : unsold'[d] = unsold[d]
           /\ unsold'[c] \in {unsold[c], day}
           /\ Working(book[c]) /\ Managed(book'[c]) /\ "closing" \in done => unsold'[c] = day
  <1>1. unsold \in [Codes -> 0..MaxDays] /\ book \in [Codes -> Stock] /\ book[c] \in Stock
    BY DEF Typed, TypeOK
  <1>2. ASSUME NEW keeps, Left(c, keeps)
        PROVE  /\ \A d \in Codes \ {c} : unsold'[d] = unsold[d]
               /\ unsold'[c] \in {unsold[c], day}
               /\ keeps /\ "closing" \in done => unsold'[c] = day
    BY <1>1, <1>2 DEF Left
  <1>3. CASE SaleFills(c)
    <2>1. book' = [book EXCEPT ![c] = Sold(book[c])] /\ Left(c, Owned(Sold(book[c])))
      BY <1>3 DEF SaleFills
    <2>2. Managed(book'[c]) => Owned(Sold(book[c]))
      BY <1>1, <2>1 DEF Managed
    <2> QED
      BY <1>2, <2>1, <2>2
  <1>4. CASE SaleLapses(c)
    <2>1. Left(c, TRUE)
      BY <1>4 DEF SaleLapses
    <2> QED
      BY <1>2, <2>1
  <1>5. CASE SaleRefused(c)
    <2> DEFINE free == [book[c] EXCEPT !.order = "none", !.forced = FALSE]
               lost == [free EXCEPT !.pos = NoPosition]
               back == [free EXCEPT !.pos = Holding(book[c].pos)]
    <2>1. unsold' = unsold /\ (book' = [book EXCEPT ![c] = lost] \/ book' = [book EXCEPT ![c] = back])
      BY <1>5 DEF SaleRefused, files
    <2>2. free \in Stock
      BY <1>1 DEF Stock
    <2> HIDE DEF free
    <2>3. lost.pos = NoPosition /\ back.pos = Holding(book[c].pos)
      BY <2>2 DEF Stock
    <2> HIDE DEF lost, back
    <2>4. ~NoPosition.app /\ ~Holding(book[c].pos).app
      BY DEF Holding, NoPosition
    <2>5. ~Managed(book'[c])
      BY <1>1, <2>1, <2>3, <2>4 DEF Managed
    <2> QED
      BY <2>1, <2>5
  <1>6. CASE BuyFills(c) \/ BuyLapses(c) \/ LockEnds(c)
    BY <1>6 DEF BuyFills, BuyLapses, LockEnds, files, Working
  <1> QED
    BY <1>3, <1>4, <1>5, <1>6 DEF SaleEnds

LEMMA NextAhead ==
    ASSUME ClosingOnClock
    PROVE  Typed /\ Typed' /\ ClosingAhead /\ [Next]_vars => ClosingAhead'
  <1> SUFFICES ASSUME Typed, Typed', ClosingAhead, [Next]_vars
               PROVE  ClosingAhead'
    OBVIOUS
  <1>1. Time \in 0..1439 /\ tick \in DOMAIN Clock /\ tick' \in DOMAIN Clock /\ Time' \in 0..1439
    <2>1. tick \in DOMAIN Clock /\ tick' \in DOMAIN Clock
      BY DEF Typed, TypeOK
    <2> QED
      BY <2>1, ClockMinute DEF Time
  <1>2. CASE MinuteTimer
    <2>1. Time' = Time /\ fired' /\ ~fired
      BY <1>2 DEF MinuteTimer, Time
    <2>2. CASE Midnight
      BY <1>2, <2>2 DEF MinuteTimer, ClosingAhead
    <2>3. CASE ~Midnight
      <3>1. done' = done \cup Due
        BY <1>2, <2>3 DEF MinuteTimer
      <3>2. CASE "closing" \in Due
        <4>1. Time = 920
          BY <3>2, DueJobs
        <4> QED
          BY <2>1, <4>1 DEF ClosingAhead, Closed
      <3>3. CASE "closing" \notin Due /\ "closing" \in done
        <4>1. Closed
          BY <2>3, <3>3 DEF ClosingAhead, Midnight
        <4> QED
          BY <2>1, <4>1 DEF ClosingAhead, Closed
      <3>4. CASE "closing" \notin Due /\ "closing" \notin done
        BY <3>1, <3>4 DEF ClosingAhead
      <3> QED
        BY <3>2, <3>3, <3>4
    <2> QED
      BY <2>2, <2>3
  <1>3. CASE TimePasses
    <2>1. done' = done /\ fired /\ ~fired'
      BY <1>3 DEF TimePasses
    <2>2. CASE tick' = 1
      BY <2>1, <2>2 DEF ClosingAhead, Time, ClosingOnClock
    <2>3. CASE tick' = tick + 1
      <3>1. CASE Closed
        <4>1. Clock[tick] < Clock[tick + 1]
          BY <1>1, <2>3, ClockForward
        <4>2. Time < Time'
          BY <2>3, <4>1 DEF Time
        <4>3. Time' > 920
          BY <1>1, <3>1, <4>2 DEF Closed
        <4> QED
          BY <4>3 DEF ClosingAhead, Closed
      <3>2. CASE ~Closed
        BY <2>1, <3>2 DEF ClosingAhead
      <3> QED
        BY <3>1, <3>2
    <2> QED
      BY <1>3, <2>2, <2>3 DEF TimePasses
  <1>4. CASE Restart
    BY <1>4 DEF Restart, ClosingAhead
  <1>5. CASE ~MinuteTimer /\ ~TimePasses /\ ~Restart
    <2>1. UNCHANGED clock
      BY <1>5, ZenonT(60) DEF Next, ExitLoop, UserToggles, Tick, BuyFills, BuyLapses, SaleFills, SaleLapses,
         SaleRefused, LockEnds, Rejected, Accepted, vars
    <2> QED
      BY <2>1 DEF clock, ClosingAhead, Closed, Time
  <1> QED
    BY <1>2, <1>3, <1>4, <1>5

LEMMA NextClosing ==
    ASSUME ClosingOnClock
    PROVE  Typed /\ Typed' /\ Closing /\ [Next]_vars => Closing'
  <1> SUFFICES ASSUME Typed, Typed', ClosingAhead, ClosingOrders, [Next]_vars
               PROVE  ClosingOrders'
    BY NextAhead DEF Closing
  <1>1. TypeOK /\ Now \in Nat /\ Day(Now) = day /\ Minute(Now) = Time /\ Time \in 0..1439
        /\ day \in Nat
    <2>1. TypeOK /\ day \in Nat
      <3>1. MaxDays \in Nat /\ day \in 1..MaxDays
        BY ConstantsAssumption DEF Typed, TypeOK
      <3> QED
        BY <3>1 DEF Typed
    <2>2. Now \in Nat /\ Day(Now) = day /\ Minute(Now) = Time /\ Time \in 0..1439
      BY ClockNow DEF Typed, TypeOK
    <2> QED
      BY <2>1, <2>2
  <1>2. CASE ExitLoop \/ \E c \in Codes : Tick(c)
    <2>1. HandlerStep
      BY <1>1, <1>2, HandlerSteps
    <2>2. UNCHANGED <<clock, unsold>>
      BY <1>2, ZenonT(30) DEF ExitLoop, Tick
    <2>3. \A c \in Codes : ClosingOrder(book'[c], unsold'[c])
      BY <2>1, <2>2, ClosingKept DEF HandlerStep, ClosingOrders
    <2> QED
      BY <2>2, <2>3, SameClosing
  <1>3. CASE MinuteTimer
    <2>1. HandlerStep /\ UNCHANGED <<day, tick, unsold>> /\ ~fired /\ fired'
      BY <1>1, <1>3, HandlerSteps DEF MinuteTimer
    <2>2. ASSUME NEW c \in Codes PROVE ClosingOrder(book'[c], unsold[c])
      BY <2>1, ClosingKept DEF HandlerStep, ClosingOrders
    <2>3. CASE Time # 920
      <3>1. Closed' = Closed
        BY <2>1, <2>3 DEF Closed, Time
      <3>2. Closed /\ "closing" \in done => "closing" \in done'
        <4>1. Closed => ~Midnight
          BY DEF Closed, Midnight
        <4> QED
          BY <1>3, <4>1 DEF MinuteTimer
      <3>3. ASSUME NEW c \in Codes PROVE ClosingOrder(book[c], unsold[c])'
        BY <2>1, <2>2, <3>1, <3>2 DEF ClosingOrder, Excused, Day, Minute, Managed, Owned, Working
      <3> QED
        BY <3>3 DEF ClosingOrders
    <2>4. CASE Time = 920
      <3>1. "closing" \in Due /\ ~Midnight
        <4>1. ~Closed /\ Time # 0
          BY <2>1, <2>4 DEF Closed
        <4>2. "closing" \notin done
          BY <4>1 DEF ClosingAhead
        <4> QED
          BY <2>4, <4>1, <4>2, DueJobs DEF Midnight
      <3>2. PICK facts \in [Codes -> Shown] : book' = Scheduled(facts)
        BY <1>3, <3>1 DEF MinuteTimer
      <3>3. ASSUME NEW c \in Codes, Managed(book'[c]), ~book'[c].pos.eod
            PROVE  Working(book'[c])
        <4>1. Managed(book[c]) /\ ~book[c].pos.eod
          BY <2>1, <3>3 DEF HandlerStep, Kept, Managed, Owned
        <4>2. Working(book[c]) => Working(book'[c])
          BY <2>1 DEF HandlerStep, Kept, Working
        <4>3. book \in [Codes -> Stock] /\ Now \in Stamp /\ Time \in Nat
          BY <1>1, ClockNow DEF TypeOK
        <4>4. ~Working(book[c]) => book'[c].order = "sale"
          BY <3>1, <3>2, <4>1, <4>3, ScheduledHandled
        <4> QED
          BY <4>2, <4>4 DEF Working
      <3>4. "closing" \in done'
        BY <1>3, <3>1 DEF MinuteTimer
      <3>5. ASSUME NEW c \in Codes PROVE ClosingOrder(book[c], unsold[c])'
        <4>1. ClosingOrder(book'[c], unsold[c])
              /\ (Managed(book'[c]) /\ ~book'[c].pos.eod => Working(book'[c]))
          BY <2>2, <3>3
        <4> QED
          BY <2>1, <3>4, <4>1 DEF ClosingOrder, Excused, Day, Minute, Managed, Owned, Working
      <3> QED
        BY <3>5 DEF ClosingOrders
    <2> QED
      BY <2>3, <2>4
  <1>4. ASSUME NEW c \in Codes, BuyFills(c) PROVE ClosingOrders'
    <2>1. Others(c) /\ UNCHANGED clock /\ book'[c].pos.at = Now
          /\ \A d \in Codes \ {c} : unsold'[d] = unsold[d]
      BY <1>4, BuyFillsStock, LeftOver
    <2>2. ClosingOrder(book'[c], unsold'[c])
      BY <1>1, <2>1 DEF ClosingOrder, Excused, Closed
    <2>3. \A d \in Codes : ClosingOrder(book'[d], unsold'[d])
      BY <2>1, <2>2 DEF Others, ClosingOrders
    <2> QED
      BY <2>1, <2>3, SameClosing
  <1>5. ASSUME NEW c \in Codes, BuyLapses(c) \/ LockEnds(c) \/ SaleEnds(c) PROVE ClosingOrders'
    <2>1. /\ Others(c) /\ UNCHANGED clock
          /\ \/ ~book'[c].pos.app
             \/ /\ book'[c].pos.at = book[c].pos.at /\ book'[c].pos.eod = book[c].pos.eod
                /\ book'[c].pos.app = book[c].pos.app
                /\ Owned(book'[c]) => Owned(book[c])
      BY <1>5, OrderEndsStock
    <2>2. /\ \A d \in Codes \ {c} : unsold'[d] = unsold[d]
          /\ unsold'[c] \in {unsold[c], day}
          /\ Working(book[c]) /\ Managed(book'[c]) /\ "closing" \in done => unsold'[c] = day
      BY <1>5, LeftOver
    <2>3. ClosingOrder(book'[c], unsold'[c])
      <3> SUFFICES ASSUME Managed(book'[c]), ~book'[c].pos.eod
                   PROVE  ClosingOrder(book'[c], unsold'[c])
        BY DEF ClosingOrder
      <3>1. /\ Managed(book[c]) /\ ~book[c].pos.eod
            /\ book'[c].pos.at = book[c].pos.at
        BY <2>1 DEF Managed
      <3>2. ClosingOrder(book[c], unsold[c])
        BY DEF ClosingOrders
      <3>3. Day(book[c].pos.at) <= day
        BY <3>1, <3>2 DEF ClosingOrder
      <3>4. CASE unsold'[c] = day
        BY <3>1, <3>3, <3>4 DEF ClosingOrder, Excused
      <3>5. CASE unsold'[c] # day
        <4>1. unsold'[c] = unsold[c] /\ ~(Working(book[c]) /\ "closing" \in done)
          BY <2>2, <3>5
        <4> QED
          BY <3>1, <3>2, <4>1 DEF ClosingOrder, Excused
      <3> QED
        BY <3>4, <3>5
    <2>4. \A d \in Codes : ClosingOrder(book'[d], unsold'[d])
      BY <2>1, <2>2, <2>3 DEF Others, ClosingOrders
    <2> QED
      BY <2>1, <2>4, SameClosing
  <1>6. ASSUME NEW c \in Codes, NEW type \in Types, Accepted(c, type) PROVE ClosingOrders'
    <2>1. /\ Others(c) /\ UNCHANGED clock /\ book'[c].pos = book[c].pos
          /\ book'[c].order = book[c].order \/ ~Owned(book[c])
      BY <1>6, AcceptedStock
    <2>2. unsold' = unsold
      BY <1>6 DEF Accepted
    <2>3. ClosingOrder(book'[c], unsold'[c])
      BY <2>1, <2>2 DEF ClosingOrders, ClosingOrder, Excused, Managed, Owned, Working
    <2>4. \A d \in Codes : ClosingOrder(book'[d], unsold'[d])
      BY <2>1, <2>2, <2>3 DEF Others, ClosingOrders
    <2> QED
      BY <2>1, <2>4, SameClosing
  <1>7. CASE Restart
    <2>1. \A c \in Codes : ~Managed(book'[c])
      BY <1>7, RestartStock DEF Managed
    <2> QED
      BY <2>1 DEF ClosingOrders, ClosingOrder, Managed, Owned
  <1>8. CASE TimePasses
    <2>1. \A c \in Codes : book[c].order = "none" /\ book'[c].pos = book[c].pos
      BY <1>8, TimePassesStock
    <2>2. tick \in DOMAIN Clock /\ tick' \in DOMAIN Clock /\ Time' \in 0..1439
      <3>1. tick \in DOMAIN Clock /\ tick' \in DOMAIN Clock
        BY DEF Typed, TypeOK
      <3> QED
        BY <3>1, ClockMinute DEF Time
    <2>3. fired /\ ~fired' /\ unsold' = unsold
      BY <1>8 DEF TimePasses, files
    <2>4. Time >= 920 => Closed
      BY <1>1, <2>3 DEF Closed
    <2>5. ASSUME NEW c \in Codes, Managed(book[c]), ~book[c].pos.eod, Closed
          PROVE  Excused(book[c], unsold[c])
      BY <2>1, <2>5 DEF ClosingOrders, ClosingOrder, Working
    <2>6. CASE tick' = tick + 1 /\ day' = day
      <3>1. Closed' => Closed
        <4>1. Closed' => Clock[tick + 1] > 920
          BY <2>3, <2>6 DEF Closed, Time
        <4>2. Closed' => Clock[tick] >= 920
          BY <2>2, <2>6, <4>1, NoLeap
        <4> QED
          BY <2>4, <4>2 DEF Time
      <3>2. ASSUME NEW c \in Codes PROVE ClosingOrder(book[c], unsold[c])'
        <4>1. ClosingOrder(book[c], unsold[c])
          BY DEF ClosingOrders
        <4> QED
          BY <2>1, <2>3, <2>5, <2>6, <3>1, <4>1
          DEF ClosingOrder, Excused, Day, Minute, Managed, Owned
      <3> QED
        BY <3>2 DEF ClosingOrders
    <2>7. CASE tick = Len(Clock) /\ tick' = 1 /\ day' = day + 1
      <3>1. Closed
        BY <2>2, <2>4, <2>7, NoLeap DEF Time
      <3>2. ~Closed'
        BY <2>7 DEF Closed, Time, ClosingOnClock
      <3>3. ASSUME NEW c \in Codes PROVE ClosingOrder(book[c], unsold[c])'
        <4>1. ClosingOrder(book[c], unsold[c])
          BY DEF ClosingOrders
        <4>2. Day(book[c].pos.at) \in Int
          <5>1. book[c].pos.at \in Nat
            <6>1. book[c].pos \in Position
              BY <1>1 DEF TypeOK, Stock
            <6>2. book[c].pos.at \in Stamp
              BY <6>1 DEF Position
            <6> QED
              BY <6>2 DEF Stamp
          <5> QED
            BY <5>1 DEF Day
        <4>3. Day(book[c].pos.at) <= day => Day(book[c].pos.at) <= day + 1
          BY <1>1, <4>2
        <4> QED
          BY <2>1, <2>3, <2>5, <2>7, <3>1, <3>2, <4>1, <4>3
          DEF ClosingOrder, Excused, Day, Minute, Managed, Owned
      <3> QED
        BY <3>3 DEF ClosingOrders
    <2> QED
      BY <1>8, <2>6, <2>7 DEF TimePasses
  <1>9. CASE UserToggles \/ (\E c \in Codes, type \in Types : Rejected(c, type)) \/ UNCHANGED vars
    <2>1. UNCHANGED <<clock, book, unsold>>
      BY <1>9 DEF UserToggles, Rejected, vars, files
    <2> QED
      BY <2>1, SameClosing DEF ClosingOrders
  <1> QED
    BY <1>2, <1>3, <1>4, <1>5, <1>6, <1>7, <1>8, <1>9 DEF Next, SaleEnds

\* A day trade entered before 15:20 is managed on the next day only when a sale of
\* it has come to nothing or left a part after a closing of its own day or later,
\* whenever the timer runs at midnight, where it clears its flags, and at 15:20.
\* (liquidate_all_positions, _on_timer_timeout)
THEOREM DayTradesEnd == ASSUME ClosingOnClock PROVE Spec => []DayTradesClosed
  <1>1. Spec => []Closing
    BY TypeCorrect, InitClosing, NextClosing, PTL DEF Spec
  <1>2. Closing => DayTradesClosed
    BY DEF Closing, ClosingOrders, ClosingOrder, Excused, DayTradesClosed
  <1> QED
    BY <1>1, <1>2, PTL
=============================================================================
