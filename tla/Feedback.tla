------------------------------ MODULE Feedback ------------------------------
(***************************************************************************)
(* The feedback loop of the day's end: FeedbackEngine                      *)
(* (analysis/feedback_engine.py), run once a day by the FeedbackWorker     *)
(* (app/feedback_worker.py) when the MarketScheduler's clock passes 15:35. *)
(* It reviews the day's trades, tightens the parameters of the entries     *)
(* that lost, relaxes them after profitable days, and keeps them in        *)
(* params/adaptive_params.json.  A step is one run of the loop, which may  *)
(* be cut off between its file writes.                                     *)
(*                                                                         *)
(* Values are in thousandths (entry times: thousandths of a minute), and   *)
(* a tie of round() goes up.  The trades of a day are only what the review *)
(* reads from them: a Day.  Of the history of proposals the model keeps    *)
(* the direction of the first entry of the latest date, which alone        *)
(* decides whether a proposal has the one predecessor it needs.  A file    *)
(* that cannot be read, and rollback, are left out.                        *)
(***************************************************************************)
EXTENDS Integers, Sequences

CONSTANTS
    Params,       \* the parameters of this instance
    Low, High,    \* PARAM_BOUNDS of each
    Assumed,      \* what the review takes each for that is not in the file
    RelaxDefault, \* RELAX_DEFAULTS of each, 0: never relaxed
    Shipped,      \* their values in the file at the start, 0: not in the file
    ShippedLast,  \* the direction of the newest history entry of each
    Days,         \* the days that may come
    PeakDays,     \* PEAK_HISTORY_DAYS
    MaxVaried     \* the days of any kind; every later day is a good one

Slots   == {"OPENING", "MORNING", "MIDDAY", "AFTERNOON"}  \* slot_key_map
Signals == {"BREAKOUT", "JDM_ENTRY", "PRE_SURGE", "OPENING_SCALP", "other"}

TimeParams == {"entry_end_time", "entry_start_time"}   \* TIME_PARAM_NAMES

ChejanOf == [OPENING   |-> "min_chejan_strength_opening",
             MORNING   |-> "min_chejan_strength_morning",
             MIDDAY    |-> "min_chejan_strength_midday",
             AFTERNOON |-> "min_chejan_strength_afternoon"]
VolumeOf == [OPENING   |-> "volume_surge_mult_opening",
             MORNING   |-> "volume_surge_mult_morning",
             MIDDAY    |-> "volume_surge_mult_midday",
             AFTERNOON |-> "volume_surge_mult_afternoon"]

\* _sig_chejan_key: what a strategy asks of the traders' strength.
ChejanKey == [BREAKOUT      |-> "min_chejan_strength",
              JDM_ENTRY     |-> "min_chejan_strength",
              PRE_SURGE     |-> "pre_surge_chejan_min",
              OPENING_SCALP |-> "opening_surge_chejan_min",
              other         |-> "min_chejan_strength"]

Surge      == "entry_open_surge_max_opening"
SlotChejan == {ChejanOf[s] : s \in Slots}
SlotVolume == {VolumeOf[s] : s \in Slots}

\* relax_params_high: the parameters that are strict when high.
StrictHigh == SlotChejan \cup SlotVolume \cup
    {"min_chejan_strength", "volume_surge_mult", "breakout_confirm_minutes",
     "entry_start_time"}

\* What a strategy's losing trades show, per loss category.
Report == [signal : Signals,
           noise  : Nat,       \* OPENING_NOISE: how many
           change : Nat,       \* HIGH_ENTRY_CHG: their mean change, 0: none
           trail  : BOOLEAN,   \* TRAIL_TOO_TIGHT
           early  : BOOLEAN,   \* EARLY_REVERSAL
           stops  : Nat]       \* STOP_LOSS_HIT: how many

\* A day as the loop sees it; at most two strategies lose on it.
Day == [profit : BOOLEAN,            \* total_realized > 0
        danger : SUBSET Slots,       \* the slots with is_danger
        losses : {<<>>} \cup (Report \X Report) \cup {<<r>> : r \in Report},
        peak   : Nat]                \* _analyze_peak_pnl, in won

GoodDay(d) == d.profit /\ d.danger = {}

ASSUME TablesAssumption ==
    /\ Low \in [Params -> Nat] /\ High \in [Params -> Nat]
    /\ Assumed \in [Params -> Nat] /\ RelaxDefault \in [Params -> Nat]
    /\ \A p \in Params : Low[p] <= High[p]

ASSUME MinutesAssumption ==
    \A p \in Params : p \in TimeParams =>
        /\ \E k \in 0..1440 : Low[p] = 1000 * k
        /\ \E k \in 0..1440 : High[p] = 1000 * k

ASSUME FileAssumption ==
    /\ Shipped \in [Params -> Nat]
    /\ ShippedLast \in [Params -> {"none", "up", "down"}]
    /\ PeakDays \in Nat \ {0} /\ MaxVaried \in Nat

ASSUME DaysAssumption ==
    \A d \in Days :
        /\ d.profit \in BOOLEAN /\ d.danger \subseteq Slots /\ d.peak \in Nat
        /\ DOMAIN d.losses \in SUBSET {1, 2}
        /\ \A k \in DOMAIN d.losses : d.losses[k] \in Report
        /\ d.profit => d.losses = <<>>

VARIABLES
    params,   \* "params" of adaptive_params.json
    last,     \* of its "history": the newest direction of each parameter
    streak,   \* of its "history": the newest profitable days in a row, up to 2
    lock,     \* daily_profit_lock_won in the file, 0: not there
    peaks,    \* the newest entries of peak_pnl_history.json
    varied    \* days so far, up to MaxVaried

vars == <<params, last, streak, lock, peaks, varied>>

Init ==
    /\ params = Shipped
    /\ last = ShippedLast
    /\ streak = 0
    /\ lock = 0
    /\ peaks = <<>>
    /\ varied = 0

-----------------------------------------------------------------------------
(***************************************************************************)
(* Proposals.                                                              *)
(***************************************************************************)

Lesser(a, b)  == IF a <= b THEN a ELSE b
Greater(a, b) == IF a >= b THEN a ELSE b

\* a / b, rounded.
Nearest(a, b) == (2 * a + b) \div (2 * b)

Distance(a, b) == IF a <= b THEN b - a ELSE a - b

\* old_val of a proposal of the review.
Current(p) == IF params[p] # 0 THEN params[p] ELSE Assumed[p]

When(condition, value) == IF condition THEN {value} ELSE {}

\* compute_time_slot_adjustments: a slot in danger wants stronger entries, and
\* the slots at the ends of the day a shorter one.
EndTarget(d) == IF "MIDDAY" \in d.danger THEN 660000 ELSE 780000

SlotTargets(d, p) ==
    When(p = "entry_end_time" /\ "AFTERNOON" \in d.danger
            /\ EndTarget(d) < Current(p), EndTarget(d))
    \cup When(p = "entry_start_time" /\ "OPENING" \in d.danger
            /\ Current(p) < 570000, 570000)
    \cup When(\E s \in d.danger : p = ChejanOf[s],
              100 * Nearest(Current(p) * 11, 1000))
    \cup When(\E s \in d.danger : p = VolumeOf[s],
              100 * Nearest(Current(p) + 300, 100))

\* compute_adjustments of one strategy.  Its chases lower the entry's limit,
\* and of two proposals the smaller change stays (_merge_duplicate_params).
NoiseTarget(r, old) == 100 * Nearest(old * Greater(85, 100 - 3 * r.noise), 10000)
ChangeTarget(r, old) ==
    Greater(100 * Nearest(Lesser(old * 90, r.change * 85), 10000), Low[Surge])

SurgeTargets(r, old) ==
    LET all == When(r.noise > 0, NoiseTarget(r, old))
               \cup When(r.change > 0 /\ ChangeTarget(r, old) < old,
                         ChangeTarget(r, old))
    IN  {v \in all : \A w \in all : Distance(old, v) <= Distance(old, w)}

StopFactor(r) == Lesser(112, 104 + 2 * (r.stops - 4))

LossTargets(r, p) ==
    (IF p = Surge THEN SurgeTargets(r, Current(p)) ELSE {})
    \cup When(p = "trail_activation_pct" /\ r.trail,
              10 * Nearest(Current(p) * 115, 1000))
    \cup When(p = "trail_pct_tier1" /\ r.trail,
              10 * Nearest(Current(p) * 110, 1000))
    \cup When(p = "breakout_confirm_minutes" /\ r.early
                /\ r.signal \in {"BREAKOUT", "JDM_ENTRY"},
              100 * Nearest(Lesser(Current(p) + 500, High[p]), 100))
    \cup When(p = ChejanKey[r.signal] /\ r.stops >= 4,
              100 * Nearest(Lesser(Current(p) * StopFactor(r), High[p] * 100), 10000))

\* profit_streak: the profitable days of the history, and today if it is one.
Relaxing(d) == streak + (IF d.profit THEN 1 ELSE 0) >= 2

\* compute_relaxation_adjustments: from the strict side of the default.
Strict(p) ==
    /\ params[p] # 0 /\ RelaxDefault[p] # 0
    /\ IF p \in StrictHigh THEN params[p] > RelaxDefault[p]
                            ELSE params[p] < RelaxDefault[p]

\* Mutation of RelaxTarget: rounds like the other proposals, to one decimal.
RelaxTargetCoarse(p) == 100 * Nearest(9 * params[p] + RelaxDefault[p], 1000)

\* A tenth of the way back.
RelaxTarget(p) == Nearest(9 * params[p] + RelaxDefault[p], 10)

RelaxTargets(d, p) ==
    When(Relaxing(d) /\ Strict(p) /\ RelaxTarget(p) # params[p], RelaxTarget(p))

\* raw_adjs = time_adjs + loss_adjs + relax_adjs, those of one parameter, each
\* with its place in the list.
Places == 1..4   \* slots, two strategies, relaxation

Proposals(place, p, targets) ==
    {[place |-> place, old |-> Current(p), new |-> v] : v \in targets}

LossProposals(d, p) ==
    UNION {Proposals(k + 1, p, LossTargets(d.losses[k], p)) : k \in DOMAIN d.losses}

Adjustments(d, p) ==
    Proposals(1, p, SlotTargets(d, p)) \cup LossProposals(d, p)
    \cup Proposals(4, p, RelaxTargets(d, p))

-----------------------------------------------------------------------------
(***************************************************************************)
(* The three guards of apply_safety_guards.                                *)
(***************************************************************************)

Bounded(p, v) == Greater(Low[p], Lesser(High[p], v))

\* At most a fifth of the old value.
Stepped(old, new) ==
    IF 5 * Distance(old, new) <= old THEN new
    ELSE IF new > old THEN Nearest(6 * old, 5) ELSE Nearest(4 * old, 5)

\* Mutation of Guarded: the bounds have the last word.
GuardedBoundsLast(p, old, new) == Bounded(p, Stepped(old, new))

Guarded(p, old, new) == Stepped(old, Bounded(p, new))

Direction(old, new) == IF new > old THEN "up" ELSE "down"

\* The newest entry of the history must point the same way.
Approved(p, a) ==
    /\ Bounded(p, a.new) # a.old
    /\ last[p] = Direction(a.old, Guarded(p, a.old, a.new))

Approvals(d, p) == {a \in Adjustments(d, p) : Approved(p, a)}

\* The messages about bounds and missing changes are searched for the name of
\* the parameter, which is also found inside a longer name.
Within(p, q) ==
    \/ p = q
    \/ p = "min_chejan_strength" /\ q \in SlotChejan
    \/ p = "volume_surge_mult" /\ q \in SlotVolume

Suppressed(d, p) ==
    \E q \in Params : /\ Within(p, q)
                       /\ \E a \in Adjustments(d, q) :
                             Bounded(q, a.new) # a.new \/ Bounded(q, a.new) = a.old

\* Noted in the history without being applied.
Pendings(d, p) == IF Suppressed(d, p) THEN {} ELSE Adjustments(d, p)

First(S) == CHOOSE a \in S : \A b \in S : a.place <= b.place
Last(S)  == CHOOSE a \in S : \A b \in S : b.place <= a.place

\* Times are written as "HH:MM:SS".
Written(p, v) == IF p \in TimeParams THEN 1000 * Nearest(v, 1000) ELSE v

\* Approved proposals are written in turn: the last one stays.
NewParams(d) ==
    [p \in Params |->
        LET approved == Approvals(d, p) IN
        IF approved = {} THEN params[p]
        ELSE Written(p, Guarded(p, Last(approved).old, Last(approved).new))]

\* Of a date's entries the approved ones come first.
NewLast(d) ==
    [p \in Params |->
        IF Approvals(d, p) # {} THEN last[p]
        ELSE LET pending == Pendings(d, p) IN
             IF pending = {} THEN last[p]
             ELSE Direction(First(pending).old, First(pending).new)]

-----------------------------------------------------------------------------
(***************************************************************************)
(* The run of the day.                                                     *)
(***************************************************************************)

\* _compute_next_profit_lock, of the newest peaks; 0: no change.
PositiveSum(s) == LET f[k \in 0..Len(s)] == IF k = 0 THEN 0 ELSE f[k - 1] + s[k]
                  IN  f[Len(s)]
NextLock(history) ==
    LET recent == SelectSeq(history, LAMBDA v : v > 0)
        value  == (7 * PositiveSum(recent)) \div (10 * Len(recent))
    IN  IF recent = <<>> \/ value < 30000 THEN 0 ELSE value

NewPeaks(d) ==
    LET all == Append(peaks, d.peak) IN
    IF Len(all) > PeakDays THEN Tail(all) ELSE all

\* A time comes back from the file as text, and float() raises on it.
Broken == \E p \in TimeParams \cap Params : params[p] # 0

\* The streak with the marker of the day, which begins a new one when it comes
\* more than five days after the last.
NewStreaks(d) == IF d.profit THEN {1, Lesser(2, streak + 1)} ELSE {0}

\* How far a run gets: run_daily writes the peaks, the parameters and the
\* marker of the day one after the other.
Reach == {"peaks", "params", "marker"}

run_daily(d, reach) ==
    /\ ~Broken
    /\ peaks' = NewPeaks(d)
    /\ IF reach = "peaks" THEN UNCHANGED <<params, last, lock>>
       ELSE /\ params' = NewParams(d)
            /\ last' = NewLast(d)
            /\ lock' = IF NextLock(peaks') > 0 THEN NextLock(peaks') ELSE lock
    /\ streak' \in IF reach = "marker" THEN NewStreaks(d) ELSE {streak}

\* The error is logged by the worker, and the loop is started again tomorrow.
FailedRun(d) ==
    /\ Broken
    /\ peaks' = NewPeaks(d)
    /\ UNCHANGED <<params, last, streak, lock>>

VariedDay ==
    /\ varied < MaxVaried
    /\ varied' = varied + 1
    /\ \E d \in Days : \/ \E reach \in Reach : run_daily(d, reach)
                       \/ FailedRun(d)

\* The days after the bound: profitable, without danger, and not cut off.
LaterDay ==
    /\ varied = MaxVaried
    /\ UNCHANGED varied
    /\ \E d \in Days :
        /\ GoodDay(d)
        /\ run_daily(d, "marker") \/ FailedRun(d)

Next == VariedDay \/ LaterDay

\* The scheduler starts the loop on every trading day.
Spec == Init /\ [][Next]_vars /\ WF_vars(Next)

-----------------------------------------------------------------------------
(***************************************************************************)
(* Properties.                                                             *)
(***************************************************************************)

\* Twice the error of rounding: to a thousandth, and a time to a minute.
Rounding(p) == IF p \in TimeParams THEN 1001 ELSE 1

InBounds(p, v) == Low[p] <= v /\ v <= High[p]

Careful(p) ==
    /\ 10 * Distance(Current(p), params'[p]) <= 2 * Current(p) + 5 * Rounding(p)
    /\ InBounds(p, Current(p)) => InBounds(p, params'[p])
    /\ last'[p] = last[p] /\ last[p] # "none"

TypeOK ==
    /\ params \in [Params -> Nat]
    /\ last \in [Params -> {"none", "up", "down"}]
    /\ streak \in 0..2

\* However many strategies, slots and relaxations propose for a parameter on
\* one day, it moves by at most a fifth of its value (but for the rounding of
\* what is written), a value within its bounds stays within them, and a day that
\* turns a parameter's direction does not move it (apply_safety_guards: hard
\* bounds, 20% a day, two days of the same direction).
CarefulSteps ==
    [][\A p \in Params : params'[p] # params[p] => Careful(p)]_vars

\* No stricter than the default, but for what a tenth of the gap rounds to.
Recovered(p) ==
    \/ params[p] = 0
    \/ RelaxDefault[p] = 0
    \/ p \in StrictHigh /\ params[p] <= RelaxDefault[p] + 5
    \/ p \notin StrictHigh /\ params[p] >= RelaxDefault[p] - 5

\* Once the days stay good, every parameter that was tightened comes back to
\* its default (compute_relaxation_adjustments), unless a time has been written:
\* its text stops the loop for good.
Recovers == (<>Broken) \/ <>[](\A p \in Params : Recovered(p))
=============================================================================
