-------------------------- MODULE Feedback_proofs --------------------------
(***************************************************************************)
(* Proofs about Feedback: whatever the days bring, the parameters move     *)
(* only in careful steps.                                                  *)
(***************************************************************************)
EXTENDS Feedback, TLAPS

-----------------------------------------------------------------------------
(* Numbers *)

\* Rounding returns a natural number.
LEMMA NearestNat == ASSUME NEW a \in Nat, NEW b \in Nat \ {0} PROVE Nearest(a, b) \in Nat
  BY DEF Nearest

\* Rounding to a fifth, and to a minute, is off by at most half of it.
LEMMA NearestFifth ==
    ASSUME NEW a \in Nat
    PROVE  10 * Nearest(a, 5) <= 2 * a + 5 /\ 2 * a - 5 < 10 * Nearest(a, 5)
  BY DEF Nearest

LEMMA NearestMinute ==
    ASSUME NEW a \in Nat
    PROVE  2000 * Nearest(a, 1000) <= 2 * a + 1000 /\ 2 * a - 1000 < 2000 * Nearest(a, 1000)
  BY DEF Nearest

-----------------------------------------------------------------------------
(* The guards *)

\* A value held between two others.
LEMMA Between ==
    ASSUME NEW l \in Nat, NEW h \in Nat, NEW v \in Nat, l <= h
    PROVE  /\ Greater(l, Lesser(h, v)) \in Nat
           /\ l <= Greater(l, Lesser(h, v)) /\ Greater(l, Lesser(h, v)) <= h
  BY DEF Greater, Lesser

\* Bounding a value puts it within its bounds.
LEMMA BoundedInBounds ==
    ASSUME NEW p \in Params, NEW v \in Nat
    PROVE  Bounded(p, v) \in Nat /\ InBounds(p, Bounded(p, v))
<1>1. Low[p] \in Nat /\ High[p] \in Nat /\ Low[p] <= High[p]
  BY TablesAssumption
<1> QED
  BY <1>1, Between DEF Bounded, InBounds

\* A step goes towards the new value, and by at most a fifth of the old one.
LEMMA SteppedLittle ==
    ASSUME NEW old \in Nat, NEW new \in Nat
    PROVE  /\ Stepped(old, new) \in Nat
           /\ 10 * Distance(old, Stepped(old, new)) <= 2 * old + 5
           /\ \/ old <= Stepped(old, new) /\ Stepped(old, new) <= new
              \/ new <= Stepped(old, new) /\ Stepped(old, new) <= old
<1>1. CASE 5 * Distance(old, new) <= old
  BY <1>1 DEF Stepped, Distance
<1>2. CASE 5 * Distance(old, new) > old /\ new > old
  <2>1. Stepped(old, new) = Nearest(6 * old, 5)
    BY <1>2 DEF Stepped, Distance
  <2>2. Nearest(6 * old, 5) \in Nat
    BY NearestNat
  <2>3. /\ 10 * Nearest(6 * old, 5) <= 12 * old + 5
        /\ 12 * old - 5 < 10 * Nearest(6 * old, 5)
    BY NearestFifth, 6 * old \in Nat
  <2> QED
    BY <1>2, <2>1, <2>2, <2>3 DEF Distance
<1>3. CASE 5 * Distance(old, new) > old /\ ~(new > old)
  <2>1. Stepped(old, new) = Nearest(4 * old, 5)
    BY <1>3 DEF Stepped, Distance
  <2>2. Nearest(4 * old, 5) \in Nat
    BY NearestNat
  <2>3. /\ 10 * Nearest(4 * old, 5) <= 8 * old + 5
        /\ 8 * old - 5 < 10 * Nearest(4 * old, 5)
    BY NearestFifth, 4 * old \in Nat
  <2> QED
    BY <1>3, <2>1, <2>2, <2>3 DEF Distance
<1>4. 5 * Distance(old, new) \in Int
  BY DEF Distance
<1> QED
  BY <1>1, <1>2, <1>3, <1>4

\* What the guards let through is a small step that keeps the bounds.
LEMMA GuardedCareful ==
    ASSUME NEW p \in Params, NEW old \in Nat, NEW new \in Nat
    PROVE  /\ Guarded(p, old, new) \in Nat
           /\ 10 * Distance(old, Guarded(p, old, new)) <= 2 * old + 5
           /\ InBounds(p, old) => InBounds(p, Guarded(p, old, new))
<1> DEFINE b == Bounded(p, new)
<1>1. b \in Nat /\ InBounds(p, b)
  BY BoundedInBounds
<1>2. Guarded(p, old, new) = Stepped(old, b)
  BY DEF Guarded
<1> HIDE DEF b
<1>3. /\ Stepped(old, b) \in Nat
      /\ 10 * Distance(old, Stepped(old, b)) <= 2 * old + 5
      /\ \/ old <= Stepped(old, b) /\ Stepped(old, b) <= b
         \/ b <= Stepped(old, b) /\ Stepped(old, b) <= old
  BY <1>1, SteppedLittle
<1>4. Low[p] \in Nat /\ High[p] \in Nat
  BY TablesAssumption
<1>5. InBounds(p, old) => InBounds(p, Stepped(old, b))
  BY <1>1, <1>3, <1>4 DEF InBounds
<1> QED
  BY <1>2, <1>3, <1>5

\* Writing a value, a time as text, moves it by less than its grain and keeps
\* its bounds.
LEMMA WrittenCareful ==
    ASSUME NEW p \in Params, NEW v \in Nat
    PROVE  /\ Written(p, v) \in Nat
           /\ 2 * Distance(v, Written(p, v)) <= (IF p \in TimeParams THEN 1000 ELSE 0)
           /\ InBounds(p, v) => InBounds(p, Written(p, v))
<1>1. CASE p \notin TimeParams
  BY <1>1 DEF Written, Distance
<1>2. CASE p \in TimeParams
  <2> DEFINE n == Nearest(v, 1000)
  <2>1. n \in Nat
    BY NearestNat
  <2>2. 2000 * n <= 2 * v + 1000 /\ 2 * v - 1000 < 2000 * n
    BY NearestMinute
  <2>3. Written(p, v) = 1000 * n
    BY <1>2 DEF Written
  <2> HIDE DEF n
  <2>4. 2 * Distance(v, 1000 * n) <= 1000
    BY <2>1, <2>2 DEF Distance
  <2>5. InBounds(p, v) => InBounds(p, 1000 * n)
    <3>1. PICK l \in 0..1440 : Low[p] = 1000 * l
      BY <1>2, MinutesAssumption
    <3>2. PICK h \in 0..1440 : High[p] = 1000 * h
      BY <1>2, MinutesAssumption
    <3> QED
      BY <2>1, <2>2, <3>1, <3>2 DEF InBounds
  <2> QED
    BY <1>2, <2>1, <2>3, <2>4, <2>5
<1> QED
  BY <1>1, <1>2
-----------------------------------------------------------------------------
(* What is proposed *)

LEMMA LesserNat  == ASSUME NEW a \in Nat, NEW b \in Nat PROVE Lesser(a, b) \in Nat
  BY DEF Lesser
LEMMA GreaterNat ==
    ASSUME NEW a \in Nat, NEW b \in Int
    PROVE  Greater(a, b) \in Nat
  BY DEF Greater

\* Values rounded to one or two decimals.
LEMMA RoundedNat ==
    ASSUME NEW a \in Nat
    PROVE  /\ 100 * Nearest(a, 100) \in Nat
           /\ 100 * Nearest(a, 1000) \in Nat
           /\ 100 * Nearest(a, 10000) \in Nat
           /\ 10 * Nearest(a, 1000) \in Nat
<1>1. Nearest(a, 100) \in Nat /\ Nearest(a, 1000) \in Nat /\ Nearest(a, 10000) \in Nat
  BY NearestNat
<1> QED
  BY <1>1

LEMMA CurrentNat == ASSUME TypeOK, NEW p \in Params PROVE Current(p) \in Nat
  BY TablesAssumption DEF TypeOK, Current

\* The time slots propose numbers.
LEMMA SlotTargetsNat ==
    ASSUME TypeOK, NEW d \in Days, NEW p \in Params
    PROVE  SlotTargets(d, p) \subseteq Nat
<1>1. Current(p) \in Nat
  BY CurrentNat
<1>2. EndTarget(d) \in Nat
  BY DEF EndTarget
<1>3. 100 * Nearest(Current(p) * 11, 1000) \in Nat
  BY <1>1, RoundedNat
<1>4. 100 * Nearest(Current(p) + 300, 100) \in Nat
  BY <1>1, RoundedNat
<1> QED
  BY <1>2, <1>3, <1>4, SMT DEF SlotTargets, When

\* The chases of a strategy propose numbers.
LEMMA SurgeTargetsNat ==
    ASSUME NEW r, NEW old \in Nat, r.noise \in Nat, r.change \in Nat, Low[Surge] \in Nat
    PROVE  SurgeTargets(r, old) \subseteq Nat
<1>1. NoiseTarget(r, old) \in Nat
  <2>1. Greater(85, 100 - 3 * r.noise) \in Nat
    <3>1. 100 - 3 * r.noise \in Int /\ 85 \in Nat
      OBVIOUS
    <3> QED
      BY <3>1, GreaterNat
  <2>2. old * Greater(85, 100 - 3 * r.noise) \in Nat
    BY <2>1
  <2> QED
    BY <2>2, RoundedNat DEF NoiseTarget
<1>2. ChangeTarget(r, old) \in Nat
  <2>1. old * 90 \in Nat /\ r.change * 85 \in Nat
    OBVIOUS
  <2>2. Lesser(old * 90, r.change * 85) \in Nat
    BY <2>1, LesserNat
  <2>3. 100 * Nearest(Lesser(old * 90, r.change * 85), 10000) \in Nat
    BY <2>2, RoundedNat
  <2> DEFINE c == 100 * Nearest(Lesser(old * 90, r.change * 85), 10000)
  <2>4. ChangeTarget(r, old) = Greater(c, Low[Surge])
    BY DEF ChangeTarget
  <2>5. c \in Nat
    BY <2>3
  <2> HIDE DEF c
  <2> QED
    BY <2>4, <2>5 DEF Greater
<1> QED
  BY <1>1, <1>2, SMT DEF SurgeTargets, When

\* A losing strategy proposes numbers.
LEMMA LossTargetsNat ==
    ASSUME TypeOK, NEW r \in Report, NEW p \in Params
    PROVE  LossTargets(r, p) \subseteq Nat
<1>1. Current(p) \in Nat /\ High[p] \in Nat
  BY CurrentNat, TablesAssumption
<1>2. r.noise \in Nat /\ r.change \in Nat /\ r.stops \in Nat
  BY DEF Report
<1>3. p = Surge => SurgeTargets(r, Current(p)) \subseteq Nat
  <2>1. ASSUME p = Surge PROVE Low[Surge] \in Nat
    BY <2>1, TablesAssumption
  <2> QED
    BY <1>1, <1>2, <2>1, SurgeTargetsNat
<1> DEFINE old == Current(p)
<1>4. 10 * Nearest(old * 115, 1000) \in Nat /\ 10 * Nearest(old * 110, 1000) \in Nat
  <2>1. old * 115 \in Nat /\ old * 110 \in Nat
    BY <1>1
  <2> QED
    BY <2>1, RoundedNat
<1>5. 100 * Nearest(Lesser(old + 500, High[p]), 100) \in Nat
  <2>1. old + 500 \in Nat
    BY <1>1
  <2>2. Lesser(old + 500, High[p]) \in Nat
    BY <1>1, <2>1, LesserNat
  <2> QED
    BY <2>1, <2>2, RoundedNat
<1>6. r.stops >= 4 =>
        100 * Nearest(Lesser(old * StopFactor(r), High[p] * 100), 10000) \in Nat
  <2>1. ASSUME r.stops >= 4 PROVE StopFactor(r) \in Nat
    BY <1>2, <2>1 DEF StopFactor, Lesser
  <2>2. ASSUME r.stops >= 4
        PROVE  Lesser(old * StopFactor(r), High[p] * 100) \in Nat
    <3>1. old * StopFactor(r) \in Nat /\ High[p] * 100 \in Nat
      BY <1>1, <2>1, <2>2
    <3> QED
      BY <3>1, LesserNat
  <2> QED
    BY <2>2, RoundedNat
<1> HIDE DEF old
<1>7. When(p = "trail_activation_pct" /\ r.trail, 10 * Nearest(old * 115, 1000))
        \subseteq Nat
  BY <1>4, SMT DEF When
<1>8. When(p = "trail_pct_tier1" /\ r.trail, 10 * Nearest(old * 110, 1000))
        \subseteq Nat
  BY <1>4, SMT DEF When
<1>9. When(p = "breakout_confirm_minutes" /\ r.early
             /\ r.signal \in {"BREAKOUT", "JDM_ENTRY"},
           100 * Nearest(Lesser(old + 500, High[p]), 100)) \subseteq Nat
  BY <1>5, SMT DEF When
<1>10. When(p = ChejanKey[r.signal] /\ r.stops >= 4,
            100 * Nearest(Lesser(old * StopFactor(r), High[p] * 100), 10000))
         \subseteq Nat
  BY <1>6, SMT DEF When
<1> QED
  BY <1>3, <1>7, <1>8, <1>9, <1>10, SMT DEF LossTargets, old

\* The relaxation proposes numbers.
LEMMA RelaxTargetsNat ==
    ASSUME TypeOK, NEW d \in Days, NEW p \in Params
    PROVE  RelaxTargets(d, p) \subseteq Nat
<1>1. params[p] \in Nat /\ RelaxDefault[p] \in Nat
  BY TablesAssumption DEF TypeOK
<1>2. RelaxTarget(p) \in Nat
  BY <1>1, NearestNat DEF RelaxTarget
<1> QED
  BY <1>2, SMT DEF RelaxTargets, When

Proposal == [place : Places, old : Nat, new : Nat]

\* Every proposal starts from the current value of its parameter.
LEMMA AdjustmentsTyped ==
    ASSUME TypeOK, NEW d \in Days, NEW p \in Params, NEW a \in Adjustments(d, p)
    PROVE  a \in Proposal /\ a.old = Current(p)
<1>1. Current(p) \in Nat
  BY CurrentNat
<1>2. ASSUME NEW i \in Places, NEW T \in SUBSET Nat, a \in Proposals(i, p, T)
      PROVE  a \in Proposal /\ a.old = Current(p)
  BY <1>1, <1>2 DEF Proposals, Proposal
<1>3. CASE a \in Proposals(1, p, SlotTargets(d, p))
  BY <1>2, <1>3, SlotTargetsNat DEF Places
<1>4. CASE a \in LossProposals(d, p)
  <2>1. PICK k \in DOMAIN d.losses : a \in Proposals(k + 1, p, LossTargets(d.losses[k], p))
    BY <1>4 DEF LossProposals
  <2>2. k \in {1, 2} /\ d.losses[k] \in Report
    BY DaysAssumption
  <2>3. LossTargets(d.losses[k], p) \subseteq Nat
    BY <2>2, LossTargetsNat
  <2>4. k + 1 \in Places
    BY <2>2 DEF Places
  <2> QED
    BY <1>2, <2>1, <2>3, <2>4
<1>5. CASE a \in Proposals(4, p, RelaxTargets(d, p))
  BY <1>2, <1>5, RelaxTargetsNat DEF Places
<1> QED
  BY <1>3, <1>4, <1>5 DEF Adjustments

\* Of some proposals one comes last.
LEMMA LastExists ==
    ASSUME NEW S, S \subseteq Proposal, S # {}
    PROVE  Last(S) \in S
<1>1. \A a \in S : a.place \in 1..4
  BY DEF Proposal, Places
<1>2. \E a \in S : \A b \in S : b.place <= a.place
  <2>1. CASE \E a \in S : a.place = 4
    BY <1>1, <2>1
  <2>2. CASE (\A a \in S : a.place # 4) /\ \E a \in S : a.place = 3
    BY <1>1, <2>2
  <2>3. CASE (\A a \in S : a.place \notin {3, 4}) /\ \E a \in S : a.place = 2
    BY <1>1, <2>3
  <2>4. CASE \A a \in S : a.place \notin {2, 3, 4}
    BY <1>1, <2>4
  <2> QED
    BY <2>1, <2>2, <2>3, <2>4
<1> QED
  BY <1>2 DEF Last

-----------------------------------------------------------------------------
(* The run of the day *)

\* The errors of the step and of writing it add up.
LEMMA TwoRoundings ==
    ASSUME NEW o \in Nat, NEW g \in Nat, NEW w \in Nat, NEW e \in Nat,
           10 * Distance(o, g) <= 2 * o + 5, 2 * Distance(g, w) <= e
    PROVE  10 * Distance(o, w) <= 2 * o + 5 * (e + 1)
  BY DEF Distance

\* What is written is a natural number, and a careful step from the old value.
LEMMA MovesCarefully ==
    ASSUME TypeOK, NEW d \in Days, NEW p \in Params
    PROVE  /\ NewParams(d)[p] \in Nat
           /\ NewLast(d)[p] \in {"none", "up", "down"}
           /\ NewParams(d)[p] # params[p] =>
                /\ 10 * Distance(Current(p), NewParams(d)[p])
                     <= 2 * Current(p) + 5 * Rounding(p)
                /\ InBounds(p, Current(p)) => InBounds(p, NewParams(d)[p])
                /\ NewLast(d)[p] = last[p] /\ last[p] # "none"
<1> DEFINE S == Approvals(d, p)
           a == Last(S)
           g == Guarded(p, a.old, a.new)
<1>1. S \subseteq Adjustments(d, p) /\ \A x \in S : Approved(p, x)
  BY DEF Approvals
<1>2. S \subseteq Proposal /\ \A x \in S : x.old = Current(p)
  BY <1>1, AdjustmentsTyped
<1>3. NewParams(d)[p] = IF S = {} THEN params[p] ELSE Written(p, g)
  BY DEF NewParams
<1>4. params[p] \in Nat /\ last[p] \in {"none", "up", "down"}
  BY DEF TypeOK
<1>5. NewLast(d)[p] \in {"none", "up", "down"} /\ (S # {} => NewLast(d)[p] = last[p])
  <2>1. NewLast(d)[p] = IF S # {} THEN last[p]
                        ELSE IF Pendings(d, p) = {} THEN last[p]
                        ELSE Direction(First(Pendings(d, p)).old,
                                       First(Pendings(d, p)).new)
    BY DEF NewLast
  <2>2. \A x, y : Direction(x, y) \in {"none", "up", "down"}
    BY DEF Direction
  <2> HIDE DEF S
  <2> QED
    BY <1>4, <2>1, <2>2
<1>6. CASE S = {}
  BY <1>3, <1>4, <1>5, <1>6
<1>7. CASE S # {}
  <2>1. a \in S
    BY <1>2, <1>7, LastExists
  <2>2. a.old = Current(p) /\ a.old \in Nat /\ a.new \in Nat
    BY <1>2, <2>1 DEF Proposal
  <2>3. last[p] # "none"
    BY <1>1, <2>1 DEF Approved, Direction
  <2>4. /\ g \in Nat
        /\ 10 * Distance(a.old, g) <= 2 * a.old + 5
        /\ InBounds(p, a.old) => InBounds(p, g)
    BY <2>2, GuardedCareful
  <2> HIDE DEF a, g, S
  <2>5. /\ Written(p, g) \in Nat
        /\ 2 * Distance(g, Written(p, g)) <= (IF p \in TimeParams THEN 1000 ELSE 0)
        /\ InBounds(p, g) => InBounds(p, Written(p, g))
    BY <2>4, WrittenCareful
  <2>6. 10 * Distance(a.old, Written(p, g)) <= 2 * a.old + 5 * Rounding(p)
    <3>1. CASE p \in TimeParams
      <4>1. 2 * Distance(g, Written(p, g)) <= 1000
        BY <2>5, <3>1
      <4> QED
        BY <2>2, <2>4, <2>5, <3>1, <4>1, TwoRoundings DEF Rounding
    <3>2. CASE p \notin TimeParams
      <4>1. 2 * Distance(g, Written(p, g)) <= 0
        BY <2>5, <3>2
      <4> QED
        BY <2>2, <2>4, <2>5, <3>2, <4>1, TwoRoundings DEF Rounding
    <3> QED
      BY <3>1, <3>2
  <2> QED
    BY <1>3, <1>5, <1>7, <2>2, <2>3, <2>4, <2>5, <2>6
<1> QED
  BY <1>6, <1>7

\* The run of the day keeps the types and moves the parameters carefully.
LEMMA RunIsCareful ==
    ASSUME TypeOK, NEW d \in Days, NEW reach \in Reach, run_daily(d, reach)
    PROVE  /\ TypeOK'
           /\ \A p \in Params : params'[p] # params[p] => Careful(p)
<1>1. streak' \in 0..2
  BY DEF run_daily, NewStreaks, Lesser, TypeOK
<1>2. CASE reach = "peaks"
  <2>1. params' = params /\ last' = last
    BY <1>2 DEF run_daily
  <2> QED
    BY <1>1, <2>1 DEF TypeOK
<1>3. CASE reach # "peaks"
  <2>1. params' = NewParams(d) /\ last' = NewLast(d)
    BY <1>3 DEF run_daily
  <2>2. params' \in [Params -> Nat]
    <3>1. params' = [p \in Params |-> params'[p]]
      BY <2>1 DEF NewParams
    <3> QED
      BY <2>1, <3>1, MovesCarefully
  <2>3. last' \in [Params -> {"none", "up", "down"}]
    <3>1. last' = [p \in Params |-> last'[p]]
      BY <2>1 DEF NewLast
    <3> QED
      BY <2>1, <3>1, MovesCarefully
  <2>4. ASSUME NEW p \in Params, params'[p] # params[p] PROVE Careful(p)
    BY <2>1, <2>4, MovesCarefully DEF Careful
  <2> QED
    BY <1>1, <2>2, <2>3, <2>4 DEF TypeOK
<1> QED
  BY <1>2, <1>3

\* So does every step.
LEMMA StepIsCareful ==
    ASSUME TypeOK, [Next]_vars
    PROVE  /\ TypeOK'
           /\ \A p \in Params : params'[p] # params[p] => Careful(p)
<1>1. ASSUME NEW d \in Days, FailedRun(d)
      PROVE  params' = params /\ last' = last /\ streak' = streak
  BY <1>1 DEF FailedRun
<1>2. CASE VariedDay
  <2>1. PICK d \in Days : \/ \E reach \in Reach : run_daily(d, reach)
                          \/ FailedRun(d)
    BY <1>2 DEF VariedDay
  <2>2. CASE \E reach \in Reach : run_daily(d, reach)
    BY <2>2, RunIsCareful
  <2>3. CASE FailedRun(d)
    BY <1>1, <2>3 DEF TypeOK
  <2> QED
    BY <2>1, <2>2, <2>3
<1>3. CASE LaterDay
  <2>1. PICK d \in Days : run_daily(d, "marker") \/ FailedRun(d)
    BY <1>3 DEF LaterDay
  <2>2. CASE run_daily(d, "marker")
    <3>1. "marker" \in Reach
      BY DEF Reach
    <3> QED
      BY <2>2, <3>1, RunIsCareful
  <2>3. CASE FailedRun(d)
    BY <1>1, <2>3 DEF TypeOK
  <2> QED
    BY <2>1, <2>2, <2>3
<1>4. CASE UNCHANGED vars
  BY <1>4 DEF vars, TypeOK
<1> QED
  BY <1>2, <1>3, <1>4 DEF Next

LEMMA FeedbackTyped == Spec => []TypeOK
<1>1. Init => TypeOK
  BY FileAssumption DEF Init, TypeOK
<1>2. TypeOK /\ [Next]_vars => TypeOK'
  BY StepIsCareful
<1> QED
  BY <1>1, <1>2, PTL DEF Spec

\* Whatever the days bring, and wherever a run is cut off, a parameter moves by
\* at most a fifth a day, never leaves its bounds, and never moves on the day
\* that turns its direction: the guards of apply_safety_guards add up to what
\* its docstring promises, for any bounds and any two losing strategies.
THEOREM ParametersMoveCarefully == Spec => CarefulSteps
<1>1. TypeOK /\ [Next]_vars =>
        [\A p \in Params : params'[p] # params[p] => Careful(p)]_vars
  BY StepIsCareful
<1> QED
  BY <1>1, FeedbackTyped, PTL DEF Spec, CarefulSteps
=============================================================================
