------------------------------ MODULE Universe ------------------------------
(***************************************************************************)
(* Which rows of the ranking by traded amount become the watched universe: *)
(* the filters and the score of scanner/universe.py, and the two places of *)
(* scanner/smart_scanner.py that apply them.                               *)
(*                                                                         *)
(* A row is [code, equity, change, amount, volume]: "equity" stands for    *)
(* the two tests on the code and the name, "change" is in tenths of a      *)
(* percent.  Scores are in units of 1/100000; the pace of the volume is    *)
(* rounded down to a thousandth.                                           *)
(***************************************************************************)
EXTENDS Integers, SequencesExt

CONSTANTS
    AllCodes,
    PrevVolume,         \* yesterday's volume of every code, 0 when unknown
    WatchMax            \* watch_pool_max: 50

ASSUME UniverseAssumption ==
    IsFiniteSet(AllCodes) /\ PrevVolume \in [AllCodes -> Nat] /\ WatchMax \in Nat \ {0}

RankedRow == [code : AllCodes, equity : BOOLEAN, change : Int, amount : Nat, volume : Nat]

\* A ranking has 200 rows at most (fetch_opt10030_top_volume), each stock once.
Ranking(rows) ==
    /\ rows \in Seq(RankedRow) /\ Len(rows) <= 200
    /\ \A i, j \in DOMAIN rows : rows[i].code = rows[j].code => i = j

\* The periods of the score and the minutes since 09:00 that stand for them.
Periods == {"early", "middle", "late"}
Elapsed == [early |-> 5, middle |-> 10, late |-> 195]

\* Weights of amount, volume and change, in tenths.
Weights == [early  |-> [amount |-> 6, volume |-> 1, change |-> 3],
            middle |-> [amount |-> 4, volume |-> 2, change |-> 4],
            late   |-> [amount |-> 3, volume |-> 5, change |-> 2]]

\* 0.15 for a code of opt10029's list of rising volumes.
SurgeBonus == 15000

\* Position of row i in the descending, stable sort of the values f.
Place(f, i) == Cardinality({j \in DOMAIN f : f[j] > f[i] \/ (f[j] = f[i] /\ j < i)})

\* 1.0 for the first place down to 0.0 for the last, in thousandths.
RankScore(f, i) ==
    LET last == IF Len(f) > 1 THEN Len(f) - 1 ELSE 1
    IN  1000 - (1000 * Place(f, i)) \div last

Column(rows, field) == [i \in DOMAIN rows |-> rows[i][field]]
PrevColumn(rows) == [i \in DOMAIN rows |-> PrevVolume[rows[i].code]]

\* Today's volume against the share of yesterday's that the minute calls for.
Pace(row, period) ==
    LET prev == PrevVolume[row.code]
    IN  IF prev = 0 \/ row.volume = 0 THEN 0
        ELSE (1000 * row.volume * 390) \div (prev * Elapsed[period])

HasPrevCache(rows) == \E i \in DOMAIN rows : PrevVolume[rows[i].code] > 0

\* A row without a pace scores a half; without any of yesterday's volumes the
\* pace is the rank of the amount per minute.
VolumeScore(rows, period, i) ==
    LET pace == Pace(rows[i], period)
    IN  IF ~HasPrevCache(rows) THEN RankScore(Column(rows, "amount"), i)
        ELSE IF pace = 0 THEN 500
        ELSE IF pace >= 3000 THEN 1000 ELSE pace \div 3

\* Mutation of AmountScore: the ranking is sorted the other way round.
AmountScoreAscending(rows, period, i) == 1000 - RankScore(Column(rows, "amount"), i)

\* In the first five minutes yesterday's volume is most of the amount's score.
AmountScore(rows, period, i) ==
    LET today == RankScore(Column(rows, "amount"), i)
    IN  IF period = "early"
        THEN (7 * RankScore(PrevColumn(rows), i) + 3 * today) \div 10
        ELSE today

ChangeScore(rows, i) == RankScore(Column(rows, "change"), i)

Score(rows, period, surge, i) ==
    LET w == Weights[period]
    IN  10 * (  w.amount * AmountScore(rows, period, i)
              + w.volume * VolumeScore(rows, period, i)
              + w.change * ChangeScore(rows, i) )
        + (IF rows[i].code \in surge THEN SurgeBonus ELSE 0)

\* The rows at the first WatchMax places of f, in the order of f.
FirstBy(rows, f) ==
    LET Row(p) == CHOOSE i \in DOMAIN rows : Place(f, i) = p
        n == IF Len(rows) < WatchMax THEN Len(rows) ELSE WatchMax
    IN  [p \in 1..n |-> rows[Row(p - 1)]]

apply_scoring_cap(rows, period, surge) ==
    FirstBy(rows, [i \in DOMAIN rows |-> Score(rows, period, surge, i)])

\* The elements of s at the positions I, in their order.
At(s, I) ==
    LET Nth(n) == CHOOSE i \in I : Cardinality({j \in I : j < i}) = n - 1
    IN  [n \in 1..Cardinality(I) |-> s[Nth(n)]]

\* Ordinary shares whose change is at least "least" and below 22%.
Eligible(rows, least) ==
    At(rows, {i \in DOMAIN rows :
                  rows[i].equity /\ rows[i].change >= least /\ rows[i].change < 220})

\* The scan's universe keeps no falling code; the pre-filter's keeps those down
\* to -1.5%, and lists them by amount (TopVolumeManager).
_filter_and_score_universe(rows, period, surge) ==
    apply_scoring_cap(Eligible(rows, 0), period, surge)

PreFiltered(rows, period, surge) ==
    LET kept == apply_scoring_cap(Eligible(rows, -15), period, surge)
    IN  FirstBy(kept, Column(kept, "amount"))

CodesOf(rows) == [i \in DOMAIN rows |-> rows[i].code]
=============================================================================
