------------------------------- MODULE Charts -------------------------------
(***************************************************************************)
(* How the scanner keeps its universe and its charts up to date over one   *)
(* request at a time: the minute scan, the refresh of the ranking          *)
(* (opt10030), the chains of QTimer.singleShot calls that load one chart   *)
(* after the other, and the clean-ups of the store                         *)
(* (scanner/smart_scanner.py, app/trading_controller.py,                   *)
(* scanner/snapshot_store.py).  One process; it starts with whatever the   *)
(* caches on disk restore.                                                 *)
(*                                                                         *)
(* A chart is either there (55 bars or more) or not, and only requests     *)
(* fill it.  What the 60-minute chains store is not kept.  The daily and   *)
(* the investor chains are other requests, which take the slot as well.    *)
(* The circuit breaker (Gateway) refuses or lets through at any time.  The *)
(* subscriptions are those the last refresh asked for (LiveQuotes models   *)
(* how they get there).  Held codes do not change.                         *)
(***************************************************************************)
EXTENDS Universe

CONSTANTS
    Held,               \* codes of the open positions
    Listings,           \* the rankings the server may answer with
    Served,             \* codes whose charts the server delivers
    Surges,             \* the lists of rising volumes, _last_vol_surge_rows
    SubMax,             \* realtime_sub_max: 50
    LoadMax,            \* charts per scan: 6
    TurboMax,           \* charts per scan from 09:00 to 09:10: 20
    Retries,            \* busy findings before a chain moves on: 3
    Expiry,             \* age in minutes at which the ranking is stale: 5
    MaxChains           \* bound of the model: chart chains at the same time

ASSUME ConstantsAssumption ==
    /\ Held \subseteq AllCodes /\ Served \subseteq AllCodes
    /\ \A l \in Listings : Ranking(l)
    /\ {SubMax, LoadMax, TurboMax, Expiry, MaxChains} \subseteq Nat \ {0}
    /\ Retries \in Nat

VARIABLES
    phase,      \* the part of the day
    rows,       \* _last_volume_rows, and the file opt10030_<day>.json
    age,        \* minutes since they were answered
    fetching,   \* _opt10030_fetching
    slot,       \* the request in flight
    top,        \* codes of the universe, in order
    watched,    \* watch_q.subscribed
    charted,    \* codes whose state holds 55 one-minute bars or more
    chains,     \* the scheduled calls of the chart chains
    retry,      \* _candle_retry_count
    loadDone,   \* _initial_candle_load_done
    preDue      \* the pre-filter is scheduled

vars == <<phase, rows, age, fetching, slot, top, watched, charted, chains,
          retry, loadDone, preDue>>
ranking == <<rows, age, fetching>>
universe == <<top, watched>>
loading == <<chains, retry, loadDone>>

\* From 09:00 and from 09:10 to 15:40, and the rest.  The scan never stops.
Phases == {"opening", "day", "night"}
PeriodsOf == [opening |-> {"early", "middle"}, day |-> {"middle", "late"}, night |-> {"late"}]
OutsideMarket == phase = "night"

\* The scheduled call of a chain: the codes still to be asked for; of a chain of
\* 60-minute charts not even that.
MinChain(todo) == [kind |-> "min", todo |-> todo]
H1Chain == [kind |-> "h1", todo |-> <<>>]
NoChain == [kind |-> "none", todo |-> <<>>]

\* A request holds the call that waits for it.
Request(kind) == [kind |-> kind, from |-> "none", chain |-> NoChain]
Free == Request("free")

\* The universes of the rankings, by period and list of rising volumes.
Rankings == Listings \cup {<<>>}
ScanUniverse ==
    [x \in Rankings \X Periods \X Surges |->
        CodesOf(_filter_and_score_universe(x[1], x[2], x[3]))]
PreUniverse ==
    [x \in Rankings \X Periods \X Surges |-> CodesOf(PreFiltered(x[1], x[2], x[3]))]

FirstOf(s, n) == SubSeq(s, 1, IF Len(s) < n THEN Len(s) ELSE n)

\* Held codes come first in the subscription, up to its limit.
Watch(codes) ==
    LET others == {i \in DOMAIN codes : codes[i] \notin Held}
    IN  ToSet(FirstOf(SetToSeq(Held) \o At(codes, others), SubMax))

\* start(): the files of the day are read; outside the session the cached rows
\* are shown, and the pre-filter waits for 09:00.  In the session the pre-filter
\* runs at once.
Init ==
    /\ phase \in Phases
    /\ rows \in Listings \cup {<<>>} /\ age = Expiry /\ fetching = FALSE
    /\ slot = Free
    /\ top = IF phase = "day" THEN <<>> ELSE CodesOf(FirstBy(rows, Column(rows, "amount")))
    /\ watched = IF top = <<>> THEN {} ELSE Watch(top)
    /\ charted \in {{}, Held}
    /\ chains = {}
    /\ retry = 0 /\ loadDone = FALSE
    /\ preDue = (phase # "night")

-----------------------------------------------------------------------------
(***************************************************************************)
(* The ranking.                                                            *)
(***************************************************************************)
Stale == age >= Expiry

\* The rows are returned from the cache, without a request.
FromCache == rows # <<>> /\ (fetching \/ ~Stale)

\* A request that the slot refuses ends the call at once, and its "finally"
\* takes the flag down, also the flag of a call that is still waiting.  A ban
\* ends the call too.
_fetch_top_volume_rows(caller) ==
    \/ UNCHANGED <<slot, fetching>>
    \/ /\ ~FromCache
       /\ IF slot # Free
          THEN fetching' = FALSE /\ UNCHANGED slot
          ELSE /\ fetching' = TRUE
               /\ slot' = [Request("top") EXCEPT !.from = caller]

\* Every five minutes, and soon after a scan that finds the ranking stale.
_bg_fetch_opt10030 ==
    /\ IF fetching THEN UNCHANGED <<slot, fetching>>
       ELSE _fetch_top_volume_rows("bg")
    /\ UNCHANGED <<phase, rows, age, universe, charted, loading, preDue>>

\* The pre-filter subscribes the universe by amount, without the held codes.
PreFilterOf(r) ==
    \E p \in PeriodsOf[phase], s \in Surges :
        LET kept == PreUniverse[<<r, p, s>>]
        IN  IF kept = <<>> THEN UNCHANGED universe
            ELSE top' = kept /\ watched' = ToSet(FirstOf(kept, SubMax))

\* It goes on at once unless it has a request to wait for.
_run_pre_filter ==
    /\ preDue /\ preDue' = FALSE
    /\ _fetch_top_volume_rows("pre")
    /\ IF slot' = slot THEN PreFilterOf(rows) ELSE UNCHANGED universe
    /\ UNCHANGED <<phase, rows, age, charted, loading>>

\* Mutation of TopAnswered: an empty answer leaves the flag up.
TopAnsweredFlagUp ==
    /\ slot.kind = "top"
    /\ slot' = Free
    /\ \E answer \in Listings \cup {<<>>} :
          LET r == IF answer = <<>> THEN rows ELSE answer
          IN  /\ rows' = r
              /\ age' = IF answer = <<>> THEN age ELSE 0
              /\ fetching' = (answer = <<>>)
              /\ IF slot.from = "pre" THEN PreFilterOf(r) ELSE UNCHANGED universe
    /\ UNCHANGED <<phase, charted, loading, preDue>>

\* An empty answer keeps the cache.
TopAnswered ==
    /\ slot.kind = "top"
    /\ slot' = Free /\ fetching' = FALSE
    /\ \E answer \in Listings \cup {<<>>} :
          LET r == IF answer = <<>> THEN rows ELSE answer
          IN  /\ rows' = r
              /\ age' = IF answer = <<>> THEN age ELSE 0
              /\ IF slot.from = "pre" THEN PreFilterOf(r) ELSE UNCHANGED universe
    /\ UNCHANGED <<phase, charted, loading, preDue>>

\* Balances, orders, the list of rising volumes, daily candles and investors,
\* each asked for when the slot is free.
OtherRequest ==
    /\ \/ slot = Free /\ slot' = Request("other")
       \/ slot = Request("other") /\ slot' = Free
    /\ UNCHANGED <<phase, ranking, universe, charted, loading, preDue>>

-----------------------------------------------------------------------------
(***************************************************************************)
(* The minute scan.                                                        *)
(***************************************************************************)
\* Without a ranking the universe is made of the states the store holds, which
\* count as unchanged, or of yesterday's volumes.
_get_top_volume_data == IF rows = <<>> THEN Rankings ELSE {rows}

Universes ==
    IF rows = <<>> /\ charted # {} THEN {FirstOf(SetToSeq(charted), WatchMax)}
    ELSE {ScanUniverse[x] : x \in _get_top_volume_data \X PeriodsOf[phase] \X Surges}

\* Mutation of LoadLimit: charts are loaded in the opening minutes only.
LoadLimitOpening == IF phase = "opening" THEN TurboMax ELSE 0

LoadLimit == IF phase = "opening" THEN TurboMax ELSE LoadMax

\* The codes a scan starts a chain for.
_ensure_candle_data(codes) ==
    FirstOf(At(codes, {i \in DOMAIN codes : codes[i] \notin charted}), LoadLimit)

\* The states of other codes are dropped.
cleanup_stale_data(active) == charted' = charted \cap active

\* A chain is started unless opt10080 is banned.
Scanned(codes) ==
    LET need == _ensure_candle_data(codes)
    IN  /\ top' = codes
        /\ watched' = Watch(codes)
        /\ chains' \in IF need = <<>> THEN {chains} ELSE {chains, chains \cup {MinChain(need)}}

\* The clean-up spares held codes and those of the table on the screen.
Spared(codes, shown) == codes \cup Held \cup shown

\* A busy slot puts the scan off.
run_periodic_scan ==
    /\ slot = Free /\ Cardinality(chains) < MaxChains
    /\ \E scored \in Universes, shown \in {{}, AllCodes} :
          IF scored = <<>>
          THEN /\ UNCHANGED <<universe, chains>>
               /\ cleanup_stale_data(Spared(watched, shown))
          ELSE /\ Scanned(scored)
               /\ cleanup_stale_data(Spared(ToSet(scored), shown))
    /\ UNCHANGED <<phase, ranking, slot, retry, loadDone, preDue>>

\* Every ten minutes the loop keeps the subscribed codes only.
_realtime_loop ==
    /\ cleanup_stale_data(watched)
    /\ UNCHANGED <<phase, ranking, slot, universe, loading, preDue>>

-----------------------------------------------------------------------------
(***************************************************************************)
(* The chains: each call handles one code and schedules the next call.     *)
(***************************************************************************)
\* The calls that may be scheduled when a code has been dealt with.
Afters(call) ==
    IF call.kind = "min" THEN {{MinChain(Tail(call.todo))}} ELSE {{H1Chain}, {}}

Schedules(call, nexts) ==
    /\ \E next \in nexts : chains' = (chains \ {call}) \cup next
    /\ UNCHANGED slot
Asks(call) ==
    /\ chains' = chains \ {call}
    /\ slot' = [kind |-> call.kind, from |-> "none", chain |-> call]

ChainUnchanged == UNCHANGED <<phase, ranking, universe, charted, preDue>>

\* The end of the first chain saves the charts; every chain of one-minute
\* charts is followed by one of 60-minute charts.
LoadEnds(call) ==
    /\ call.kind = "min"
    /\ \/ /\ OutsideMarket /\ loadDone
          /\ Schedules(call, {{}})
          /\ UNCHANGED loadDone
       \/ /\ ~(OutsideMarket /\ loadDone) /\ call.todo = <<>>
          /\ loadDone' = TRUE
          /\ Schedules(call, {{H1Chain}})
    /\ UNCHANGED retry
    /\ ChainUnchanged

Loading(call) ==
    call.kind = "min" /\ call.todo # <<>> /\ ~(OutsideMarket /\ loadDone)

\* A busy slot: try again, and after Retries findings go on to the next code.
\* The count is shared by all chains.
LoadBusy(call) ==
    /\ Loading(call) /\ slot # Free
    /\ IF retry < Retries
       THEN retry' = retry + 1 /\ UNCHANGED <<chains, slot>>
       ELSE retry' = 0 /\ Schedules(call, Afters(call))
    /\ UNCHANGED loadDone
    /\ ChainUnchanged

LoadSkips(call) ==
    /\ Loading(call) /\ slot = Free /\ call.todo[1] \in charted
    /\ retry' = 0
    /\ Schedules(call, Afters(call))
    /\ UNCHANGED loadDone
    /\ ChainUnchanged

\* A ban ends the chain, without the 60-minute charts.
LoadAsks(call) ==
    /\ Loading(call) /\ slot = Free /\ call.todo[1] \notin charted
    /\ retry' = 0
    /\ Asks(call) \/ Schedules(call, {{}})
    /\ UNCHANGED loadDone
    /\ ChainUnchanged

_load_candles_async(call) ==
    LoadEnds(call) \/ LoadBusy(call) \/ LoadSkips(call) \/ LoadAsks(call)

\* The 60-minute chain waits for the slot without limit, at any hour.
_load_h1_candles_async(call) ==
    /\ call.kind = "h1" /\ slot = Free
    /\ Asks(call) \/ Schedules(call, {{}})
    /\ UNCHANGED <<retry, loadDone>>
    /\ ChainUnchanged

\* The answer of a chart, or none in time, and the next call.  Bars that arrive
\* for a code create its state again.
ChartAnswered ==
    /\ slot.chain # NoChain
    /\ slot' = Free
    /\ \E next \in Afters(slot.chain) : chains' = chains \cup next
    /\ charted' \in IF slot.kind = "min"
                    THEN {charted, charted \cup ({slot.chain.todo[1]} \cap Served)}
                    ELSE {charted}
    /\ UNCHANGED <<phase, ranking, universe, retry, loadDone, preDue>>

-----------------------------------------------------------------------------
(***************************************************************************)
(* Time.                                                                   *)
(***************************************************************************)
Minute ==
    /\ ~Stale /\ age' = age + 1
    /\ UNCHANGED <<phase, rows, fetching, slot, universe, charted, loading, preDue>>

Later ==
    /\ phase' = IF phase = "opening" THEN "day" ELSE "night"
    /\ UNCHANGED <<ranking, slot, universe, charted, loading, preDue>>

Next ==
    \/ _bg_fetch_opt10030 \/ _run_pre_filter \/ TopAnswered \/ OtherRequest
    \/ run_periodic_scan \/ _realtime_loop
    \/ \E call \in chains : _load_candles_async(call) \/ _load_h1_candles_async(call)
    \/ ChartAnswered
    \/ Minute \/ Later

\* Timers fire; a request is answered or times out; whoever asks for the slot
\* again and again finds it free at some time, and not banned; a ranking or a
\* chart that is asked for again and again arrives.
RefreshAsks ==
    /\ ~fetching /\ ~FromCache
    /\ slot = Free /\ slot' = [Request("top") EXCEPT !.from = "bg"]
CanLoad ==
    /\ slot = Free /\ Cardinality(chains) < MaxChains
    /\ \E u \in Universes : _ensure_candle_data(u) # <<>>
DealsWith(c) ==
    \E call \in chains :
        /\ slot = Free /\ Loading(call) /\ call.todo[1] = c
        /\ IF c \in charted
           THEN chains' = (chains \ {call}) \cup {MinChain(Tail(call.todo))} /\ UNCHANGED slot
           ELSE /\ chains' = chains \ {call}
                /\ slot' = [kind |-> "min", from |-> "none", chain |-> call]
LoadingEnds ==
    \E call \in chains :
        /\ call.kind = "min" /\ ~Loading(call)
        /\ \E next \in {{}, {H1Chain}} : chains' = (chains \ {call}) \cup next
H1Asks ==
    /\ H1Chain \in chains /\ slot = Free
    /\ chains' = chains \ {H1Chain}

Fairness ==
    /\ WF_slot(slot # Free /\ slot' = Free)
    /\ SF_slot(RefreshAsks) /\ SF_age(slot.kind = "top" /\ age' = 0)
    /\ []<>CanLoad => []<><<CanLoad /\ chains' # chains>>_chains
    /\ \A c \in AllCodes : SF_<<slot, chains>>(DealsWith(c))
    /\ \A c \in Served :
          SF_charted(/\ slot.kind = "min" /\ slot.chain.todo[1] = c
                     /\ charted' = charted \cup {c})
    /\ WF_chains(LoadingEnds) /\ SF_chains(H1Asks)
    /\ SF_slot(slot.kind = "h1" /\ slot' = Free /\ chains' = chains)

Spec == Init /\ [][Next]_vars /\ Fairness

-----------------------------------------------------------------------------
(***************************************************************************)
(* Properties.                                                             *)
(***************************************************************************)
TypeOK ==
    /\ phase \in Phases
    /\ rows \in Listings \cup {<<>>} /\ age \in 0..Expiry /\ fetching \in BOOLEAN
    /\ slot.kind \in {"free", "top", "min", "h1", "other"}
    /\ \A call \in chains \cup {slot.chain} :
          /\ call.kind \in {"none", "min", "h1"}
          /\ call.todo \in Seq(AllCodes)
    /\ Cardinality(chains) <= MaxChains
    /\ top \in Seq(AllCodes) /\ watched \subseteq AllCodes /\ charted \subseteq AllCodes
    /\ retry \in 0..Retries /\ loadDone \in BOOLEAN /\ preDue \in BOOLEAN

\* The ranking is renewed again and again: no flag left up and no refused
\* request stops the refresh.
FreshUniverse == []<>(age < Expiry)

\* A code that stays among the first of the universe while the market is open
\* gets its chart, for all the competition of other chains, refused requests,
\* codes passed over and clean-ups.
ChartsArrive ==
    \A c \in Served :
        <>[](~OutsideMarket /\ \A u \in Universes : c \in ToSet(FirstOf(u, LoadMax)))
            => []<>(c \in charted)

\* Row r beats s in every respect the score looks at.
Beats(r, s, period, surge) ==
    /\ r.amount > s.amount /\ r.change > s.change
    /\ PrevVolume[r.code] > PrevVolume[s.code] /\ PrevVolume[s.code] > 0
    /\ Pace(r, period) >= Pace(s, period) /\ Pace(s, period) > 0
    /\ s.code \in surge => r.code \in surge

\* The types, and: a row that beats another in every respect the score looks at
\* is not left out of the universe for it (universe.py 118-216).
BetterRowFirst ==
    /\ TypeOK
    /\ \A period \in PeriodsOf[phase], surge \in Surges :
        LET chosen == ToSet(ScanUniverse[<<rows, period, surge>>])
            kept == Eligible(rows, 0)
        IN  \A i, j \in DOMAIN kept :
                Beats(kept[i], kept[j], period, surge) /\ kept[j].code \in chosen
                    => kept[i].code \in chosen
=============================================================================
