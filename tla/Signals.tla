------------------------------- MODULE Signals -------------------------------
(***************************************************************************)
(* SmartScanner turns snapshots into signals (scanner/smart_scanner.py,    *)
(* _realtime_loop, _evaluate and _emit): a round of the loop asks the      *)
(* strategies in their order, the first that answers is handed to _emit,   *)
(* which drops what is too early or what was sold with a loss.             *)
(*                                                                         *)
(* Time passes in half minutes, the shortest time between two evaluations  *)
(* of a stock; ages are counted in them and stop at the longest cool-down. *)
(* The minute of the day is one of Times and may stand still, which only   *)
(* adds behaviours.  The universe is never paused: pause_universe_watch    *)
(* has no caller.                                                          *)
(***************************************************************************)
EXTENDS EntryRules, Sequences, Functions

CONSTANTS
    Codes,
    Times,          \* minutes of the day, increasing
    Facts,          \* the snapshots a stock may have: a function to them
    StrategyOrder,  \* strategy_order, without the strategies not enabled
    OwnCooldown,    \* per strategy: the cool-down it keeps itself
    SignalCooldown, \* signal_cooldown_sec
    LossCooldown,   \* loss_exit_cooldown_minutes
    MinChange, MaxDayChange,  \* min_change_pct, max_change_pct
    MaxRestarts     \* bound

ASSUME ConstantsAssumption ==
    /\ Times \in Seq(0..1439) /\ Times # <<>>
    /\ \A i \in 1..(Len(Times) - 1) : Times[i] < Times[i + 1]
    /\ DOMAIN Facts # {} /\ \A f \in DOMAIN Facts : Snapshot(Facts[f])
    /\ StrategyOrder \in Seq(Strategies) /\ IsInjective(StrategyOrder)
    /\ OwnCooldown \in [Strategies -> Nat]
    /\ {SignalCooldown, LossCooldown, MaxRestarts} \subseteq Nat
    /\ MinChange \in Int /\ MaxDayChange \in Int

VARIABLES
    tick,      \* index into Times
    snap,      \* the snapshot of a code: argument of Facts
    evaluated, \* _last_eval_ts: the codes evaluated in this half minute
    own,       \* the age of a strategy's _last_signal_ts for a code
    sent,      \* the age of SmartScanner._last_signal_ts for a code and type
    lossExit,  \* the age of a code's entry of _loss_exit_dict
    out,       \* the signal of the last evaluation of a code, or "none"
    lost,      \* history: the age of a code's last sale with a loss
    restarts

stamps == <<own, sent, evaluated>>
vars == <<tick, snap, stamps, lossExit, out, lost, restarts>>

Order   == Range(StrategyOrder)
Now     == Times[tick]

Aged(n, limit) == IF n < limit THEN n + 1 ELSE limit

TypeOK ==
    /\ tick \in DOMAIN Times /\ snap \in [Codes -> DOMAIN Facts] /\ evaluated \subseteq Codes
    /\ own \in [Codes -> [Order -> Nat]] /\ sent \in [Codes -> [Order -> 0..(SignalCooldown + 1)]]
    /\ \A c \in Codes, x \in Order : own[c][x] <= OwnCooldown[x]
    /\ lossExit \in [Codes -> 0..LossCooldown] /\ lost \in [Codes -> 0..LossCooldown]
    /\ out \in [Codes -> Order \cup {"none"}] /\ restarts \in 0..MaxRestarts

\* Stamps of the program's start: as good as for ever ago.
FreshOwn  == [c \in Codes |-> [x \in Order |-> OwnCooldown[x]]]
FreshSent == [c \in Codes |-> [x \in Order |-> SignalCooldown + 1]]
None == [c \in Codes |-> "none"]

Init ==
    /\ tick = 1 /\ snap \in [Codes -> DOMAIN Facts] /\ evaluated = {}
    /\ own = FreshOwn /\ sent = FreshSent /\ out = None
    /\ lossExit = [c \in Codes |-> LossCooldown] /\ lost = lossExit
    /\ restarts = 0

----------------------------------------------------------------------------
(* The evaluation of a stock *)

\* The trend is computed for the trend filter or for the overnight mode only;
\* without it the level and the momentum of a snapshot stay 0.
Judged(s) ==
    IF Cfg.yosep \/ Cfg.overnight THEN s
    ELSE [s EXCEPT !.trend = 0, !.momentum = 0, !.watch = 0]

Admitted(s) == s.change >= MinChange /\ s.change < MaxDayChange /\ InWindow(Now)

\* The verdicts of the strategies, tabulated.
Wants ==
    [t \in DOMAIN Times |->
        [f \in DOMAIN Facts |->
            {x \in Strategies : Buys(x, Judged(Facts[f]), Times[t])}]]

\* BaseStrategy.evaluate: silent during its own cool-down.
Answers(x, c) == own[c][x] >= OwnCooldown[x] /\ x \in Wants[tick][snap[c]]

\* The first strategy in the order that answers.
Answer(c) ==
    LET yes   == {i \in DOMAIN StrategyOrder : Answers(StrategyOrder[i], c)}
        first == CHOOSE i \in yes : \A j \in yes : i <= j
    IN  IF Admitted(Facts[snap[c]]) /\ yes # {} THEN StrategyOrder[first] ELSE "none"

\* _emit.  Its stamp is a moment younger than the strategy's: at the very end
\* of the cool-down the one may have run out and the other not.
Emits(x, c, late) ==
    /\ sent[c][x] >= SignalCooldown + (IF late THEN 1 ELSE 0)
    /\ lossExit[c] >= LossCooldown

\* Mutation of Noted: only JDM_ENTRY keeps the time of its signals.
NotedJdm(x, c) == IF x # "JDM_ENTRY" THEN own ELSE [own EXCEPT ![c][x] = 0]

\* A strategy with a cool-down notes its signal.
Noted(x, c) ==
    IF x = "none" \/ OwnCooldown[x] = 0 THEN own ELSE [own EXCEPT ![c][x] = 0]

\* _evaluate.  A strategy with a cool-down notes the signal even if _emit drops
\* it, and no later strategy is asked then either.
Evaluate(c) ==
    /\ c \notin evaluated
    /\ LET x == Answer(c)
       IN  \E late \in (IF x # "none" /\ sent[c][x] = SignalCooldown THEN BOOLEAN ELSE {FALSE}) :
           LET emits == x # "none" /\ Emits(x, c, late)
           IN  /\ out' = [out EXCEPT ![c] = IF emits THEN x ELSE "none"]
               /\ sent' = IF emits THEN [sent EXCEPT ![c][x] = 0] ELSE sent
               /\ own' = Noted(x, c)
    /\ evaluated' = evaluated \cup {c}
    /\ UNCHANGED <<tick, snap, lossExit, lost, restarts>>

----------------------------------------------------------------------------
(* What the loop depends on *)

\* Executions and quotes change what a snapshot shows; only what the next
\* evaluation finds matters.
Trades(c) ==
    /\ c \notin evaluated
    /\ \E f \in DOMAIN Facts \ {snap[c]} : snap' = [snap EXCEPT ![c] = f]
    /\ UNCHANGED <<tick, stamps, lossExit, out, lost, restarts>>

HalfMinute ==
    /\ evaluated = Codes /\ evaluated' = {} /\ out' = None
    /\ own' = [c \in Codes |-> [x \in Order |-> Aged(own[c][x], OwnCooldown[x])]]
    /\ sent' = [c \in Codes |-> [x \in Order |-> Aged(sent[c][x], SignalCooldown + 1)]]
    /\ lossExit' = [c \in Codes |-> Aged(lossExit[c], LossCooldown)]
    /\ lost' = [c \in Codes |-> Aged(lost[c], LossCooldown)]
    /\ tick' \in {tick, tick + 1} \cap DOMAIN Times
    /\ UNCHANGED <<snap, restarts>>

\* mark_loss_exit, after a sale of the exit loop; it saves the dict at once.
LossExit(c) ==
    /\ lossExit[c] = LossCooldown
    /\ lossExit' = [lossExit EXCEPT ![c] = 0] /\ lost' = [lost EXCEPT ![c] = 0]
    /\ out' = None
    /\ UNCHANGED <<tick, snap, stamps, restarts>>

\* Mutation of Restored: the file is not read.
RestoredNothing(dict) == [c \in Codes |-> LossCooldown]

\* _load_loss_exit_dict: the entries of the day come back, the stamps do not.
Restored(dict) == dict

Restart ==
    /\ restarts < MaxRestarts /\ restarts' = restarts + 1
    /\ own' = FreshOwn /\ sent' = FreshSent /\ evaluated' = {} /\ out' = None
    /\ lossExit' = Restored(lossExit)
    /\ UNCHANGED <<tick, snap, lost>>

Next ==
    \/ HalfMinute \/ Restart
    \/ \E c \in Codes : Evaluate(c) \/ Trades(c) \/ LossExit(c)

\* The loop's rounds are a second apart, so none of a half minute is without
\* one, and time goes on.
\* Evaluate(c) alone adds c to evaluated, and HalfMinute alone empties it.
Adds(c) == c \notin evaluated /\ evaluated' = evaluated \cup {c}
Empties == evaluated = Codes /\ evaluated' = {}

Fairness == WF_evaluated(Empties) /\ \A c \in Codes : WF_evaluated(Adds(c))

Spec == Init /\ [][Next]_vars /\ Fairness

----------------------------------------------------------------------------
(* What must hold *)

\* The types, and smart_scanner.py:1019: a code that was sold with a loss is not signalled
\* before its cool-down is over, also when the program is restarted meanwhile.
QuietAfterLoss ==
    /\ TypeOK
    /\ \A c \in Codes : out[c] # "none" => lost[c] >= LossCooldown

\* The facts that differ from f in nothing but a higher leading score, or trend.
MoreLeading ==
    [f \in DOMAIN Facts |-> {g \in DOMAIN Facts :
        /\ Known(Facts[f].leading) /\ Facts[g].leading > Facts[f].leading
        /\ Facts[g] = [Facts[f] EXCEPT !.leading = Facts[g].leading]}]

MoreTrend ==
    [f \in DOMAIN Facts |-> {g \in DOMAIN Facts :
        /\ Facts[g].trend > Facts[f].trend
        /\ Facts[g] = [Facts[f] EXCEPT !.trend = Facts[g].trend]}]

\* jdm.py: the leading score relaxes the gates (the surge, the limit of RSI), has
\* a floor and triggers the early entry; a stronger trend raises the cap of the
\* change, stands in for the crossing of the means and overrides the hourly
\* trend.  More of either never costs a stock the signal of any strategy.
StrengthHelps ==
    \A c \in Codes : \A g \in MoreLeading[snap[c]] \cup MoreTrend[snap[c]] :
        Wants[tick][snap[c]] \subseteq Wants[tick][g]

\* smart_scanner.py:965: a strategy before JDM_ENTRY in the order that answers
\* takes the evaluation, whether it is emitted or not.  Still a stock that
\* JDM_ENTRY wants for good is signalled over and over.
JdmWants(c) ==
    /\ "JDM_ENTRY" \in Wants[tick][snap[c]] /\ Admitted(Facts[snap[c]])
    /\ lossExit[c] >= LossCooldown

JdmHeard ==
    \A c \in Codes : <>[]JdmWants(c) => []<>(out[c] = "JDM_ENTRY")
=============================================================================
