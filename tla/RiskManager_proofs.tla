------------------------- MODULE RiskManager_proofs -------------------------
(***************************************************************************)
(* Proofs about RiskManager, for every value of its constants.             *)
(***************************************************************************)
EXTENDS RiskManager, TLAPS

-----------------------------------------------------------------------------
(* Integers *)

\* A reported profit is an integer.
LEMMA GainIsInt == ASSUME NEW g \in Results \union {0} PROVE g \in Int
<1>1. Results \subseteq Int
  BY ConstantsAssumption
<1>2. CASE g = 0
  BY <1>2
<1>3. CASE g \in Results
  BY <1>1, <1>3
<1> QED
  BY <1>2, <1>3

\* A counter below its bound may be raised.
LEMMA Counts == ASSUME NEW m \in Nat, NEW n \in 0..m, n < m PROVE n + 1 \in 0..m
  OBVIOUS

-----------------------------------------------------------------------------
(* What the operators on the locks return *)

\* The pairing of a cool-off, its clock and the lock it takes.
Paired(r) ==
    /\ r.byCooloff <=> r.cooloff # None
    /\ r.cooloff # None => r.profitLocked \/ r.manual

\* The end of a cool-off leaves paired locks, and never touches the loss lock.
LEMMA CooloffCheckedLocks ==
    ASSUME NEW r \in Risk
    PROVE  /\ CooloffChecked(r) \in Risk
           /\ Paired(r) => Paired(CooloffChecked(r))
           /\ CooloffChecked(r).lossCut = r.lossCut
<1>1. CASE r.cooloff # "due"
  BY <1>1 DEF CooloffChecked
<1>2. CASE r.cooloff = "due"
  <2> DEFINE p == r.profitLocked /\ ~r.byCooloff
             s == [r EXCEPT !.cooloff = None, !.losses = 0, !.byCooloff = FALSE,
                            !.profitLocked = p]
  <2>1. CooloffChecked(r) = s
    BY <1>2 DEF CooloffChecked
  <2>2. s \in Risk /\ s.lossCut = r.lossCut /\ ~s.byCooloff /\ s.cooloff = None
    <3>1. ASSUME NEW q \in BOOLEAN, NEW n \in Nat
          PROVE  [r EXCEPT !.cooloff = None, !.losses = n, !.byCooloff = FALSE,
                           !.profitLocked = q] \in Risk
      BY DEF Risk
    <3>2. p \in BOOLEAN /\ 0 \in Nat
      BY DEF Risk
    <3>3. s \in Risk
      <4> HIDE DEF p
      <4> QED
        BY <3>1, <3>2
    <3>4. s.lossCut = r.lossCut /\ s.cooloff = None
      BY DEF Risk
    <3>5. s.byCooloff = FALSE
      BY DEF Risk
    <3> HIDE DEF s
    <3> QED
      BY <3>3, <3>4, <3>5
  <2>3. Paired(s)
    BY <2>2 DEF Paired
  <2> QED
    BY <2>1, <2>2, <2>3
<1> QED
  BY <1>1, <1>2

\* check keeps the type and the pairing, and takes the loss lock at the limit.
LEMMA CheckedLocks ==
    ASSUME NEW r \in Risk, NEW pnl \in Int, NEW fell \in BOOLEAN
    PROVE  /\ Checked(r, pnl, fell) \in Risk
           /\ Paired(r) => Paired(Checked(r, pnl, fell))
           /\ r.lossCut \/ pnl <= -LossLimit => Checked(r, pnl, fell).lossCut
<1> DEFINE s == [r EXCEPT !.profitLocked = @ \/ (pnl >= ProfitTarget /\ ~r.manual),
                          !.lossCut = @ \/ pnl <= -LossLimit \/ fell]
<1>1. s \in Risk
  BY DEF Risk
<1>2. /\ s.byCooloff = r.byCooloff /\ s.cooloff = r.cooloff /\ s.manual = r.manual
      /\ r.profitLocked => s.profitLocked
      /\ r.lossCut \/ pnl <= -LossLimit => s.lossCut
  BY DEF Risk
<1>3. Paired(r) => Paired(s)
  BY <1>2 DEF Paired
<1>4. Checked(r, pnl, fell) = CooloffChecked(s)
  BY DEF Checked
<1> QED
  BY <1>1, <1>2, <1>3, <1>4, CooloffCheckedLocks

\* Counting a sale keeps the type, the pairing and the loss lock.
LEMMA CountedLocks ==
    ASSUME NEW r \in Risk, NEW gain \in Int, NEW closes \in BOOLEAN
    PROVE  /\ Counted(r, gain, closes) \in Risk
           /\ Paired(r) => Paired(Counted(r, gain, closes))
           /\ Counted(r, gain, closes).lossCut = r.lossCut
<1> DEFINE streak == r.losses + 1 >= LossStreak
           s == Counted(r, gain, closes)
<1>1. CASE ~closes \/ gain = 0
  <2>1. s = r
    BY <1>1 DEF Counted
  <2> QED
    BY <2>1
<1>2. CASE closes /\ gain > 0
  <2>1. s = [r EXCEPT !.losses = 0]
    BY <1>2 DEF Counted
  <2> QED
    BY <2>1, ConstantsAssumption DEF Risk, Paired
<1>3. CASE closes /\ gain < 0 /\ streak /\ ~r.manual
  <2>1. s = CoolingOff(r)
    BY <1>3 DEF Counted
  <2>2. CoolingOff(r) \in Risk
    <3>1. ASSUME NEW n \in Nat
          PROVE  [r EXCEPT !.losses = n, !.cooloff = "running",
                           !.byCooloff = TRUE, !.profitLocked = TRUE] \in Risk
      BY DEF Risk
    <3>2. r.losses + 1 \in Nat
      BY DEF Risk
    <3> QED
      BY <3>1, <3>2 DEF CoolingOff
  <2>3. Paired(CoolingOff(r)) /\ CoolingOff(r).lossCut = r.lossCut
    BY DEF CoolingOff, Risk, Paired, None
  <2> HIDE DEF s
  <2> QED
    BY <2>1, <2>2, <2>3 DEF s
<1>4. CASE closes /\ gain < 0 /\ ~(streak /\ ~r.manual)
  <2> DEFINE n == r.losses + 1
  <2>1. s = [r EXCEPT !.losses = n]
    <3>1. closes /\ gain < 0 /\ ~(gain = 0) /\ ~(gain > 0)
      BY <1>4
    <3>2. s = [r EXCEPT !.losses = @ + 1]
      BY <1>4, <3>1, Zenon DEF Counted
    <3> QED
      BY <3>2
  <2>2. n \in Nat
    BY DEF Risk
  <2> HIDE DEF n
  <2>3. [r EXCEPT !.losses = n] \in Risk
    BY <2>2 DEF Risk
  <2>4. Paired(r) => Paired([r EXCEPT !.losses = n])
    BY DEF Risk, Paired
  <2>5. [r EXCEPT !.losses = n].lossCut = r.lossCut
    BY DEF Risk
  <2> HIDE DEF s
  <2> QED
    BY <2>1, <2>3, <2>4, <2>5 DEF s
<1> QED
  BY <1>1, <1>2, <1>3, <1>4

-----------------------------------------------------------------------------
(* How a step moves the locks *)

LocksMove ==
    \/ risk' \in {risk, Unlocked}
    \/ risk' = CooloffChecked(risk)
    \/ risk.cooloff = "running" /\ risk' = [risk EXCEPT !.cooloff = "due"]
    \/ risk' = [risk EXCEPT !.manual = TRUE, !.profitLocked = FALSE]
    \/ \E fell \in BOOLEAN : risk' = Checked(risk, ledger'.pnl, fell)
    \/ \E fell \in BOOLEAN :
           risk' = Checked(Counted(risk, sale.gain, sale.closes), ledger'.pnl, fell)

\* Each action moves the locks in one of six ways.
LEMMA EveryStepMovesLocks == Next => LocksMove
<1> SUFFICES ASSUME Next PROVE LocksMove
  OBVIOUS
<1>1. CASE Tick
  <2>1. PICK fell \in Falls : Relock(Checked(risk, ledger.pnl, fell))
    BY <1>1 DEF Tick, LimitsChecked
  <2>2. fell \in BOOLEAN /\ ledger' = ledger
    BY <2>1 DEF Falls, Relock, books
  <2> QED
    BY <2>1, <2>2 DEF Relock, LocksMove
<1>2. CASE CooloffTimer \/ CooloffPasses \/ UnlockManually
  BY <1>2 DEF CooloffTimer, CooloffPasses, UnlockManually, Relock, LocksMove
<1>3. CASE BuyFilled \/ SaleReported
  BY <1>3 DEF BuyFilled, SaleReported, LocksMove
<1>4. CASE Midnight \/ Restart
  BY <1>4 DEF Midnight, Restart, LocksMove
<1>5. CASE Signal \/ ManualBuy \/ SaleExecuted \/ OrphanReported \/ SwitchSaved
  BY <1>5 DEF Signal, ManualBuy, SaleExecuted, OrphanReported, SwitchSaved, LocksMove
<1>6. CASE SyncStep1 \/ SyncStep2 \/ SyncFails \/ MarketOpens \/ MarketCloses
  BY <1>6 DEF SyncStep1, SyncStep2, SyncFails, MarketOpens, MarketCloses, LocksMove
<1> QED
  BY <1>1, <1>2, <1>3, <1>4, <1>5, <1>6 DEF Next

\* The moves keep the type and the pairing of the locks.
LEMMA MovesKeepLocks ==
    ASSUME risk \in Risk, ledger'.pnl \in Int, sale.gain \in Int,
           sale.closes \in BOOLEAN, LocksMove
    PROVE  risk' \in Risk /\ (Paired(risk) => Paired(risk'))
<1>1. CASE risk' = risk
  BY <1>1
<1>2. CASE risk' = Unlocked
  BY <1>2, ConstantsAssumption DEF Unlocked, Risk, Paired
<1>3. CASE risk' = CooloffChecked(risk)
  BY <1>3, CooloffCheckedLocks
<1>4. CASE risk.cooloff = "running" /\ risk' = [risk EXCEPT !.cooloff = "due"]
  BY <1>4 DEF Risk, Paired, None
<1>5. CASE risk' = [risk EXCEPT !.manual = TRUE, !.profitLocked = FALSE]
  BY <1>5 DEF Risk, Paired
<1>6. CASE \E fell \in BOOLEAN : risk' = Checked(risk, ledger'.pnl, fell)
  BY <1>6, CheckedLocks
<1>7. CASE \E fell \in BOOLEAN :
             risk' = Checked(Counted(risk, sale.gain, sale.closes), ledger'.pnl, fell)
  <2> DEFINE s == Counted(risk, sale.gain, sale.closes)
  <2>1. s \in Risk /\ (Paired(risk) => Paired(s))
    BY CountedLocks
  <2> HIDE DEF s
  <2> QED
    BY <1>7, <2>1, CheckedLocks DEF s
<1> QED
  BY <1>1, <1>2, <1>3, <1>4, <1>5, <1>6, <1>7 DEF LocksMove

-----------------------------------------------------------------------------
(* What the operators on the ledger return *)

\* Each of them yields a ledger.
LEMMA LedgerOperators ==
    ASSUME NEW l \in Ledger, NEW gain \in Int, NEW answered \in BOOLEAN,
           filed \in Int, realized \in Int
    PROVE  /\ EmptyLedger(gain) \in Ledger
           /\ Rolled(l) \in Ledger
           /\ Booked(l, gain) \in Ledger
           /\ Synced(l, answered) \in Ledger
           /\ [l EXCEPT !.rolled = FALSE] \in Ledger
<1>1. EmptyLedger(gain) \in Ledger /\ EmptyLedger(0) \in Ledger
  BY DEF EmptyLedger, Ledger
<1>2. Rolled(l) \in Ledger
  BY <1>1 DEF Rolled
<1>3. ASSUME NEW k \in Ledger PROVE Recomputed(k) \in Ledger
  BY <1>3 DEF Recomputed, Ledger
<1>4. Booked(l, gain) \in Ledger
  <2>1. [l EXCEPT !.extra = @ + gain] \in Ledger
    BY DEF Ledger
  <2> QED
    BY <2>1, <1>3 DEF Booked
<1>5. Synced(l, answered) \in Ledger
  <2>1. ASSUME NEW n \in Int, NEW m \in Int
        PROVE  [l EXCEPT !.extra = m, !.synced = TRUE, !.base = n] \in Ledger
    BY DEF Ledger
  <2>2. (IF answered /\ realized # 0 THEN realized ELSE filed) \in Int /\ 0 \in Int
    OBVIOUS
  <2> QED
    BY <2>1, <2>2, <1>3 DEF Synced
<1>6. [l EXCEPT !.rolled = FALSE] \in Ledger
  BY DEF Ledger
<1> QED
  BY <1>1, <1>2, <1>4, <1>5, <1>6

-----------------------------------------------------------------------------
(* Type correctness *)

\* Every action that touches the books keeps their types.
LEMMA BooksStayTyped ==
    TypeOK /\ [Next]_vars => /\ ledger' \in Ledger /\ statePnl' \in Int
                            /\ filed' \in Int /\ realized' \in Int
<1> SUFFICES ASSUME TypeOK, [Next]_vars
             PROVE  /\ ledger' \in Ledger /\ statePnl' \in Int
                    /\ filed' \in Int /\ realized' \in Int
  OBVIOUS
<1>1. /\ ledger \in Ledger /\ statePnl \in Int /\ filed \in Int /\ realized \in Int
      /\ sale.gain \in Int /\ session.pnl \in Int
  <2>1. sale.gain \in Results \union {0} /\ session.pnl \in Int
    BY DEF TypeOK
  <2> QED
    BY <2>1, GainIsInt DEF TypeOK
<1>2. ASSUME NEW l \in Ledger PROVE l.pnl \in Int
  BY DEF Ledger
<1>3. CASE UNCHANGED vars
  BY <1>1, <1>3 DEF vars
<1>4. CASE SaleReported
  <2>1. ledger' = Booked(Rolled(ledger), sale.gain) /\ statePnl' = ledger'.pnl
    BY <1>4 DEF SaleReported
  <2>2. filed' \in Int /\ realized' = realized
    BY <1>1, <1>4 DEF SaleReported
  <2>3. Rolled(ledger) \in Ledger
    BY <1>1, LedgerOperators
  <2>4. Booked(Rolled(ledger), sale.gain) \in Ledger
    BY <1>1, <2>3, LedgerOperators
  <2> QED
    BY <1>1, <1>2, <2>1, <2>2, <2>4
<1>5. CASE SyncStep2
  <2>1. PICK answered \in {FALSE, BrokerReports} : ledger' = Synced(ledger, answered)
    BY <1>5 DEF SyncStep2
  <2>2. ledger' \in Ledger
    BY <1>1, <2>1, LedgerOperators, ConstantsAssumption
  <2> QED
    BY <1>1, <1>2, <1>5, <2>2 DEF SyncStep2
<1>6. CASE OrphanReported \/ BuyFilled \/ SyncStep1
  <2>1. ledger' = Rolled(ledger) /\ UNCHANGED <<statePnl, filed, realized>>
    BY <1>6 DEF OrphanReported, BuyFilled, SyncStep1
  <2> QED
    BY <1>1, <2>1, LedgerOperators
<1>7. CASE Midnight
  BY <1>1, <1>7, LedgerOperators, ConstantsAssumption DEF Midnight
<1>8. CASE Restart
  BY <1>1, <1>8, LedgerOperators DEF Restart
<1>9. CASE SaleExecuted
  <2>1. PICK gain \in Results : realized' = realized + gain
    BY <1>9 DEF SaleExecuted
  <2> QED
    BY <1>1, <1>9, <2>1 DEF SaleExecuted
<1>10. CASE Tick \/ CooloffTimer \/ CooloffPasses \/ UnlockManually \/ SwitchSaved
  BY <1>1, <1>10
  DEF Tick, LimitsChecked, CooloffTimer, CooloffPasses, UnlockManually, SwitchSaved,
      Relock, books
<1>11. CASE \/ Signal \/ ManualBuy \/ SyncFails \/ MarketOpens \/ MarketCloses
  BY <1>1, <1>11 DEF Signal, ManualBuy, SyncFails, MarketOpens, MarketCloses, books
<1> QED
  BY <1>3, <1>4, <1>5, <1>6, <1>7, <1>8, <1>9, <1>10, <1>11 DEF Next

\* The session files: one of another day gives the program nothing.
Sessions == {s \in [today : BOOLEAN, pnl : Int] : s.today \/ s.pnl = 0}

\* Every step keeps the type of every variable.
LEMMA TypeStep == TypeOK /\ [Next]_vars => TypeOK'
<1> SUFFICES ASSUME TypeOK, [Next]_vars PROVE TypeOK'
  OBVIOUS
<1>1. /\ risk \in Risk /\ ledger \in Ledger /\ session \in Sessions
      /\ statePnl \in Int /\ statePnl' \in Int /\ ledger' \in Ledger
      /\ filed' \in Int /\ realized' \in Int
      /\ sale \in [out : BOOLEAN, gain : Results \union {0}, closes : BOOLEAN]
  BY BooksStayTyped DEF TypeOK, Sessions
<1>2. risk' \in Risk
  <2>1. ledger'.pnl \in Int /\ sale.gain \in Results \union {0} /\ sale.closes \in BOOLEAN
    BY <1>1 DEF Ledger
  <2>2. sale.gain \in Int
    BY <2>1, GainIsInt
  <2>3. CASE Next
    BY <1>1, <2>1, <2>2, <2>3, EveryStepMovesLocks, MovesKeepLocks
  <2> QED
    BY <1>1, <2>3 DEF vars
<1>3. session' \in Sessions
  <2>1. ASSUME NEW changed \in BOOLEAN, NEW pnl \in Int, SavedIf(changed, pnl)
        PROVE  session' \in Sessions
    BY <1>1, <2>1 DEF SavedIf, Sessions
  <2>2. CASE Tick \/ CooloffTimer \/ CooloffPasses \/ UnlockManually \/ SwitchSaved
    BY <1>1, <2>1, <2>2
    DEF Tick, LimitsChecked, CooloffTimer, CooloffPasses, UnlockManually, SwitchSaved,
        Relock, LocksDiffer
  <2>3. CASE BuyFilled \/ SaleReported \/ SyncStep2
    BY <1>1, <2>1, <2>3 DEF BuyFilled, SaleReported, SyncStep2, LocksDiffer
  <2>4. CASE Midnight
    BY <1>1, <2>4 DEF Midnight, NoSession, Sessions
  <2>5. CASE \/ Signal \/ ManualBuy \/ SaleExecuted \/ OrphanReported \/ SyncStep1
             \/ SyncFails \/ MarketOpens \/ MarketCloses \/ Restart
    BY <1>1, <2>5 DEF Signal, ManualBuy, SaleExecuted, OrphanReported, SyncStep1,
                      SyncFails, MarketOpens, MarketCloses, Restart
  <2> QED
    BY <1>1, <2>2, <2>3, <2>4, <2>5 DEF Next, vars
<1>4. sale' \in [out : BOOLEAN, gain : Results \union {0}, closes : BOOLEAN]
  <2>1. NoSale \in [out : BOOLEAN, gain : Results \union {0}, closes : BOOLEAN]
    BY DEF NoSale
  <2>2. CASE SaleExecuted
    BY <2>2 DEF SaleExecuted
  <2>3. CASE SaleReported \/ OrphanReported \/ Restart
    BY <1>1, <2>1, <2>3 DEF SaleReported, OrphanReported, Restart
  <2>4. CASE Tick \/ CooloffTimer \/ CooloffPasses \/ UnlockManually \/ SwitchSaved
    BY <1>1, <2>4
    DEF Tick, LimitsChecked, CooloffTimer, CooloffPasses, UnlockManually, SwitchSaved,
        Relock, stock
  <2>5. CASE \/ Signal \/ ManualBuy \/ BuyFilled \/ SyncStep1 \/ SyncStep2
             \/ SyncFails \/ MarketOpens \/ MarketCloses \/ Midnight
    BY <1>1, <2>5 DEF Signal, ManualBuy, BuyFilled, SyncStep1, SyncStep2,
                      SyncFails, MarketOpens, MarketCloses, Midnight, stock
  <2> QED
    BY <1>1, <2>2, <2>3, <2>4, <2>5 DEF Next, vars
<1>5. /\ holds' \in BOOLEAN /\ known' \in BOOLEAN /\ buying' \in BOOLEAN
      /\ queued' \in BOOLEAN /\ balance' \in BOOLEAN /\ phase' \in Phase
  <2>1. /\ holds \in BOOLEAN /\ known \in BOOLEAN /\ buying \in BOOLEAN
        /\ queued \in BOOLEAN /\ balance \in BOOLEAN /\ phase \in Phase
        /\ sale.closes \in BOOLEAN /\ KeptSignal \in BOOLEAN
    BY DEF TypeOK, KeptSignal
  <2>2. CASE Signal \/ ManualBuy \/ SaleExecuted
    BY <2>1, <2>2 DEF Signal, ManualBuy, SaleExecuted, Enter
  <2>3. CASE BuyFilled \/ OrphanReported \/ SyncStep1
    BY <2>1, <2>3 DEF BuyFilled, OrphanReported, SyncStep1, stock
  <2>4. CASE SaleReported
    BY <2>1, <2>4 DEF SaleReported, Replay, Enter
  <2>5. CASE Tick \/ CooloffTimer \/ CooloffPasses \/ UnlockManually \/ SwitchSaved
    BY <2>1, <2>5 DEF Tick, LimitsChecked, CooloffTimer, CooloffPasses, UnlockManually,
                      SwitchSaved, Relock, stock
  <2>6. CASE SyncStep2 \/ SyncFails
    BY <2>1, <2>6 DEF SyncStep2, SyncFails, stock
  <2>7. CASE MarketOpens \/ MarketCloses \/ Midnight \/ Restart
    BY <2>1, <2>7 DEF MarketOpens, MarketCloses, Midnight, Restart, stock, Phase
  <2> QED
    BY <2>1, <2>2, <2>3, <2>4, <2>5, <2>6, <2>7 DEF Next, vars
<1>6. /\ day' \in 1..MaxDays /\ sales' \in 0..MaxSales
      /\ entered' \in 0..MaxEntries /\ restarts' \in 0..MaxRestarts
  <2>1. /\ day \in 1..MaxDays /\ sales \in 0..MaxSales
        /\ entered \in 0..MaxEntries /\ restarts \in 0..MaxRestarts
        /\ MaxSales \in Nat /\ MaxEntries \in Nat /\ MaxRestarts \in Nat
        /\ MaxDays \in Nat
    BY ConstantsAssumption DEF TypeOK
  <2>2. CASE Signal \/ SaleReported
    <3>1. /\ entered' = entered \/ (entered < MaxEntries /\ entered' = entered + 1)
          /\ UNCHANGED <<day, sales, restarts>>
      BY <2>2 DEF Signal, SaleReported, Replay, MayEnter, Enter
    <3> QED
      BY <2>1, <3>1, Counts
  <2>3. CASE SaleExecuted
    <3>1. sales < MaxSales /\ sales' = sales + 1 /\ UNCHANGED <<day, entered, restarts>>
      BY <2>3 DEF SaleExecuted
    <3> QED
      BY <2>1, <3>1, Counts
  <2>4. CASE Midnight
    <3>1. day < MaxDays /\ day' = day + 1 /\ UNCHANGED <<sales, entered, restarts>>
      BY <2>4 DEF Midnight
    <3> QED
      BY <2>1, <3>1
  <2>5. CASE Restart
    <3>1. /\ restarts < MaxRestarts /\ restarts' = restarts + 1
          /\ UNCHANGED <<day, sales, entered>>
      BY <2>5 DEF Restart
    <3> QED
      BY <2>1, <3>1, Counts
  <2>6. CASE Tick \/ CooloffTimer \/ CooloffPasses \/ UnlockManually \/ SwitchSaved
    BY <2>1, <2>6 DEF Tick, LimitsChecked, CooloffTimer, CooloffPasses, UnlockManually,
                      SwitchSaved, Relock, counts
  <2>7. CASE \/ ManualBuy \/ BuyFilled \/ OrphanReported \/ SyncStep1 \/ SyncStep2
             \/ SyncFails \/ MarketOpens \/ MarketCloses
    BY <2>1, <2>7 DEF ManualBuy, BuyFilled, OrphanReported, SyncStep1, SyncStep2,
                      SyncFails, MarketOpens, MarketCloses, counts
  <2> QED
    BY <2>1, <2>2, <2>3, <2>4, <2>5, <2>6, <2>7 DEF Next, vars
<1> QED
  BY <1>1, <1>2, <1>3, <1>4, <1>5, <1>6 DEF TypeOK, Sessions

\* Every variable has its type in every state (RiskManager, OrderManager's
\* ledger and AppState's session file stay well formed through every handler),
\* and a session file of another day gives the program nothing.
THEOREM TypeCorrect == Spec => []TypeOK
<1>1. Init => TypeOK
  <2> SUFFICES ASSUME Init PROVE TypeOK
    OBVIOUS
  <2>1. risk \in Risk
    BY ConstantsAssumption DEF Init, Unlocked, Risk
  <2>2. ledger \in Ledger
    BY DEF Init, EmptyLedger, Ledger
  <2>3. session \in [today : BOOLEAN, pnl : Int] /\ session.pnl = 0
    BY DEF Init, NoSession
  <2>4. sale \in [out : BOOLEAN, gain : Results \union {0}, closes : BOOLEAN]
    BY DEF Init, NoSale
  <2>5. /\ day \in 1..MaxDays /\ sales \in 0..MaxSales
        /\ entered \in 0..MaxEntries /\ restarts \in 0..MaxRestarts
    BY ConstantsAssumption DEF Init
  <2>6. statePnl \in Int /\ filed \in Int /\ realized \in Int
    BY SMT DEF Init
  <2>7. /\ holds \in BOOLEAN /\ known \in BOOLEAN /\ buying \in BOOLEAN
        /\ queued \in BOOLEAN /\ balance \in BOOLEAN /\ phase \in Phase
    BY Zenon DEF Init, Phase
  <2> QED
    BY <2>1, <2>2, <2>3, <2>4, <2>5, <2>6, <2>7 DEF TypeOK
<1> QED
  BY <1>1, TypeStep, PTL DEF Spec

-----------------------------------------------------------------------------
(* Cool-offs *)

\* A cool-off that runs keeps the entry lock closed until it ends or the user
\* lifts it, and no lock of a cool-off is left without the clock that ends it
\* (_check_cooloff, _on_order_filled and unlock of RiskManager).
THEOREM CooloffKept == Spec => []CooloffHolds
<1>1. Init => CooloffHolds
  BY DEF Init, Unlocked, CooloffHolds
<1>2. TypeOK /\ CooloffHolds /\ [Next]_vars => CooloffHolds'
  <2> SUFFICES ASSUME TypeOK, CooloffHolds, [Next]_vars PROVE CooloffHolds'
    OBVIOUS
  <2>1. Paired(risk)
    BY DEF CooloffHolds, Paired
  <2>2. /\ risk \in Risk /\ ledger' \in Ledger
        /\ sale.gain \in Results \union {0} /\ sale.closes \in BOOLEAN
    BY BooksStayTyped DEF TypeOK
  <2>3. ledger'.pnl \in Int /\ sale.gain \in Int
    BY <2>2, GainIsInt DEF Ledger
  <2>4. Paired(risk')
    <3>1. CASE Next
      BY <2>1, <2>2, <2>3, <3>1, EveryStepMovesLocks, MovesKeepLocks
    <3> QED
      BY <2>1, <3>1 DEF vars
  <2> QED
    BY <2>4 DEF CooloffHolds, Paired
<1> QED
  BY <1>1, <1>2, TypeCorrect, PTL DEF Spec

-----------------------------------------------------------------------------
(* The ledger and the fills file, when the broker reports no daily sum *)

\* A booked sale is added to the ledger; the day goes on.
LEMMA BookedLedger ==
    ASSUME NEW l \in Ledger, NEW gain \in Int
    PROVE  /\ Booked(l, gain).pnl = l.base + l.extra + gain
           /\ Booked(l, gain).base + Booked(l, gain).extra = l.base + l.extra + gain
           /\ Booked(l, gain).synced = l.synced /\ Booked(l, gain).rolled = l.rolled
<1> DEFINE k == [l EXCEPT !.extra = @ + gain]
<1>1. /\ k \in Ledger /\ k.base = l.base /\ k.extra = l.extra + gain
      /\ k.synced = l.synced /\ k.rolled = l.rolled
  BY DEF Ledger
<1> HIDE DEF k
<1>2. /\ Recomputed(k).pnl = k.base + k.extra
      /\ Recomputed(k).base = k.base /\ Recomputed(k).extra = k.extra
      /\ Recomputed(k).synced = k.synced /\ Recomputed(k).rolled = k.rolled
  BY <1>1 DEF Recomputed, Ledger
<1>3. Booked(l, gain) = Recomputed(k)
  BY DEF Booked, k
<1>4. l.base \in Int /\ l.extra \in Int
  BY DEF Ledger
<1> QED
  BY <1>1, <1>2, <1>3, <1>4

\* A first sync without an answer sets the ledger to the fills file.
LEMMA SyncedLedger ==
    ASSUME NEW l \in Ledger, ~l.synced, filed \in Int
    PROVE  /\ Synced(l, FALSE).pnl = filed
           /\ Synced(l, FALSE).base + Synced(l, FALSE).extra = filed
           /\ Synced(l, FALSE).rolled = l.rolled
<1> DEFINE k == [l EXCEPT !.extra = 0, !.synced = TRUE, !.base = filed]
<1>1. k.base = filed /\ k.extra = 0 /\ k.rolled = l.rolled
  BY DEF Ledger
<1>2. DOMAIN k = {"pnl", "base", "extra", "synced", "rolled"}
  BY DEF Ledger
<1> HIDE DEF k
<1>3. /\ Recomputed(k).pnl = k.base + k.extra
      /\ Recomputed(k).base = k.base /\ Recomputed(k).extra = k.extra
      /\ Recomputed(k).rolled = k.rolled
  BY <1>2 DEF Recomputed
<1>4. Synced(l, FALSE) = Recomputed(k)
  BY DEF Synced, k
<1>5. k.base + k.extra = filed
  BY <1>1
<1> QED
  BY <1>1, <1>3, <1>4, <1>5, Zenon

BooksMove ==
    \/ UNCHANGED <<ledger, filed, restarts>>
    \/ ledger' = Rolled(ledger) /\ UNCHANGED <<filed, restarts>>
    \/ /\ ledger' = Booked(Rolled(ledger), sale.gain) /\ filed' = filed + sale.gain
       /\ restarts' = restarts
    \/ ledger' = Synced(ledger, FALSE) /\ UNCHANGED <<filed, restarts>>
    \/ ledger' = [ledger EXCEPT !.rolled = FALSE] /\ filed' = 0 /\ restarts' = restarts
    \/ ledger' = EmptyLedger(statePnl') /\ filed' = filed /\ restarts' = restarts + 1

\* Each action moves the ledger and the fills file in one of six ways.
LEMMA EveryStepMovesBooks == ASSUME ~BrokerReports, Next PROVE BooksMove
<1>1. CASE Tick \/ CooloffTimer \/ CooloffPasses \/ UnlockManually \/ SwitchSaved
  BY <1>1 DEF Tick, LimitsChecked, CooloffTimer, CooloffPasses, UnlockManually,
              SwitchSaved, Relock, books, counts, BooksMove
<1>2. CASE BuyFilled \/ OrphanReported \/ SyncStep1
  BY <1>2 DEF BuyFilled, OrphanReported, SyncStep1, counts, BooksMove
<1>3. CASE SaleReported
  BY <1>3 DEF SaleReported, BooksMove
<1>4. CASE SyncStep2
  <2>1. {FALSE, BrokerReports} = {FALSE}
    BY ConstantsAssumption
  <2>2. ledger' = Synced(ledger, FALSE)
    BY <1>4, <2>1 DEF SyncStep2
  <2> QED
    BY <1>4, <2>2 DEF SyncStep2, counts, BooksMove
<1>5. CASE Midnight \/ Restart
  BY <1>5 DEF Midnight, Restart, BooksMove
<1>6. CASE \/ Signal \/ ManualBuy \/ SaleExecuted \/ SyncFails \/ MarketOpens
           \/ MarketCloses
  BY <1>6 DEF Signal, ManualBuy, SaleExecuted, SyncFails, MarketOpens, MarketCloses,
              books, counts, BooksMove
<1> QED
  BY <1>1, <1>2, <1>3, <1>4, <1>5, <1>6 DEF Next

\* The fields of a ledger that is rolled.
LEMMA RolledLedger ==
    ASSUME NEW l \in Ledger
    PROVE  /\ l.rolled => Rolled(l) = l
           /\ ~l.rolled => /\ Rolled(l).pnl = 0 /\ Rolled(l).base + Rolled(l).extra = 0
                          /\ ~Rolled(l).synced
           /\ Rolled(l).rolled
  BY DEF Rolled, EmptyLedger, Ledger

\* What a sale, a roll and a sync leave in the books, for the two invariants
\* below.
Kept(l, sum) == l.pnl = sum /\ l.base + l.extra = sum

LedgerInv == ledger.synced /\ ledger.rolled => Kept(ledger, filed)

\* On an account without daily reports the initialized ledger of the day holds
\* every sale of the fills file exactly once
\* (_sync_daily_realized_from_broker, _handle_sell_fill).
THEOREM LedgerCounted ==
    ASSUME ~BrokerReports
    PROVE  Spec => []LedgerExact
<1>1. Init => LedgerInv
  BY DEF Init, EmptyLedger, LedgerInv
<1>2. TypeOK /\ LedgerInv /\ [Next]_vars => LedgerInv'
  <2> SUFFICES ASSUME TypeOK, LedgerInv, [Next]_vars PROVE LedgerInv'
    OBVIOUS
  <2>1. /\ ledger \in Ledger /\ filed \in Int /\ realized \in Int /\ statePnl' \in Int
        /\ sale.gain \in Results \union {0}
    BY BooksStayTyped DEF TypeOK
  <2>2. sale.gain \in Int
    BY <2>1, GainIsInt
  <2>3. CASE UNCHANGED <<ledger, filed>>
    BY <2>3 DEF LedgerInv, Kept
  <2>4. CASE ledger' = Rolled(ledger) /\ filed' = filed
    BY <2>1, <2>4, RolledLedger DEF LedgerInv, Kept
  <2>5. CASE ledger' = Booked(Rolled(ledger), sale.gain) /\ filed' = filed + sale.gain
    <3> DEFINE l == Rolled(ledger)
    <3>1. l \in Ledger /\ l.base \in Int /\ l.extra \in Int
      BY <2>1, LedgerOperators DEF Ledger
    <3>2. SUFFICES ASSUME ledger'.synced, ledger'.rolled PROVE Kept(ledger', filed')
      BY DEF LedgerInv, Kept
    <3>3. /\ ledger'.pnl = l.base + l.extra + sale.gain
          /\ ledger'.base + ledger'.extra = l.base + l.extra + sale.gain
          /\ l.synced
      BY <2>2, <2>5, <3>1, <3>2, BookedLedger
    <3>4. l = ledger /\ ledger.rolled
      BY <2>1, <3>3, RolledLedger
    <3>5. ledger.base + ledger.extra = filed
      BY <3>3, <3>4 DEF LedgerInv, Kept
    <3> HIDE DEF l
    <3> QED
      BY <2>1, <2>2, <2>5, <3>3, <3>4, <3>5 DEF Kept
  <2>6. CASE ledger' = Synced(ledger, FALSE) /\ filed' = filed
    <3>1. CASE ledger.synced
      BY <2>6, <3>1 DEF Synced, LedgerInv, Kept
    <3>2. CASE ~ledger.synced
      BY <2>1, <2>6, <3>2, SyncedLedger DEF LedgerInv, Kept
    <3> QED
      BY <3>1, <3>2
  <2>7. CASE ledger' = [ledger EXCEPT !.rolled = FALSE]
    BY <2>1, <2>7 DEF LedgerInv, Ledger
  <2>8. CASE ledger' = EmptyLedger(statePnl')
    BY <2>8 DEF LedgerInv, EmptyLedger
  <2>9. CASE Next
    BY <2>3, <2>4, <2>5, <2>6, <2>7, <2>8, <2>9, EveryStepMovesBooks DEF BooksMove
  <2> QED
    BY <2>3, <2>9 DEF vars
<1>3. LedgerInv => LedgerExact
  BY DEF LedgerInv, Kept, LedgerExact
<1> QED
  BY <1>1, <1>2, <1>3, TypeCorrect, PTL DEF Spec

-----------------------------------------------------------------------------
(* The loss limit *)

\* Before the first restart the ledger agrees with the fills file all day and a
\* day that is not rolled has no sale.
LossBooks ==
    restarts = 0 => /\ ~ledger.rolled => filed = 0
                    /\ ledger.rolled => Kept(ledger, filed)

\* A lost limit is locked.
LossLocked == restarts = 0 /\ filed <= -LossLimit => risk.lossCut

\* Every step keeps the books in agreement.
LEMMA LossBooksStep ==
    ASSUME ~BrokerReports, TypeOK, LossBooks, [Next]_vars
    PROVE  LossBooks' /\ (restarts' = 0 => restarts = 0)
<1>1. /\ ledger \in Ledger /\ filed \in Int /\ realized \in Int
      /\ statePnl \in Int /\ sale.gain \in Results \union {0} /\ restarts \in 0..MaxRestarts
  BY DEF TypeOK
<1>2. sale.gain \in Int
  BY <1>1, GainIsInt
<1>3. CASE UNCHANGED <<ledger, filed, restarts>>
  BY <1>3 DEF LossBooks, Kept
<1>4. CASE ledger' = Rolled(ledger) /\ UNCHANGED <<filed, restarts>>
  BY <1>1, <1>4, RolledLedger DEF LossBooks, Kept
<1>5. CASE /\ ledger' = Booked(Rolled(ledger), sale.gain) /\ filed' = filed + sale.gain
           /\ restarts' = restarts
  <2> DEFINE l == Rolled(ledger)
  <2>1. l \in Ledger /\ l.rolled
    BY <1>1, LedgerOperators, RolledLedger
  <2>2. l.base \in Int /\ l.extra \in Int
    BY <2>1 DEF Ledger
  <2>3. restarts = 0 => l.base + l.extra = filed
    BY <1>1, RolledLedger DEF LossBooks, Kept
  <2>4. /\ ledger'.pnl = l.base + l.extra + sale.gain
        /\ ledger'.base + ledger'.extra = l.base + l.extra + sale.gain
        /\ ledger'.rolled
    BY <1>2, <1>5, <2>1, BookedLedger
  <2> HIDE DEF l
  <2> QED
    BY <1>1, <1>2, <1>5, <2>2, <2>3, <2>4 DEF LossBooks, Kept
<1>6. CASE ledger' = Synced(ledger, FALSE) /\ UNCHANGED <<filed, restarts>>
  <2>1. CASE ledger.synced
    BY <1>6, <2>1 DEF Synced, LossBooks, Kept
  <2>2. CASE ~ledger.synced
    BY <1>1, <1>6, <2>2, SyncedLedger DEF LossBooks, Kept
  <2> QED
    BY <2>1, <2>2
<1>7. CASE ledger' = [ledger EXCEPT !.rolled = FALSE] /\ filed' = 0 /\ restarts' = restarts
  BY <1>1, <1>7 DEF LossBooks, Ledger
<1>8. CASE restarts' = restarts + 1
  BY <1>1, <1>8 DEF LossBooks
<1>9. CASE Next
  BY <1>3, <1>4, <1>5, <1>6, <1>7, <1>8, <1>9, EveryStepMovesBooks DEF BooksMove
<1> QED
  BY <1>3, <1>9 DEF vars

\* A step that changes neither the day nor the session keeps the loss lock.
LEMMA LossLockKept ==
    ASSUME TypeOK, [Next]_vars, ~Midnight, ~Restart, risk.lossCut
    PROVE  risk'.lossCut
<1>1. risk \in Risk /\ ledger \in Ledger /\ ledger' \in Ledger
      /\ sale.gain \in Results \union {0} /\ sale.closes \in BOOLEAN
  BY BooksStayTyped DEF TypeOK
<1>2. ledger.pnl \in Int /\ ledger'.pnl \in Int /\ sale.gain \in Int
  BY <1>1, GainIsInt DEF Ledger
<1>3. CASE Tick
  <2>1. PICK fell \in BOOLEAN : risk' = Checked(risk, ledger.pnl, fell)
    BY <1>3 DEF Tick, LimitsChecked, Falls, Relock
  <2> QED
    BY <1>1, <1>2, <2>1, CheckedLocks
<1>4. CASE BuyFilled
  <2>1. PICK fell \in BOOLEAN : risk' = Checked(risk, ledger'.pnl, fell)
    BY <1>4 DEF BuyFilled
  <2> QED
    BY <1>1, <1>2, <2>1, CheckedLocks
<1>5. CASE SaleReported
  <2> DEFINE s == Counted(risk, sale.gain, sale.closes)
  <2>1. PICK fell \in BOOLEAN : risk' = Checked(s, ledger'.pnl, fell)
    BY <1>5 DEF SaleReported
  <2>2. s \in Risk /\ s.lossCut
    BY <1>1, <1>2, CountedLocks
  <2> HIDE DEF s
  <2> QED
    BY <1>2, <2>1, <2>2, CheckedLocks
<1>6. CASE CooloffTimer
  BY <1>1, <1>6, CooloffCheckedLocks DEF CooloffTimer, Relock
<1>7. CASE CooloffPasses \/ UnlockManually
  BY <1>1, <1>7 DEF CooloffPasses, UnlockManually, Relock, Risk
<1>8. CASE \/ Signal \/ ManualBuy \/ SaleExecuted \/ OrphanReported \/ SwitchSaved
           \/ SyncStep1 \/ SyncStep2 \/ SyncFails \/ MarketOpens \/ MarketCloses
           \/ UNCHANGED vars
  BY <1>8 DEF Signal, ManualBuy, SaleExecuted, OrphanReported, SwitchSaved, SyncStep1,
              SyncStep2, SyncFails, MarketOpens, MarketCloses, vars
<1> QED
  BY <1>3, <1>4, <1>5, <1>6, <1>7, <1>8 DEF Next

\* A lost limit is locked by the sale that loses it, and stays locked that day.
LEMMA LossLockedStep ==
    ASSUME ~BrokerReports, TypeOK, LossBooks, LossLocked, [Next]_vars
    PROVE  LossLocked'
<1>1. SUFFICES ASSUME restarts' = 0, filed' <= -LossLimit PROVE risk'.lossCut
  BY DEF LossLocked
<1>2. restarts = 0 /\ LossBooks'
  BY <1>1, LossBooksStep
<1>3. CASE Midnight
  <2>1. filed' = 0 /\ LossLimit \in Int /\ LossLimit > 0
    BY <1>3, ConstantsAssumption DEF Midnight
  <2> QED
    BY <1>1, <2>1
<1>4. CASE Restart
  <2>1. restarts' = restarts + 1
    BY <1>4 DEF Restart
  <2> QED
    BY <1>1, <1>2, <2>1
<1>5. CASE SaleReported
  <2>1. /\ risk \in Risk /\ ledger \in Ledger /\ filed \in Int /\ realized \in Int
        /\ sale.gain \in Results \union {0} /\ sale.closes \in BOOLEAN
    BY DEF TypeOK
  <2>2. sale.gain \in Int
    BY <2>1, GainIsInt
  <2>3. ledger' = Booked(Rolled(ledger), sale.gain)
    BY <1>5 DEF SaleReported
  <2>4. Rolled(ledger) \in Ledger /\ Rolled(ledger).rolled
    BY <2>1, RolledLedger, LedgerOperators
  <2>5. ledger'.rolled
    BY <2>2, <2>3, <2>4, BookedLedger
  <2>6. ledger'.pnl = filed'
    BY <1>1, <1>2, <2>5 DEF LossBooks, Kept
  <2>7. filed' \in Int
    BY BooksStayTyped
  <2> DEFINE s == Counted(risk, sale.gain, sale.closes)
  <2>8. PICK fell \in BOOLEAN : risk' = Checked(s, ledger'.pnl, fell)
    BY <1>5 DEF SaleReported
  <2>9. s \in Risk
    BY <2>1, <2>2, CountedLocks
  <2> HIDE DEF s
  <2> QED
    BY <1>1, <2>6, <2>7, <2>8, <2>9, CheckedLocks
<1>6. CASE ~Midnight /\ ~Restart /\ ~SaleReported
  <2>1. filed' = filed
    BY <1>6 DEF Next, Signal, ManualBuy, BuyFilled, SaleExecuted, OrphanReported, Tick,
                LimitsChecked, CooloffTimer, CooloffPasses, UnlockManually, SwitchSaved,
                SyncStep1, SyncStep2, SyncFails, MarketOpens, MarketCloses, Relock,
                books, vars
  <2>2. risk.lossCut
    BY <1>1, <1>2, <2>1 DEF LossLocked
  <2> QED
    BY <1>6, <2>2, LossLockKept
<1> QED
  BY <1>3, <1>4, <1>5, <1>6

\* Until the program is restarted no signal enters once the sales booked today
\* have lost the limit, be it fresh or replayed by a sale (check of RiskManager,
\* the gate of OrderManager.handle_signal and _handle_sell_fill).
THEOREM LossLimitKept ==
    ASSUME ~BrokerReports
    PROVE  Spec => LossLimitStopsEntries
<1>1. Init => LossBooks /\ LossLocked
  <2> SUFFICES ASSUME Init PROVE LossBooks /\ LossLocked
    OBVIOUS
  <2>1. LossBooks
    BY DEF Init, EmptyLedger, LossBooks, Kept
  <2>2. ~(filed <= -LossLimit)
    BY ConstantsAssumption DEF Init
  <2> QED
    BY <2>1, <2>2 DEF LossLocked
<1>2. TypeOK /\ LossBooks /\ LossLocked /\ [Next]_vars => LossBooks' /\ LossLocked'
  BY LossBooksStep, LossLockedStep
<1>3. TypeOK /\ LossLocked /\ [Next]_vars
        => [entered' # entered /\ restarts = 0 => filed > -LossLimit]_vars
  <2> SUFFICES ASSUME TypeOK, LossLocked, Next, entered' # entered, restarts = 0
               PROVE  filed > -LossLimit
    BY DEF vars
  <2>1. ~risk.lossCut
    BY DEF Next, Signal, ManualBuy, BuyFilled, SaleExecuted, OrphanReported,
           SaleReported, Replay, MayEnter, Tick, LimitsChecked, CooloffTimer, CooloffPasses,
           UnlockManually, SwitchSaved, SyncStep1, SyncStep2, SyncFails, MarketOpens,
           MarketCloses, Midnight, Restart, Relock, counts
  <2>2. filed \in Int /\ LossLimit \in Int
    BY ConstantsAssumption DEF TypeOK
  <2> QED
    BY <2>1, <2>2 DEF LossLocked
<1> QED
  BY <1>1, <1>2, <1>3, TypeCorrect, PTL DEF Spec, LossLimitStopsEntries
=============================================================================
