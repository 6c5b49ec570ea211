---------------------------- MODULE Feed_proofs ----------------------------
(***************************************************************************)
(* Proofs about the two ends of the price feed: the connection it comes    *)
(* over (Connection) and what the scanner makes of it (MarketData).  The   *)
(* first half holds for every set of accounts, every answer of the broker  *)
(* and every bound on the attempts; the second for every set of ticks,     *)
(* charts and order books, every length of the histories and every period  *)
(* of the indicators.                                                      *)
(***************************************************************************)
EXTENDS Connection, MarketData, SequenceTheorems, FiniteSetTheorems,
        WellFoundedInduction, TLAPS

-----------------------------------------------------------------------------
(* The connection *)

\* The watchdog's login is the innermost one and there is one at most; it runs
\* only while the connection is known to be lost and no retry is due.
OneInside ==
    /\ \A i \in DOMAIN logins :
          logins[i].by = "watchdog" => i = Len(logins) /\ lost /\ ~retryOn
    /\ Len(logins) = 2 => logins[2].by = "watchdog"

\* While the innermost login waits in a dialog no event loop is known.
DialogAlone == logins # <<>> /\ Innermost.at \in Dialogs => loop = 0

RetryLeft == retryOn => lost /\ retries < MaxRetry

ConnectionInv == WatchdogAwake /\ OneInside /\ DialogAlone /\ RetryLeft

\* What the steps of a login leave alone in kind.
OthersTyped ==
    /\ connected' \in BOOLEAN /\ err' \in {"none", "ok", "failed"}
    /\ gwAccount' \in Accounts \cup {None} /\ account' \in Accounts \cup {None}
    /\ saved' \in Accounts \cup {None} /\ realAsked' \in BOOLEAN
    /\ owed' \in Nat /\ drops' \in 0..MaxDrops

\* At most two logins, and with the watchdog's none but the user's around it.
LEMMA FewLogins ==
    ASSUME ConnectionTypeOK, OneInside
    PROVE  /\ Len(logins) \in 0..2 /\ DOMAIN logins = 1..Len(logins)
           /\ logins # <<>> => Len(logins) \in 1..2 /\ Innermost \in Logins
           /\ (\A i \in DOMAIN logins : logins[i].by # "watchdog") => Len(logins) <= 1
  <1>1. logins \in Seq(Logins) /\ Len(logins) <= 2
    BY DEF ConnectionTypeOK
  <1>0. Len(logins) \in Nat /\ DOMAIN logins = 1..Len(logins)
    BY ONLY <1>1, LenProperties
  <1>2. Len(logins) \in 0..2 /\ DOMAIN logins = 1..Len(logins)
    BY ONLY <1>0, <1>1
  <1>3. logins # <<>> => Len(logins) # 0
    BY <1>1, EmptySeq
  <1>4. Len(logins) = 2 => logins[2].by = "watchdog"
    BY DEF OneInside
  <1>5. \A i \in 1..Len(logins) : logins[i] \in Logins
    BY <1>1, ElementOfSeq
  <1> QED
    BY <1>2, <1>3, <1>4, <1>5 DEF Innermost

-----------------------------------------------------------------------------
\* The invariant holds when the window opens.
LEMMA ConnectionStarts == ConnectionInit => ConnectionInv
  <1> SUFFICES ASSUME ConnectionInit PROVE ConnectionInv
    OBVIOUS
  <1> USE ConnectionAssumption DEF ConnectionInit
  <1>1. PICK login \in Logins : logins = <<login>> /\ login.by # "watchdog"
                                /\ login.at \in {"loop", "server"}
    BY DEF Logins, Login, Dialogs
  <1>2. /\ logins \in Seq(Logins) /\ Len(logins) = 1 /\ DOMAIN logins = {1}
        /\ logins[1] = login
    BY <1>1
  <1>3. loop \in 0..1 /\ owed \in Nat /\ (login.at = "server" => loop = 0)
    BY <1>2
  <1>4. ConnectionTypeOK
    <2>1. retries \in 0..MaxRetry /\ drops \in 0..MaxDrops
      OBVIOUS
    <2>2. account \in Accounts \cup {None} /\ saved \in Accounts \cup {None}
          /\ gwAccount \in Accounts \cup {None} /\ realAsked \in BOOLEAN
      OBVIOUS
    <2>3. /\ connected \in BOOLEAN /\ lost \in BOOLEAN /\ checkOn \in BOOLEAN
          /\ retryOn \in BOOLEAN /\ err \in {"none", "ok", "failed"}
      OBVIOUS
    <2> QED
      BY ONLY <1>2, <1>3, <2>1, <2>2, <2>3 DEF ConnectionTypeOK
  <1>5. WatchdogAwake
    BY <1>4 DEF WatchdogAwake
  <1>6. OneInside /\ RetryLeft
    BY <1>1, <1>2 DEF OneInside, RetryLeft
  <1>7. DialogAlone
    BY <1>1, <1>2, <1>3 DEF DialogAlone, Innermost, Dialogs
  <1> QED
    BY <1>5, <1>6, <1>7 DEF ConnectionInv

\* The logins are as they were but for where one of them is.
LEMMA LoginsMarked ==
    ASSUME ConnectionInv, NEW k \in DOMAIN logins,
           logins' = [logins EXCEPT ![k].at = "over"]
    PROVE  /\ logins' \in Seq(Logins) /\ Len(logins') = Len(logins)
           /\ DOMAIN logins' = DOMAIN logins
           /\ \A i \in DOMAIN logins : logins'[i].by = logins[i].by
           /\ Innermost'.at \in Dialogs => logins # <<>> /\ Innermost.at \in Dialogs
  <1>1. ConnectionTypeOK /\ OneInside
    BY DEF ConnectionInv, WatchdogAwake
  <1>2. logins \in Seq(Logins) /\ logins[k] \in Logins
    BY <1>1 DEF ConnectionTypeOK
  <1>3. [logins[k] EXCEPT !.at = "over"] \in Logins
        /\ [logins[k] EXCEPT !.at = "over"].by = logins[k].by
        /\ [logins[k] EXCEPT !.at = "over"].at = "over"
    BY <1>2 DEF Logins
  <1>4. /\ logins' \in Seq(Logins) /\ Len(logins') = Len(logins)
        /\ DOMAIN logins' = DOMAIN logins
        /\ \A i \in DOMAIN logins : logins'[i] =
              IF i = k THEN [logins[k] EXCEPT !.at = "over"] ELSE logins[i]
    BY <1>2, <1>3
  <1>5. Len(logins) \in DOMAIN logins /\ logins # <<>>
    BY <1>1, <1>2, FewLogins
  <1> QED
    BY <1>3, <1>4, <1>5 DEF Innermost, Dialogs

\* What an event of the connection leaves.
LEMMA NotifiedInv ==
    ASSUME ConnectionInv, NEW result \in {"ok", "failed"}, Notified(result),
           owed' \in Nat, drops' \in 0..MaxDrops
    PROVE  ConnectionInv'
  <1> USE DEF Notified, watchdogVars
  <1>1. ConnectionTypeOK /\ OneInside /\ RetryLeft /\ DialogAlone
    BY DEF ConnectionInv, WatchdogAwake
  <1>2. /\ logins' \in Seq(Logins) /\ Len(logins') = Len(logins)
        /\ DOMAIN logins' = DOMAIN logins
        /\ \A i \in DOMAIN logins : logins'[i].by = logins[i].by
        /\ DialogAlone'
    <2>1. CASE loop = 0
      BY <1>1, <2>1 DEF ConnectionTypeOK, DialogAlone
    <2>2. CASE loop # 0
      <3>1. loop \in DOMAIN logins /\ logins' = [logins EXCEPT ![loop].at = "over"]
        BY <1>1, <2>2 DEF ConnectionTypeOK
      <3> QED
        BY <1>1, <3>1, LoginsMarked DEF DialogAlone
    <2> QED
      BY <2>1, <2>2
  <1>3. gwAccount' \in Accounts \cup {None}
    <2> PICK list \in Lists :
            gwAccount' = IF result = "ok" /\ list # <<>> THEN Head(list) ELSE gwAccount
      OBVIOUS
    <2>1. list \in Seq(Accounts)
      BY ConnectionAssumption
    <2> QED
      BY <1>1, <2>1 DEF ConnectionTypeOK
  <1>4. ConnectionTypeOK'
    BY <1>1, <1>2, <1>3 DEF ConnectionTypeOK
  <1>5. OneInside' /\ RetryLeft'
    BY <1>1, <1>2 DEF OneInside, RetryLeft
  <1>6. WatchdogAwake'
    BY <1>2, <1>4 DEF ConnectionInv, WatchdogAwake
  <1> QED
    BY <1>2, <1>5, <1>6 DEF ConnectionInv

\* The innermost login goes on elsewhere, on behalf of the same side.
LEMMA LoginGoesOn ==
    ASSUME ConnectionInv, logins # <<>>, NEW login \in Logins, Becomes(login),
           login.by = "watchdog" <=> Innermost.by = "watchdog",
           OthersTyped, UNCHANGED watchdogVars, loop' \in 0..Len(logins),
           login.at \in Dialogs => loop' = 0
    PROVE  ConnectionInv'
  <1>1. ConnectionTypeOK /\ OneInside /\ RetryLeft
    BY DEF ConnectionInv, WatchdogAwake
  <1>2. Len(logins) \in DOMAIN logins
    BY <1>1, FewLogins
  <1>3. /\ logins' \in Seq(Logins) /\ Len(logins') = Len(logins)
        /\ DOMAIN logins' = DOMAIN logins /\ logins'[Len(logins)] = login
        /\ \A i \in DOMAIN logins : i # Len(logins) => logins'[i] = logins[i]
    BY <1>1, <1>2 DEF Becomes, ConnectionTypeOK
  <1>4. \A i \in DOMAIN logins : logins'[i].by = "watchdog" <=> logins[i].by = "watchdog"
    BY <1>3 DEF Innermost
  <1>5. ConnectionTypeOK'
    BY <1>1, <1>3 DEF ConnectionTypeOK, OthersTyped, watchdogVars
  <1>6. OneInside' /\ RetryLeft'
    <2>1. Len(logins) = 2 => 2 \in DOMAIN logins
      BY <1>2
    <2> QED
      BY <1>1, <1>3, <1>4, <2>1 DEF OneInside, RetryLeft, watchdogVars
  <1>7. DialogAlone'
    BY <1>3 DEF DialogAlone, Innermost
  <1>8. WatchdogAwake'
    BY <1>3, <1>4, <1>5 DEF ConnectionInv, WatchdogAwake, watchdogVars
  <1> QED
    BY <1>6, <1>7, <1>8 DEF ConnectionInv

\* The innermost login returns: what remains is at most a login of the user's.
LEMMA Popped ==
    ASSUME ConnectionInv, logins # <<>>, Returns
    PROVE  /\ logins' \in Seq(Logins) /\ Len(logins') = Len(logins) - 1
           /\ Len(logins') <= 1 /\ Len(logins) \in 1..2
           /\ \A i \in DOMAIN logins' : logins'[i].by # "watchdog"
  <1>1. ConnectionTypeOK /\ OneInside
    BY DEF ConnectionInv, WatchdogAwake
  <1>2. Len(logins) \in 1..2
    BY <1>1, FewLogins
  <1>3. CASE Len(logins) = 1
    BY <1>1, <1>3 DEF Returns, ConnectionTypeOK
  <1>4. CASE Len(logins) = 2
    <2>1. Len(logins') = 1 /\ logins'[1] = logins[1] /\ DOMAIN logins' = {1}
          /\ logins' \in Seq(Logins)
      BY <1>1, <1>4 DEF Returns, ConnectionTypeOK
    <2>2. logins[1].by # "watchdog"
      BY <1>1, <1>4 DEF OneInside, ConnectionTypeOK
    <2> QED
      BY <1>4, <2>1, <2>2
  <1> QED
    BY <1>2, <1>3, <1>4

\* What the watchdog makes of its login when that returns.
Reacts ==
    IF ByWatchdog THEN Recovered \/ (_schedule_retry /\ UNCHANGED <<lost, retries, checkOn>>)
    ELSE UNCHANGED watchdogVars

\* A login that returns leaves the watchdog with a timer, or done.
LEMMA LoginReturns ==
    ASSUME ConnectionInv, logins # <<>>, Returns, OthersTyped, loop' = 0, Reacts
    PROVE  ConnectionInv'
  <1>1. ConnectionTypeOK /\ OneInside /\ RetryLeft /\ WatchdogAwake
    BY DEF ConnectionInv, WatchdogAwake
  <1>2. /\ logins' \in Seq(Logins) /\ Len(logins') <= 1 /\ Len(logins) \in 1..2
        /\ \A i \in DOMAIN logins' : logins'[i].by # "watchdog"
    BY Popped
  <1>3. Len(logins') \in Nat /\ 0 \in 0..Len(logins')
    BY <1>2, LenProperties
  <1>4. OneInside' /\ DialogAlone'
    BY <1>2, <1>3 DEF OneInside, DialogAlone
  <1>5. Len(logins) \in DOMAIN logins
    BY <1>1, <1>2 DEF ConnectionTypeOK
  <1>6. ASSUME retries' \in 0..MaxRetry, lost' \in BOOLEAN, checkOn' \in BOOLEAN,
               retryOn' \in BOOLEAN
        PROVE  ConnectionTypeOK'
    BY <1>2, <1>3, <1>6 DEF ConnectionTypeOK, OthersTyped
  <1>7. retries \in 0..MaxRetry /\ 0 \in 0..MaxRetry /\ lost \in BOOLEAN
        /\ checkOn \in BOOLEAN /\ retryOn \in BOOLEAN
    BY <1>1, ConnectionAssumption DEF ConnectionTypeOK
  <1>8. CASE ~ByWatchdog
    <2>1. \A i \in DOMAIN logins : logins[i].by # "watchdog"
      BY <1>1, <1>8 DEF OneInside, ByWatchdog, Innermost
    <2>2. UNCHANGED <<lost, retries, checkOn, retryOn>>
      BY <1>8 DEF Reacts, watchdogVars
    <2>3. ConnectionTypeOK'
      BY <1>6, <1>7, <2>2
    <2> QED
      BY <1>1, <1>4, <2>1, <2>2, <2>3 DEF ConnectionInv, WatchdogAwake, RetryLeft
  <1>9. CASE ByWatchdog /\ Recovered
    <2>1. ~retryOn
      BY <1>1, <1>5, <1>9 DEF OneInside, ByWatchdog, Innermost
    <2>2. lost' = FALSE /\ retries' = 0 /\ checkOn' = TRUE /\ ~retryOn' /\ retryOn' = retryOn
      BY <1>9, <2>1 DEF Recovered, start
    <2>3. ConnectionTypeOK'
      BY <1>6, <1>7, <2>2
    <2> QED
      BY <1>4, <2>2, <2>3 DEF ConnectionInv, WatchdogAwake, RetryLeft
  <1>10. CASE ByWatchdog /\ _schedule_retry /\ UNCHANGED <<lost, retries, checkOn>>
    <2>1. lost /\ ~checkOn
      BY <1>1, <1>5, <1>10 DEF OneInside, ByWatchdog, Innermost, WatchdogAwake
    <2>2. retryOn' = (retries < MaxRetry)
      BY <1>10 DEF _schedule_retry
    <2>3. retryOn' \in BOOLEAN
      BY <2>2
    <2>4. ConnectionTypeOK'
      BY <1>6, <1>7, <1>10, <2>3
    <2>5. retryOn' \/ retries' = MaxRetry
      <3>1. retries < MaxRetry \/ retries = MaxRetry
        BY <1>7, ConnectionAssumption
      <3>2. retries < MaxRetry => retryOn'
        BY <2>2, Zenon
      <3> QED
        BY <1>10, <3>1, <3>2
    <2>6. WatchdogAwake'
      BY <1>10, <2>1, <2>4, <2>5 DEF WatchdogAwake
    <2>7. RetryLeft'
      <3>1. retryOn' => retries < MaxRetry
        BY <2>2, Zenon
      <3> QED
        BY <1>10, <2>1, <3>1 DEF RetryLeft
    <2> QED
      BY <1>4, <2>6, <2>7 DEF ConnectionInv
  <1> QED
    BY <1>8, <1>9, <1>10 DEF Reacts

\* Once the account is settled the login returns, or warns the user first.
LEMMA SettledInv ==
    ASSUME ConnectionInv, logins # <<>>, NEW a \in Accounts, Settled(a), loop' = 0,
           gwAccount' \in Accounts \cup {None} => OthersTyped
    PROVE  ConnectionInv'
  <1>1. ConnectionTypeOK /\ OneInside
    BY DEF ConnectionInv, WatchdogAwake
  <1>2. CASE Succeeds(a)
    <2>1. Returns /\ OthersTyped
      BY <1>2 DEF Succeeds
    <2>2. Reacts
      BY <1>2 DEF Succeeds, Reacts
    <2> QED
      BY <2>1, <2>2, LoginReturns
  <1>3. CASE Reaches("warning") /\ UNCHANGED <<gwAccount, watchdogVars>>
    <2> DEFINE login == [Innermost EXCEPT !.at = "warning"]
    <2>1. Innermost \in Logins
      BY <1>1, FewLogins
    <2>2. login \in Logins /\ login.by = Innermost.by
      BY <2>1 DEF Logins, Dialogs
    <2>3. Becomes(login)
      BY <1>3 DEF Reaches
    <2>4. OthersTyped
      BY <1>1, <1>3 DEF ConnectionTypeOK
    <2>5. loop' \in 0..Len(logins)
      BY <1>1, FewLogins
    <2> HIDE DEF login
    <2> QED
      BY <1>3, <2>2, <2>3, <2>4, <2>5, LoginGoesOn
  <1> QED
    BY <1>2, <1>3 DEF Settled

-----------------------------------------------------------------------------
\* Every step of the connection keeps it, one case per action.
LEMMA ConnectionKeeps == ConnectionInv /\ [ConnectionNext]_connectionVars => ConnectionInv'
  <1> SUFFICES ASSUME ConnectionInv, [ConnectionNext]_connectionVars PROVE ConnectionInv'
    OBVIOUS
  <1> USE ConnectionAssumption
  <1>t. ConnectionTypeOK /\ OneInside /\ DialogAlone /\ RetryLeft /\ WatchdogAwake
    BY DEF ConnectionInv, WatchdogAwake
  <1>1. CASE Answer
    <2>1. PICK result \in {"ok", "failed"} : Notified(result)
      BY <1>1 DEF Answer
    <2>2. owed' \in Nat /\ drops' \in 0..MaxDrops
      BY <1>1, <1>t DEF Answer, ConnectionTypeOK
    <2> QED
      BY <2>1, <2>2, NotifiedInv
  <1>2. CASE Drop
    <2>1. owed' \in Nat /\ drops' \in 0..MaxDrops
      BY <1>2, <1>t DEF Drop, ConnectionTypeOK
    <2> QED
      BY <1>2, <2>1, NotifiedInv DEF Drop
  <1>3. ASSUME NEW i \in 1..2, LoginTimeout(i) PROVE ConnectionInv'
    <2> USE <1>3 DEF LoginTimeout, accountVars, watchdogVars
    <2>1. i \in DOMAIN logins
      OBVIOUS
    <2>3. /\ logins' \in Seq(Logins) /\ Len(logins') = Len(logins)
          /\ DOMAIN logins' = DOMAIN logins
          /\ \A k \in DOMAIN logins : logins'[k].by = logins[k].by
      BY <2>1, LoginsMarked
    <2>4. Innermost'.at \in Dialogs => logins # <<>> /\ Innermost.at \in Dialogs
      BY <2>1, LoginsMarked
    <2>5. ConnectionTypeOK'
      BY <1>t, <2>3 DEF ConnectionTypeOK
    <2>6. DialogAlone'
      BY <1>t, <2>4 DEF DialogAlone
    <2> QED
      BY <1>t, <2>3, <2>5, <2>6 DEF ConnectionInv, WatchdogAwake, OneInside, RetryLeft
  <1>4. CASE LoggedIn
    <2>1. logins # <<>> /\ loop' = 0 /\ UNCHANGED <<connected, realAsked, err, owed, drops>>
      BY <1>4 DEF LoggedIn, At
    <2>2. /\ saved \in Accounts \cup {None} /\ Accounts \subseteq Accounts \cup {None}
          /\ connected \in BOOLEAN /\ err \in {"none", "ok", "failed"} /\ realAsked \in BOOLEAN
          /\ owed \in Nat /\ drops \in 0..MaxDrops
          /\ account \in Accounts \cup {None} /\ gwAccount \in Accounts \cup {None}
      BY <1>t DEF ConnectionTypeOK
    <2>3. ASSUME NEW a \in Accounts, Settled(a), saved' \in Accounts \cup {None}
          PROVE  ConnectionInv'
      <3>1. account' = a
        BY <2>3 DEF Settled
      <3>2. gwAccount' \in Accounts \cup {None} => OthersTyped
        BY <2>1, <2>2, <2>3, <3>1 DEF OthersTyped
      <3> QED
        BY <2>1, <2>3, <3>2, SettledInv
    <2>4. PICK list \in Lists \ {<<>>} :
              LET accounts == {list[k] : k \in DOMAIN list} IN
              \/ Len(list) = 1 /\ Settled(list[1]) /\ saved' = list[1]
              \/ /\ Len(list) > 1 /\ UNCHANGED saved
                 /\ \/ \E a \in Found(accounts) : Settled(a)
                    \/ /\ Found(accounts) = {} /\ Reaches("account")
                       /\ UNCHANGED <<account, gwAccount, watchdogVars>>
      BY <1>4 DEF LoggedIn
    <2> DEFINE accounts == {list[k] : k \in DOMAIN list}
    <2>5. list \in Seq(Accounts)
      OBVIOUS
    <2>6. accounts \subseteq Accounts
      BY <2>5
    <2>7. CASE Len(list) = 1 /\ Settled(list[1]) /\ saved' = list[1]
      <3>1. list[1] \in Accounts
        BY <2>5, <2>7
      <3> QED
        BY <2>3, <2>7, <3>1
    <2>8. CASE UNCHANGED saved /\ \E a \in Found(accounts) : Settled(a)
      <3>1. PICK a \in Found(accounts) : Settled(a)
        BY <2>8
      <3> HIDE DEF accounts
      <3>2. a \in Accounts
        BY <2>6, <3>1 DEF Found
      <3> QED
        BY <2>2, <2>3, <2>8, <3>1, <3>2
    <2>9. CASE Reaches("account") /\ UNCHANGED <<saved, account, gwAccount, watchdogVars>>
      <3> DEFINE login == [Innermost EXCEPT !.at = "account"]
      <3>1. Innermost \in Logins
        BY <1>t, <2>1, FewLogins
      <3>2. login \in Logins /\ login.by = Innermost.by
        BY <3>1 DEF Logins, Dialogs
      <3>3. Becomes(login)
        BY <2>9 DEF Reaches
      <3>4. OthersTyped
        BY <2>1, <2>2, <2>9 DEF OthersTyped
      <3>5. loop' \in 0..Len(logins)
        BY <1>t, <2>1, FewLogins
      <3> HIDE DEF login
      <3> QED
        BY <2>1, <2>9, <3>2, <3>3, <3>4, <3>5, LoginGoesOn
    <2> QED
      BY <2>4, <2>7, <2>8, <2>9
  <1>5. CASE UserFailed
    <2>1. /\ logins # <<>> /\ loop' = 0 /\ ~ByWatchdog /\ UNCHANGED watchdogVars
          /\ UNCHANGED <<connected, gwAccount, account, realAsked, err, owed, drops>>
      BY <1>5 DEF UserFailed, NotLoggedIn, At
    <2>2. OthersTyped
      BY <1>5, <1>t, <2>1 DEF UserFailed, ConnectionTypeOK, OthersTyped
    <2>3. CASE Returns
      BY <2>1, <2>2, <2>3, LoginReturns DEF Reacts
    <2>4. CASE Becomes(Login("user", None, "server"))
      <3>1. Login("user", None, "server") \in Logins /\ Login("user", None, "server").by = "user"
        BY DEF Login, Logins, Dialogs
      <3>2. loop' \in 0..Len(logins)
        BY <1>t, <2>1, FewLogins
      <3> QED
        BY <2>1, <2>2, <2>4, <3>1, <3>2, LoginGoesOn DEF ByWatchdog
    <2> QED
      BY <1>5, <2>3, <2>4 DEF UserFailed
  <1>6. CASE _on_check
    <2> USE <1>6 DEF _on_check, accountVars, loginVars
    <2>1. ConnectionTypeOK'
      <3>1. 0 \in 0..MaxRetry
        OBVIOUS
      <3> QED
        BY <1>t, <3>1 DEF ConnectionTypeOK
    <2>2. \A i \in DOMAIN logins : logins[i].by # "watchdog"
      BY <1>t DEF OneInside
    <2>3. DialogAlone'
      BY <1>t DEF DialogAlone, Innermost
    <2> QED
      BY <1>t, <2>1, <2>2, <2>3 DEF ConnectionInv, WatchdogAwake, OneInside, RetryLeft
  <1>7. CASE _on_retry
    <2> USE <1>7 DEF _on_retry, Asks, accountVars
    <2> DEFINE own == Login("watchdog", account, "loop")
    <2>1. own \in Logins /\ own.by = "watchdog" /\ own.at = "loop"
      BY <1>t DEF ConnectionTypeOK, Logins, Login
    <2>2. logins' = Append(logins, own)
      OBVIOUS
    <2> HIDE DEF own
    <2>3. Len(logins) <= 1 /\ \A i \in DOMAIN logins : logins[i].by # "watchdog"
      <3>1. \A i \in DOMAIN logins : logins[i].by # "watchdog"
        BY <1>t DEF OneInside
      <3> QED
        BY <1>t, <3>1, FewLogins
    <2>4. /\ logins' \in Seq(Logins) /\ Len(logins') = Len(logins) + 1
          /\ logins'[Len(logins) + 1] = own
          /\ \A i \in DOMAIN logins : logins'[i] = logins[i]
      BY <1>t, <2>1, <2>2 DEF ConnectionTypeOK
    <2>5. ConnectionTypeOK'
      <3>1. retries' \in 0..MaxRetry
        BY <1>t DEF RetryLeft, ConnectionTypeOK
      <3>2. loop' \in 0..Len(logins') /\ owed' \in Nat /\ Len(logins') <= 2
        BY <1>t, <2>3, <2>4 DEF ConnectionTypeOK
      <3> QED
        BY <1>t, <2>4, <3>1, <3>2 DEF ConnectionTypeOK
    <2>6. OneInside'
      BY <1>t, <2>1, <2>3, <2>4 DEF OneInside, RetryLeft, ConnectionTypeOK
    <2>7. WatchdogAwake'
      BY <1>t, <2>1, <2>4, <2>5 DEF WatchdogAwake, RetryLeft, ConnectionTypeOK
    <2>8. DialogAlone'
      BY <2>1, <2>4 DEF DialogAlone, Innermost, Dialogs
    <2> QED
      BY <2>6, <2>7, <2>8 DEF ConnectionInv, RetryLeft
  <1>8. CASE RetryFailed
    <2>1. /\ logins # <<>> /\ Returns /\ loop' = 0 /\ UNCHANGED saved
          /\ UNCHANGED <<connected, gwAccount, account, realAsked, err, owed, drops>>
      BY <1>8 DEF RetryFailed, NotLoggedIn, At
    <2>2. OthersTyped
      BY <1>t, <2>1 DEF ConnectionTypeOK, OthersTyped
    <2>3. Reacts
      BY <1>8 DEF RetryFailed, Reacts
    <2> QED
      BY <2>1, <2>2, <2>3, LoginReturns
  <1>9. CASE AccountSelected
    <2>1. PICK a \in Accounts : Settled(a) /\ saved' = a
      BY <1>9 DEF AccountSelected
    <2>2. logins # <<>> /\ UNCHANGED <<connected, realAsked, loop, err, owed, drops>>
      BY <1>9 DEF AccountSelected, At
    <2>3. loop' = 0
      BY <1>9, <1>t, <2>2 DEF AccountSelected, At, DialogAlone, Dialogs
    <2>4. account' = a
      BY <2>1 DEF Settled
    <2>5. gwAccount' \in Accounts \cup {None} => OthersTyped
      BY <1>t, <2>1, <2>2, <2>4 DEF OthersTyped, ConnectionTypeOK
    <2> QED
      BY <2>1, <2>2, <2>3, <2>5, SettledInv
  <1>10. CASE WarningClosed
    <2>1. /\ logins # <<>> /\ Succeeds(account)
          /\ UNCHANGED <<connected, account, saved, realAsked, loop, err, owed, drops>>
      BY <1>10 DEF WarningClosed, At
    <2>2. loop' = 0
      BY <1>10, <1>t, <2>1 DEF WarningClosed, At, DialogAlone, Dialogs
    <2>3. OthersTyped
      BY <1>t, <2>1 DEF OthersTyped, ConnectionTypeOK, Succeeds
    <2> QED
      BY <2>1, <2>2, <2>3, LoginReturns DEF Succeeds, Reacts
  <1>11. CASE ServerChosen
    <2> DEFINE login == [Innermost EXCEPT !.at = "loop"]
    <2>1. /\ logins # <<>> /\ loop' = Len(logins) /\ UNCHANGED watchdogVars
          /\ Becomes(login)
      BY <1>11 DEF ServerChosen, At, Reaches
    <2>2. Innermost \in Logins /\ Len(logins) \in 1..2
      BY <1>t, <2>1, FewLogins
    <2>3. login \in Logins /\ login.by = Innermost.by /\ login.at = "loop"
      BY <2>2 DEF Logins
    <2>4. OthersTyped
      BY <1>11, <1>t DEF ServerChosen, Asks, OthersTyped, ConnectionTypeOK
    <2> HIDE DEF login
    <2>5. loop' \in 0..Len(logins) /\ login.at \notin Dialogs
      BY <2>1, <2>2, <2>3 DEF Dialogs
    <2> QED
      BY <2>1, <2>3, <2>4, <2>5, LoginGoesOn
  <1>12. CASE LoginCancelled
    <2>1. /\ logins # <<>> /\ Returns /\ UNCHANGED <<loop, watchdogVars>>
          /\ UNCHANGED <<connected, accountVars, err, owed, drops>> /\ Innermost.at = "server"
      BY <1>12 DEF LoginCancelled, At
    <2>2. loop' = 0
      BY <1>t, <2>1 DEF DialogAlone, Dialogs
    <2>3. OthersTyped
      BY <1>t, <2>1 DEF OthersTyped, ConnectionTypeOK, accountVars
    <2>4. ~ByWatchdog
      BY <1>t, <2>1, FewLogins DEF ByWatchdog, Logins
    <2> QED
      BY <2>1, <2>2, <2>3, <2>4, LoginReturns DEF Reacts
  <1>13. CASE UNCHANGED connectionVars
    <2>1. ConnectionTypeOK'
      BY <1>t, <1>13 DEF ConnectionTypeOK, connectionVars, accountVars, loginVars, watchdogVars
    <2>2. DialogAlone'
      BY <1>t, <1>13 DEF DialogAlone, Innermost, connectionVars, loginVars
    <2> QED
      BY <1>t, <1>13, <2>1, <2>2 DEF ConnectionInv, WatchdogAwake, OneInside, RetryLeft,
          connectionVars, loginVars, watchdogVars
  <1> QED
    BY <1>1, <1>2, <1>3, <1>4, <1>5, <1>6, <1>7, <1>8, <1>9, <1>10, <1>11, <1>12, <1>13
    DEF ConnectionNext, LoopEnds, DialogCloses

\* The invariant holds throughout.
LEMMA ConnectionInvariant == ConnectionSpec => []ConnectionInv
  BY ConnectionStarts, ConnectionKeeps, PTL DEF ConnectionSpec

\* While the connection is known to be lost an attempt is due, under way, or all
\* are used up; otherwise the check timer runs (connection_watchdog.py 98-145).
THEOREM NeverAsleep == ConnectionSpec => []WatchdogAwake
  <1>1. ConnectionInv => WatchdogAwake
    BY DEF ConnectionInv
  <1> QED
    BY <1>1, ConnectionInvariant, PTL

-----------------------------------------------------------------------------
\* Every step of the connection is one of Link, or changes nothing of it.
LEMMA StepLinks ==
    ConnectionInv /\ [ConnectionNext]_connectionVars => [Announced!LinkNext]_<<connected, lost>>
  <1> SUFFICES ASSUME ConnectionInv, [ConnectionNext]_connectionVars
               PROVE  Announced!LinkNext \/ UNCHANGED <<connected, lost>>
    BY DEF Announced!linkVars
  <1> USE DEF Announced!LinkNext, Announced!Breaks, Announced!ComesUp,
              Announced!Noticed, Announced!Recovers
  <1>t. connected \in BOOLEAN /\ lost \in BOOLEAN /\ ConnectionTypeOK /\ OneInside
    BY DEF ConnectionInv, WatchdogAwake, ConnectionTypeOK
  <1>1. CASE Answer \/ Drop
    BY <1>1, <1>t DEF Answer, Drop, Notified, watchdogVars
  <1>2. CASE \E i \in 1..2 : LoginTimeout(i)
    BY <1>2 DEF LoginTimeout, watchdogVars
  <1>3. ASSUME logins # <<>>, NEW a, Succeeds(a)
        PROVE  UNCHANGED lost \/ (lost /\ lost' = FALSE)
    <2>1. Len(logins) \in DOMAIN logins
      BY <1>t, <1>3, FewLogins
    <2>2. ByWatchdog => lost
      BY <1>t, <2>1 DEF OneInside, ByWatchdog, Innermost
    <2> QED
      BY <1>3, <2>2 DEF Succeeds, Recovered, watchdogVars
  <1>4. ASSUME logins # <<>>, NEW a, Settled(a)
        PROVE  UNCHANGED lost \/ (lost /\ lost' = FALSE)
    BY <1>3, <1>4 DEF Settled, watchdogVars
  <1>5. CASE LoggedIn
    <2>1. logins # <<>> /\ UNCHANGED connected
      BY <1>5 DEF LoggedIn, At
    <2>2. UNCHANGED lost \/ \E a : Settled(a)
      BY <1>5 DEF LoggedIn, watchdogVars
    <2> QED
      BY <1>4, <2>1, <2>2
  <1>6. CASE AccountSelected \/ WarningClosed
    BY <1>3, <1>4, <1>6 DEF AccountSelected, WarningClosed, At
  <1>7. CASE UserFailed \/ RetryFailed
    BY <1>7 DEF UserFailed, RetryFailed, NotLoggedIn, watchdogVars
  <1>8. CASE ServerChosen \/ LoginCancelled
    BY <1>8 DEF ServerChosen, LoginCancelled, watchdogVars
  <1>9. CASE _on_check \/ _on_retry
    BY <1>9 DEF _on_check, _on_retry
  <1>10. CASE UNCHANGED connectionVars
    BY <1>10 DEF connectionVars, watchdogVars
  <1> QED
    BY <1>1, <1>2, <1>5, <1>6, <1>7, <1>8, <1>9, <1>10
    DEF ConnectionNext, LoopEnds, DialogCloses

\* The connection and its watchdog implement Link, which LiveQuotes composes: a
\* loss is noticed only while the connection is down, and a recovery is
\* announced only after a loss, though perhaps of a connection that broke again
\* under a dialog (login_manager.py 206-347, connection_watchdog.py 98-170).
THEOREM ImplementsLink == ConnectionSpec => IsALink
  <1>1. ConnectionInit => Announced!LinkInit
    BY DEF ConnectionInit, Announced!LinkInit
  <1> QED
    BY <1>1, ConnectionInvariant, StepLinks, PTL
       DEF ConnectionSpec, IsALink, Announced!LinkSpec, Announced!linkVars

-----------------------------------------------------------------------------
(* Sums, lists and least elements, and the score that needs buyers *)

\* Every set of numbers that is not empty has a least one.
LEMMA LeastElement ==
    ASSUME NEW T, T \subseteq Nat, T # {}
    PROVE  \E m \in T : \A n \in T : m <= n
  <1>1. IsWellFoundedOn(OpToRel(<, Nat), Nat)
    BY NatLessThanWellFounded
  <1>2. PICK m \in T : \A n \in T : ~ (<<n, m>> \in OpToRel(<, Nat))
    BY <1>1, WFMin, Zenon
  <1>3. \A n, k \in Nat : n < k => <<n, k>> \in OpToRel(<, Nat)
    BY DEF OpToRel
  <1>4. ASSUME NEW n \in T PROVE m <= n
    <2>1. m \in Nat /\ n \in Nat
      OBVIOUS
    <2>2. ~(n < m)
      BY <1>2, <1>3, <2>1
    <2> QED
      BY <2>1, <2>2
  <1> QED
    BY <1>4

\* Induction up to a bound, for sets.
LEMMA UpTo ==
    ASSUME NEW n \in Nat, NEW S, 0 \in S, \A k \in 0..(n - 1) : k \in S => k + 1 \in S
    PROVE  \A k \in 0..n : k \in S
  <1> DEFINE Bad == {k \in 0..n : k \notin S}
  <1>1. SUFFICES ASSUME Bad # {} PROVE FALSE
    OBVIOUS
  <1>2. Bad \subseteq Nat
    OBVIOUS
  <1>3. PICK m \in Bad : \A k \in Bad : m <= k
    <2> HIDE DEF Bad
    <2> QED
      BY <1>1, <1>2, LeastElement
  <1>4. m \in 0..n /\ m # 0 /\ m \notin S
    OBVIOUS
  <1>5. m - 1 \in 0..(n - 1) /\ m - 1 \in 0..n /\ ~(m <= m - 1) /\ m - 1 + 1 = m
    BY <1>4
  <1>6. m - 1 \notin Bad
    <2> HIDE DEF Bad
    <2> QED
      BY <1>3, <1>5
  <1> QED
    BY <1>4, <1>5, <1>6

\* The sums of the beginnings of a list.
LEMMA SumsExist ==
    ASSUME NEW s \in Seq(Int)
    PROVE  /\ PartialSums(s)[0] = 0
           /\ \A n \in 1..Len(s) : PartialSums(s)[n] = PartialSums(s)[n - 1] + s[n]
  <1> DEFINE Sums(k, f) == f = [n \in 0..k |-> IF n = 0 THEN 0 ELSE f[n - 1] + s[n]]
             S == {k \in 0..Len(s) : \E f : Sums(k, f)}
  <1>a. Len(s) \in Nat
    BY LenProperties
  <1>1. 0 \in S
    <2> DEFINE z == [n \in 0..0 |-> 0]
    <2>1. z = [n \in 0..0 |-> IF n = 0 THEN 0 ELSE z[n - 1] + s[n]]
      OBVIOUS
    <2>2. Sums(0, z)
      BY <2>1
    <2>3. \E f : Sums(0, f)
      BY <2>2
    <2>4. 0 \in 0..Len(s)
      BY <1>a
    <2> HIDE DEF Sums
    <2> QED
      BY <2>3, <2>4
  <1>2. ASSUME NEW m \in 0..(Len(s) - 1), m \in S PROVE m + 1 \in S
    <2> DEFINE k == m + 1
    <2>1. PICK g : Sums(m, g)
      BY <1>2
    <2> DEFINE f == [n \in 0..k |-> IF n = k THEN g[m] + s[k] ELSE g[n]]
    <2>2. \A n \in 0..m : g[n] = IF n = 0 THEN 0 ELSE g[n - 1] + s[n]
      BY <2>1
    <2>3. \A n \in 0..k : f[n] = IF n = 0 THEN 0 ELSE f[n - 1] + s[n]
      BY <2>2, <1>a
    <2>4. f = [n \in 0..k |-> IF n = 0 THEN 0 ELSE f[n - 1] + s[n]]
      BY <2>3
    <2>5. k \in 0..Len(s)
      BY <1>a
    <2> QED
      BY <2>4, <2>5
  <1>3. Len(s) \in S
    <2> HIDE DEF S
    <2>1. \A k \in 0..(Len(s) - 1) : k \in S => k + 1 \in S
      BY <1>2
    <2>2. \A k \in 0..Len(s) : k \in S
      BY <1>1, <1>a, <2>1, UpTo
    <2> QED
      BY <1>a, <2>2
  <1>4. \E f : Sums(Len(s), f)
    BY <1>3
  <1>5. Sums(Len(s), PartialSums(s))
    BY <1>4 DEF PartialSums
  <1> QED
    BY <1>5, <1>a

\* A list of small numbers has a small sum, one of large numbers a large one.
LEMMA TotalBounded ==
    ASSUME NEW s \in Seq(Nat), NEW p \in Nat
    PROVE  /\ Total(s) \in Nat
           /\ (\A i \in 1..Len(s) : s[i] <= p) => Total(s) <= Len(s) * p
           /\ (\A i \in 1..Len(s) : p <= s[i]) => Len(s) * p <= Total(s)
  <1> DEFINE sum == PartialSums(s)
  <1>1. /\ sum[0] = 0
        /\ \A n \in 1..Len(s) : sum[n] = sum[n - 1] + s[n]
    BY SumsExist, SeqMonotonic
  <1>2. Len(s) \in Nat /\ \A i \in 1..Len(s) : s[i] \in Nat
    BY LenProperties, ElementOfSeq
  <1> HIDE DEF sum
  <1> DEFINE S == {k \in 0..Len(s) :
                    /\ sum[k] \in Nat
                    /\ (\A i \in 1..Len(s) : s[i] <= p) => sum[k] <= k * p
                    /\ (\A i \in 1..Len(s) : p <= s[i]) => k * p <= sum[k]}
  <1>3. 0 \in S
    BY <1>1, <1>2
  <1>4. ASSUME NEW k \in 0..(Len(s) - 1), k \in S PROVE k + 1 \in S
    <2>1. k + 1 \in 1..Len(s) /\ k + 1 \in 0..Len(s) /\ k + 1 - 1 = k
      BY <1>2
    <2>2. sum[k + 1] = sum[k] + s[k + 1] /\ s[k + 1] \in Nat /\ sum[k] \in Nat
      BY <1>1, <1>2, <1>4, <2>1
    <2>3. (k + 1) * p = k * p + p /\ k * p \in Nat
      OBVIOUS
    <2>4. ASSUME \A i \in 1..Len(s) : s[i] <= p PROVE sum[k + 1] <= (k + 1) * p
      BY <2>1, <2>2, <2>3, <2>4, <1>4
    <2>5. ASSUME \A i \in 1..Len(s) : p <= s[i] PROVE (k + 1) * p <= sum[k + 1]
      BY <2>1, <2>2, <2>3, <2>5, <1>4
    <2> QED
      BY <2>1, <2>2, <2>4, <2>5
  <1>5. Len(s) \in S
    <2> HIDE DEF S
    <2>1. \A k \in 0..(Len(s) - 1) : k \in S => k + 1 \in S
      BY <1>4
    <2>2. \A k \in 0..Len(s) : k \in S
      BY <1>2, <1>3, <2>1, UpTo
    <2> QED
      BY <1>2, <2>2
  <1> QED
    BY <1>5 DEF Total, sum

\* A history that does not rise falls all along.
LEMMA NeverAbove ==
    ASSUME NEW s \in Seq(Nat), NotRising(s), NEW i \in 1..Len(s), NEW j \in i..Len(s)
    PROVE  s[j] <= s[i]
  <1>1. Len(s) \in Nat /\ \A k \in 1..Len(s) : s[k] \in Nat
    BY LenProperties, ElementOfSeq
  <1> DEFINE S == {k \in Nat : i + k <= Len(s) => s[i + k] <= s[i]}
  <1>2. 0 \in S
    BY <1>1
  <1>3. ASSUME NEW k \in 0..(Len(s) - 1), k \in S PROVE k + 1 \in S
    <2> SUFFICES ASSUME i + (k + 1) <= Len(s) PROVE s[i + (k + 1)] <= s[i]
      OBVIOUS
    <2>1. i + (k + 1) \in 2..Len(s) /\ (i + (k + 1)) - 1 = i + k /\ i + k \in 1..Len(s)
      BY <1>1
    <2>2. s[i + (k + 1)] <= s[i + k]
      BY <2>1 DEF NotRising
    <2>3. s[i + k] <= s[i]
      BY <1>3, <2>1
    <2> QED
      BY <1>1, <2>1, <2>2, <2>3, SMTT(30)
  <1>4. Len(s) \in S /\ j - i \in S
    <2>1. j - i \in 0..Len(s) /\ Len(s) \in 0..Len(s)
      BY <1>1
    <2> HIDE DEF S
    <2> QED
      BY <1>1, <1>2, <1>3, <2>1, UpTo
  <1>5. i + (j - i) = j /\ j <= Len(s)
    BY <1>1
  <1> QED
    BY <1>4, <1>5

\* A part of a list.
LEMMA PartOf ==
    ASSUME NEW S, NEW s \in Seq(S), NEW a \in 1..(Len(s) + 1), NEW b \in (a - 1)..Len(s)
    PROVE  /\ SubSeq(s, a, b) \in Seq(S) /\ Len(SubSeq(s, a, b)) = b - a + 1
           /\ \A i \in 1..(b - a + 1) : SubSeq(s, a, b)[i] = s[a + i - 1]
  <1>1. Len(s) \in Nat /\ \A i \in 1..Len(s) : s[i] \in S
    BY LenProperties, ElementOfSeq
  <1>2. a \in Int /\ b \in Int /\ \A i \in a..b : s[i] \in S
    BY <1>1
  <1>3. Len(SubSeq(s, a, b)) = IF a <= b THEN b - a + 1 ELSE 0
    BY <1>2, SubSeqProperties
  <1> QED
    BY <1>1, <1>2, <1>3, SubSeqProperties

\* The last n of a list.
LEMMA EndOf ==
    ASSUME NEW S, NEW s \in Seq(S), NEW n \in 1..Len(s)
    PROVE  /\ Ending(s, n) \in Seq(S) /\ Len(Ending(s, n)) = n
           /\ \A i \in 1..n : Ending(s, n)[i] = s[Len(s) - n + i]
  <1> DEFINE a == Len(s) - n + 1
  <1>1. /\ Len(s) \in Nat /\ a \in 1..(Len(s) + 1) /\ Len(s) \in (a - 1)..Len(s)
        /\ Len(s) - a + 1 = n /\ \A i \in 1..n : a + i - 1 = Len(s) - n + i
    BY LenProperties
  <1>2. Ending(s, n) = SubSeq(s, a, Len(s))
    BY DEF Ending
  <1> HIDE DEF a
  <1>3. /\ SubSeq(s, a, Len(s)) \in Seq(S) /\ Len(SubSeq(s, a, Len(s))) = Len(s) - a + 1
        /\ \A i \in 1..(Len(s) - a + 1) : SubSeq(s, a, Len(s))[i] = s[a + i - 1]
    BY <1>1, PartOf
  <1> QED
    BY <1>1, <1>2, <1>3

\* Of a history that does not rise the newest values are the small ones.
LEMMA NewestAreSmall ==
    ASSUME NEW s \in Seq(Nat), NotRising(s), NEW n \in Nat \ {0}, NEW m \in Nat \ {0},
           n + m <= Len(s)
    PROVE  \E p \in Nat : /\ \E i \in 1..Len(s) : p = s[i]
                          /\ Newest(s, n) \in 0..(n * p)
                          /\ Before(s, n, m) \in Nat /\ m * p <= Before(s, n, m)
  <1>1. Len(s) \in Nat /\ \A i \in 1..Len(s) : s[i] \in Nat
    BY LenProperties, ElementOfSeq
  <1> DEFINE k == Len(s) - n
             a == Len(s) - n - m + 1
             p == s[k]
             e == Ending(s, n)
             b == SubSeq(s, a, k)
  <1>2. k \in 1..Len(s) /\ a \in 1..k /\ k - a + 1 = m /\ n \in 1..Len(s) /\ Len(s) - n = k
    BY <1>1
  <1>0. Newest(s, n) = Total(e) /\ Before(s, n, m) = Total(b)
    BY DEF Newest, Before
  <1> HIDE DEF k, a
  <1>a. p \in Nat
    BY <1>1, <1>2
  <1>3. e \in Seq(Nat) /\ Len(e) = n /\ \A i \in 1..n : e[i] = s[k + i]
    BY <1>2, EndOf
  <1>b. b \in Seq(Nat) /\ Len(b) = m /\ \A i \in 1..m : b[i] = s[a + i - 1]
    <2>1. a \in 1..(Len(s) + 1) /\ k \in (a - 1)..Len(s)
      BY <1>1, <1>2
    <2>2. /\ b \in Seq(Nat) /\ Len(b) = k - a + 1
          /\ \A i \in 1..(k - a + 1) : b[i] = s[a + i - 1]
      BY <2>1, PartOf
    <2> QED
      BY <1>2, <2>2
  <1>4. ASSUME NEW i \in 1..n PROVE e[i] <= p
    <2>1. k + i \in k..Len(s)
      BY <1>1, <1>2
    <2> QED
      BY <1>2, <1>3, <2>1, NeverAbove
  <1>5. ASSUME NEW i \in 1..m PROVE p <= b[i]
    <2>1. a + i - 1 \in 1..Len(s) /\ k \in (a + i - 1)..Len(s)
      BY <1>1, <1>2
    <2> QED
      BY <1>2, <1>b, <2>1, NeverAbove
  <1>10. (\E i \in 1..Len(s) : p = s[i]) /\ p \in Nat
    BY <1>2, <1>a
  <1> HIDE DEF e, b, p
  <1>6. Total(e) \in Nat /\ Total(e) <= n * p
    <2>1. /\ Total(e) \in Nat
          /\ (\A i \in 1..Len(e) : e[i] <= p) => Total(e) <= Len(e) * p
      BY <1>a, <1>3, TotalBounded
    <2> QED
      BY <1>3, <1>4, <2>1
  <1>7. Total(b) \in Nat /\ m * p <= Total(b)
    <2>1. /\ Total(b) \in Nat
          /\ (\A i \in 1..Len(b) : p <= b[i]) => Len(b) * p <= Total(b)
      BY <1>a, <1>b, TotalBounded
    <2> QED
      BY <1>b, <1>5, <2>1
  <1>9. n * p \in Nat
    BY <1>a
  <1>11. Newest(s, n) \in 0..(n * p)
    BY <1>0, <1>6, <1>9
  <1> QED
    BY <1>0, <1>7, <1>10, <1>11

\* No such history scores: neither the quotes nor the ticks, the minutes or the
\* buying strength.
LEMMA NoSlope ==
    ASSUME NEW s \in Seq(Nat \ {0}), NotRising(s)
    PROVE  calc_bid1_slope_score(s) = 0
  <1>1. Few \in Nat \ {0}
    BY PeriodsAssumption
  <1>0. Len(s) \in Nat
    BY LenProperties
  <1> SUFFICES ASSUME Len(s) >= Few PROVE 2000 * (Ending(s, Few)[Few] - Ending(s, Few)[1])
                                              < Ending(s, Few)[1]
    BY <1>0, <1>1, SMT DEF calc_bid1_slope_score
  <1>2. s \in Seq(Nat) /\ Len(s) \in Nat /\ \A i \in 1..Len(s) : s[i] \in Nat \ {0}
    <2>1. s \in Seq(Nat)
      BY SeqMonotonic
    <2> QED
      BY <2>1, LenProperties, ElementOfSeq
  <1>3. \A i \in 1..Few : Ending(s, Few)[i] = s[Len(s) - Few + i]
    <2>1. Few \in 1..Len(s)
      BY <1>0, <1>1
    <2> QED
      BY <1>2, <2>1, EndOf
  <1>4. 1 \in 1..Few /\ Few \in 1..Few /\ Len(s) - Few + 1 \in 1..Len(s)
        /\ Len(s) - Few + Few = Len(s) /\ Len(s) \in (Len(s) - Few + 1)..Len(s)
    BY <1>1, <1>2
  <1>5. s[Len(s)] <= s[Len(s) - Few + 1]
    BY <1>2, <1>4, NeverAbove
  <1>6. s[Len(s)] \in Nat \ {0} /\ s[Len(s) - Few + 1] \in Nat \ {0}
    BY <1>2, <1>4
  <1>7. Ending(s, Few)[1] = s[Len(s) - Few + 1] /\ Ending(s, Few)[Few] = s[Len(s)]
    BY <1>3, <1>4
  <1> QED
    BY <1>5, <1>6, <1>7

\* Ticks that never trade more than the one before give no acceleration score.
LEMMA NoAcceleration ==
    ASSUME NEW s \in Seq(Nat \ {0}), NotRising(s)
    PROVE  calc_tick_vol_accel_score(s) = 0
  <1>1. Few \in Nat \ {0}
    BY PeriodsAssumption
  <1> SUFFICES ASSUME Len(s) >= 2 * Few
               PROVE ~(Newest(s, Few) >= 2 * Before(s, Few, Few))
    BY DEF calc_tick_vol_accel_score
  <1>2. s \in Seq(Nat) /\ Len(s) \in Nat /\ \A i \in 1..Len(s) : s[i] \in Nat \ {0}
    <2>1. s \in Seq(Nat)
      BY SeqMonotonic
    <2> QED
      BY <2>1, LenProperties, ElementOfSeq
  <1>3. Few + Few <= Len(s)
    BY <1>1, <1>2
  <1>4. PICK p \in Nat : /\ \E i \in 1..Len(s) : p = s[i]
                         /\ Newest(s, Few) \in 0..(Few * p)
                         /\ Before(s, Few, Few) \in Nat /\ Few * p <= Before(s, Few, Few)
    BY <1>1, <1>2, <1>3, NewestAreSmall
  <1>5. p \in Nat \ {0} /\ Few * p \in Nat \ {0}
    <2>1. p \in Nat \ {0}
      BY <1>2, <1>4
    <2>2. Few * p = (Few - 1) * p + p /\ (Few - 1) * p \in Nat
      BY <1>1, <2>1
    <2> QED
      BY <2>1, <2>2
  <1> QED
    BY <1>4, <1>5

\* Minutes that never trade more than the one before give no burst score.
LEMMA NoBurst ==
    ASSUME NEW s \in Seq(Nat), NotRising(s)
    PROVE  calc_vol_burst_score(s) = 0
  <1> SUFFICES ASSUME Len(s) >= 5, 2 * Before(s, 2, 3) > 0
               PROVE ~(3 * Newest(s, 2) >= 2 * (2 * Before(s, 2, 3)))
    BY DEF calc_vol_burst_score
  <1>1. Len(s) \in Nat
    BY LenProperties
  <1>2. 2 + 3 <= Len(s)
    BY <1>1
  <1>3. PICK p \in Nat : /\ Newest(s, 2) \in 0..(2 * p)
                         /\ Before(s, 2, 3) \in Nat /\ 3 * p <= Before(s, 2, 3)
    BY <1>2, NewestAreSmall
  <1> QED
    BY <1>3, SMTT(30)

\* A strength that never grows does not reverse.
LEMMA NoReversal ==
    ASSUME NEW s \in Seq(Nat), NotRising(s), Len(s) >= Recent + Older
    PROVE  calc_chejan_reversal_score(s) = 0
  <1>1. Recent \in Nat \ {0} /\ Older \in Nat \ {0}
    BY PeriodsAssumption
  <1> DEFINE new == Newest(s, Recent) * Older
             old == Before(s, Recent, Older) * Recent
  <1> SUFFICES ~(old > 0 /\ 100 * new > 115 * old)
    BY DEF calc_chejan_reversal_score
  <1>2. Recent + Older <= Len(s)
    BY <1>1, LenProperties
  <1>3. PICK p \in Nat : /\ Newest(s, Recent) \in 0..(Recent * p)
                         /\ Before(s, Recent, Older) \in Nat
                         /\ Older * p <= Before(s, Recent, Older)
    BY <1>1, <1>2, NewestAreSmall
  <1>4. ASSUME NEW x \in Nat, NEW y \in Nat, NEW z \in Nat, x <= y PROVE x * z <= y * z
    BY <1>4
  <1>5. /\ new <= (Recent * p) * Older /\ (Older * p) * Recent <= old
        /\ new \in Nat /\ old \in Nat
    <2>1. Newest(s, Recent) \in Nat /\ Recent * p \in Nat /\ Older * p \in Nat
          /\ Newest(s, Recent) <= Recent * p
      BY <1>1, <1>3
    <2>2. new <= (Recent * p) * Older
      BY <1>1, <1>4, <2>1
    <2>3. (Older * p) * Recent <= old
      BY <1>1, <1>3, <1>4, <2>1
    <2>4. new \in Nat /\ old \in Nat
      BY <1>1, <1>3, <2>1
    <2> QED
      BY <2>2, <2>3, <2>4
  <1>6. (Recent * p) * Older = (Older * p) * Recent /\ (Recent * p) * Older \in Nat
    BY <1>1
  <1> HIDE DEF new, old
  <1> QED
    BY <1>5, <1>6

\* The greatest value of a list.
LEMMA GreatestOf ==
    ASSUME NEW s \in Seq(Nat)
    PROVE  /\ Greatest(s) \in Nat /\ \A i \in 1..Len(s) : s[i] <= Greatest(s)
           /\ Greatest(s) = 0 \/ \E i \in 1..Len(s) : Greatest(s) = s[i]
  <1>1. Len(s) \in Nat /\ DOMAIN s = 1..Len(s) /\ \A i \in 1..Len(s) : s[i] \in Nat
    BY LenProperties, ElementOfSeq
  <1> DEFINE all == {0} \cup {s[i] : i \in 1..Len(s)}
             Bounds(m, k) == \A i \in 1..k : s[i] <= m
             S == {k \in 0..Len(s) : \E m \in all : Bounds(m, k)}
  <1>2. all \subseteq Nat /\ 0 \in all
    BY <1>1
  <1>3. 0 \in S
    BY <1>1, <1>2
  <1>4. ASSUME NEW k \in 0..(Len(s) - 1), k \in S PROVE k + 1 \in S
    <2>1. PICK m \in all : Bounds(m, k)
      BY <1>4
    <2>2. k + 1 \in 1..Len(s) /\ k + 1 \in 0..Len(s) /\ s[k + 1] \in all
      BY <1>1
    <2>3. m \in Nat /\ s[k + 1] \in Nat /\ \A i \in 1..(k + 1) : i = k + 1 \/ i \in 1..k
      BY <1>1, <1>2, <2>2
    <2>4. CASE s[k + 1] <= m
      <3>1. Bounds(m, k + 1)
        BY <2>1, <2>3, <2>4
      <3> QED
        BY <2>1, <2>2, <3>1
    <2>5. CASE ~(s[k + 1] <= m)
      <3>1. ASSUME NEW i \in 1..(k + 1) PROVE s[i] <= s[k + 1]
        <4>1. i \in 1..Len(s)
          BY <2>2
        <4> QED
          BY <1>1, <2>1, <2>3, <2>5, <4>1
      <3>2. Bounds(s[k + 1], k + 1)
        BY <3>1
      <3> QED
        BY <2>2, <3>2
    <2> QED
      BY <2>4, <2>5
  <1>5. Len(s) \in S
    <2> HIDE DEF S
    <2>1. \A k \in 0..(Len(s) - 1) : k \in S => k + 1 \in S
      BY <1>4
    <2>2. \A k \in 0..Len(s) : k \in S
      BY <1>1, <1>3, <2>1, UpTo
    <2> QED
      BY <1>1, <2>2
  <1>6. PICK m \in all : \A i \in 1..Len(s) : s[i] <= m
    BY <1>5
  <1>7. Range(s) = {s[i] : i \in 1..Len(s)}
    BY <1>1 DEF Range
  <1> DEFINE Top(x) == x \in all /\ \A y \in all : x >= y
  <1>8. Greatest(s) = CHOOSE x : Top(x)
    BY <1>7 DEF Greatest, Max
  <1>9. Top(m)
    BY <1>1, <1>2, <1>6
  <1>10. Top(Greatest(s))
    BY <1>8, <1>9
  <1> QED
    BY <1>1, <1>2, <1>10

\* Greatest is the greatest element, 0 for the empty list.
LEMMA GreatestIs ==
    ASSUME NEW s \in Seq(Nat), NEW n \in Nat, \A i \in 1..Len(s) : s[i] <= n,
           n = 0 \/ \E i \in 1..Len(s) : n = s[i]
    PROVE  Greatest(s) = n
  <1>1. Len(s) \in Nat /\ \A i \in 1..Len(s) : s[i] \in Nat
    BY LenProperties, ElementOfSeq
  <1>2. /\ Greatest(s) \in Nat /\ \A i \in 1..Len(s) : s[i] <= Greatest(s)
        /\ Greatest(s) = 0 \/ \E i \in 1..Len(s) : Greatest(s) = s[i]
    BY GreatestOf
  <1> QED
    BY <1>1, <1>2

\* The score of the ask wall is a number.
LEMMA WallScore ==
    ASSUME NEW s \in Seq(Nat \ {0})
    PROVE  calc_ask1_wall_collapse_score(s) \in Int
  <1> DEFINE h == Ending(s, Few)
             peak == Greatest(Butlast(h))
  <1>1. Few \in Nat \ {0} /\ Len(s) \in Nat
    BY PeriodsAssumption, LenProperties
  <1>2. CASE Len(s) < Few
    BY <1>2, SMT DEF calc_ask1_wall_collapse_score
  <1>3. CASE Few \in 1..Len(s)
    <2>1. h \in Seq(Nat \ {0}) /\ Len(h) = Few
      BY <1>3, EndOf
    <2>2. h[Few] \in Nat \ {0} /\ Few - 1 \in (1 - 1)..Len(h) /\ 1 \in 1..(Len(h) + 1)
      BY <1>1, <2>1, ElementOfSeq
    <2>3. Butlast(h) \in Seq(Nat \ {0})
      <3> HIDE DEF h
      <3>1. SubSeq(h, 1, Few - 1) \in Seq(Nat \ {0})
        BY <2>1, <2>2, PartOf
      <3> QED
        BY <2>1, <3>1 DEF Butlast
    <2>4. Butlast(h) \in Seq(Nat)
      BY <2>3, SeqMonotonic
    <2>5. peak \in Nat
      BY <2>4, GreatestOf
    <2> HIDE DEF peak, h
    <2>6. CASE 2 * h[Few] > peak
      BY <2>6, SMT DEF calc_ask1_wall_collapse_score, peak, h
    <2>7. CASE ~(2 * h[Few] > peak)
      <3> DEFINE x == (10000 * (peak - 2 * h[Few])) \div (6 * peak)
      <3>1. x \in Int
        <4>1. 10000 * (peak - 2 * h[Few]) \in Int /\ 6 * peak \in Nat \ {0}
          BY <2>2, <2>5, <2>7, SMT
        <4> QED
          BY <4>1, SMT
      <3>2. AtMost(x, 1000) \in Int
        <4> HIDE DEF x
        <4> QED
          BY <3>1, SMT DEF AtMost
      <3>3. calc_ask1_wall_collapse_score(s) = AtMost(x, 1000)
        BY <1>1, <1>3, <2>7, SMT DEF calc_ask1_wall_collapse_score, peak, h
      <3> QED
        BY <3>2, <3>3
    <2> QED
      BY <2>6, <2>7
  <1> QED
    BY <1>1, <1>2, <1>3

\* While nobody buys more than before, the leading score is zero.
LEMMA NoBuyersNoScore == TypeOK => BuyersNeeded
  <1> DEFINE vols == [i \in DOMAIN st.bars |-> st.bars[i].volume]
             closes == ClosesOf(st.bars)
             p == Parts(st, vols, closes, inv_flip_score)
  <1> SUFFICES ASSUME TypeOK,
                      NotRising(st.bid1), NotRising(st.tickVols), NotRising(st.chejan),
                      NotRising(vols), st.flipAt = Never,
                      st.rs < 30 \/ calc_ask1_wall_collapse_score(st.ask1) < 200
               PROVE  get_leading_score(st, st.bars, inv_flip_score) \in {NoScore, <<0>>}
    BY DEF BuyersNeeded
  <1>1. /\ st.bid1 \in Seq(Nat \ {0}) /\ st.tickVols \in Seq(Nat \ {0})
        /\ st.chejan \in Seq(Nat) /\ st.bars \in Seq(Bars) /\ st.rs \in Int
    <2>1. st.chejan \in Seq(Nat \ {0})
      BY DEF TypeOK, Kept
    <2>2. st.chejan \in Seq(Nat)
      BY <2>1, SeqMonotonic
    <2> QED
      BY <2>2 DEF TypeOK, Kept
  <1>2. vols \in Seq(Nat)
    <2>1. Len(st.bars) \in Nat /\ DOMAIN st.bars = 1..Len(st.bars)
          /\ \A i \in 1..Len(st.bars) : st.bars[i] \in Bars
      BY <1>1, LenProperties, ElementOfSeq
    <2>2. \A i \in 1..Len(st.bars) : st.bars[i].volume \in Nat
      BY <2>1 DEF Bars
    <2> QED
      BY <2>1, <2>2
  <1>3. Recent + Older \in Nat /\ Len(st.chejan) \in Nat
    <2>1. Recent \in Nat /\ Older \in Nat
      BY PeriodsAssumption
    <2> QED
      BY <1>1, <2>1, LenProperties
  <1> SUFFICES ASSUME Len(st.chejan) >= Recent + Older PROVE ~primary_ok(p)
    <2>1. CASE Len(st.chejan) < Recent + Older \/ Len(st.bars) < 2 * Few + 1
      BY <2>1, Zenon DEF get_leading_score
    <2>2. CASE /\ ~(Len(st.chejan) < Recent + Older \/ Len(st.bars) < 2 * Few + 1)
               /\ ~primary_ok(p)
      BY <2>2, Zenon DEF get_leading_score
    <2> HIDE DEF p
    <2>3. Len(st.chejan) >= Recent + Older \/ Len(st.chejan) < Recent + Older
      BY <1>3
    <2> QED
      BY <2>1, <2>2, <2>3
  <1>4. /\ calc_bid1_slope_score(st.bid1) = 0 /\ calc_tick_vol_accel_score(st.tickVols) = 0
        /\ calc_vol_burst_score(vols) = 0
    BY <1>1, <1>2, NoSlope, NoAcceleration, NoBurst
  <1>5. calc_chejan_reversal_score(st.chejan) = 0
    BY <1>1, <1>3, NoReversal
  <1>6. inv_flip_score = 0
    BY DEF inv_flip_score
  <1> HIDE DEF vols, closes
  <1>7. p.bs = 0 /\ p.tv = 0 /\ p.vb = 0 /\ p.cr = 0 /\ p.iv = 0
    BY <1>4, <1>5, <1>6, SMT DEF Parts
  <1>8. p.rs = calc_rs_leading_score(st.rs) /\ p.aw = calc_ask1_wall_collapse_score(st.ask1)
    BY SMT DEF Parts
  <1> HIDE DEF p
  <1>9. st.rs < 30 => p.rs \in {450, 250, 0}
    BY <1>1, <1>8, SMT DEF calc_rs_leading_score
  <1>10. ~Supported(p, 100) /\ ~Supported(p, 150)
    BY <1>7, SMT DEF Supported
  <1>11. ~(p.rs >= 650 /\ p.aw >= 200)
    <2>1. p.aw \in Int
      <3>1. st.ask1 \in Seq(Nat \ {0})
        BY DEF TypeOK, Kept
      <3> QED
        BY <1>8, <3>1, WallScore
    <2> QED
      BY <1>8, <1>9, <2>1, SMT
  <1> QED
    BY <1>7, <1>10, <1>11, SMT DEF primary_ok

-----------------------------------------------------------------------------
(* The bars and the ticks: the invariant *)

\* The ticks come in the order of the clock, and so do they as the processor sees
\* them; the bar in progress is that of the last one, and its volume counts from
\* where the minute started.
NoTick == <<>>
LastAt == IF seen = <<>> THEN NoTick ELSE seen[Len(seen)].at

Ordered ==
    /\ \A i, j \in DOMAIN ticks : i < j => ~Earlier(ticks[j].at, ticks[i].at)
    /\ \A i \in DOMAIN ticks : ~Earlier(Now, ticks[i].at)
    /\ \A i, j \in DOMAIN seen : i < j => ~Earlier(seen[j].at, seen[i].at)
    /\ ticks = <<>> <=> lastMin = NoBar
    /\ ticks # <<>> => /\ lastMin = ticks[Len(ticks)].at[2]
                       /\ cur.cum = ticks[Len(ticks)].cum
                       /\ lastCum = StartOf(LastAt)

IInv == BarsMatchTicks /\ Ordered

Notes == [at : Moments, price : Nat \ {0}, cum : Nat]

\* Where the processor sees a tick that comes now: on the day of the last one,
\* unless it is later there than now.
Turn == IF seen # <<>> /\ lastMin <= minute THEN LastAt[1] ELSE day
Here == <<Turn, minute>>

\* The order as the processor sees it.
InOrder ==
    /\ \A i, j \in DOMAIN seen : i < j => ~Earlier(seen[j].at, seen[i].at)
    /\ \A i \in DOMAIN seen : ~Earlier(Here, seen[i].at)
    /\ (seen = <<>> <=> LastAt = NoTick)
    /\ (LastAt = NoTick <=> lastMin = NoBar) /\ (LastAt = Here <=> lastMin = minute)
    /\ seen # <<>> => /\ LastAt = seen[Len(seen)].at /\ lastMin = LastAt[2]
                      /\ cur.cum = seen[Len(seen)].cum
                      /\ lastCum = StartOf(LastAt)

-----------------------------------------------------------------------------
\* The least and the greatest of a set of places.
LEMMA LeastOf ==
    ASSUME NEW T, T \subseteq Nat, T # {}
    PROVE  Min(T) \in T /\ \A x \in T : Min(T) <= x
  <1>1. \E m \in T : \A x \in T : m <= x
    BY LeastElement
  <1> QED
    BY <1>1 DEF Min

\* Min of a set of numbers with a least element.
LEMMA LeastIs ==
    ASSUME NEW T, T \subseteq Nat, NEW m \in T, \A x \in T : m <= x
    PROVE  Min(T) = m
  <1>1. Min(T) \in T /\ \A x \in T : Min(T) <= x
    BY LeastOf
  <1>2. Min(T) \in Nat /\ m \in Nat /\ Min(T) <= m /\ m <= Min(T)
    BY <1>1
  <1> QED
    BY <1>2

\* A set of places that is not empty has a last one, and Max gives it.
LEMMA LastPlace ==
    ASSUME NEW n \in Nat, NEW T, T \subseteq 0..n, T # {}
    PROVE  Max(T) \in T /\ \A x \in T : x <= Max(T)
  <1> DEFINE U == {n - x : x \in T}
  <1>0. \A x \in T : x \in 0..n /\ n - x \in Nat
    OBVIOUS
  <1>1. U \subseteq Nat /\ U # {}
    BY <1>0
  <1>2. PICK u \in U : \A y \in U : u <= y
    <2> HIDE DEF U
    <2> QED
      BY <1>1, LeastElement
  <1>3. PICK m \in T : u = n - m
    OBVIOUS
  <1>4. ASSUME NEW x \in T PROVE x <= m
    <2>1. u <= n - x
      BY <1>2
    <2> QED
      BY <1>0, <1>3, <2>1
  <1>5. \E x \in T : \A y \in T : x >= y
    BY <1>4
  <1> QED
    BY <1>5 DEF Max

\* Max of a set of numbers with a greatest element.
LEMMA LastPlaceIs ==
    ASSUME NEW T, T \subseteq Nat, NEW m \in T, \A x \in T : x <= m
    PROVE  Max(T) = m
  <1>1. \E x \in T : \A y \in T : x >= y
    OBVIOUS
  <1>2. Max(T) \in T /\ \A y \in T : Max(T) >= y
    BY <1>1 DEF Max
  <1>3. Max(T) \in Nat /\ m \in Nat /\ Max(T) >= m /\ m >= Max(T)
    BY <1>2
  <1> QED
    BY <1>3

\* The end of a list that is kept.
LEMMA LastOfIs ==
    ASSUME NEW S, NEW s \in Seq(S), NEW n \in Nat \ {0}
    PROVE  /\ LastOf(s, n) \in Kept(S, n)
           /\ Len(LastOf(s, n)) = IF Len(s) > n THEN n ELSE Len(s)
           /\ \A i \in 1..Len(LastOf(s, n)) :
                 LastOf(s, n)[i] = s[Len(s) - Len(LastOf(s, n)) + i]
           /\ Len(s) <= n => LastOf(s, n) = s
  <1> DEFINE a == IF Len(s) > n THEN Len(s) - n + 1 ELSE 1
             k == IF Len(s) > n THEN n ELSE Len(s)
  <1>1. /\ Len(s) \in Nat /\ a \in 1..(Len(s) + 1) /\ Len(s) \in (a - 1)..Len(s)
        /\ Len(s) - a + 1 = k /\ k \in 0..n
        /\ \A i \in 1..k : a + i - 1 = Len(s) - k + i
    BY LenProperties
  <1>2. LastOf(s, n) = SubSeq(s, a, Len(s))
    BY DEF LastOf
  <1>3. Len(s) <= n => k = Len(s)
    BY <1>1
  <1> HIDE DEF a, k
  <1>4. /\ SubSeq(s, a, Len(s)) \in Seq(S) /\ Len(SubSeq(s, a, Len(s))) = Len(s) - a + 1
        /\ \A i \in 1..(Len(s) - a + 1) : SubSeq(s, a, Len(s))[i] = s[a + i - 1]
    BY <1>1, PartOf
  <1>5. /\ LastOf(s, n) \in Seq(S) /\ Len(LastOf(s, n)) = k
        /\ \A i \in 1..k : LastOf(s, n)[i] = s[Len(s) - k + i]
    BY <1>1, <1>2, <1>4
  <1>6. ASSUME Len(s) <= n PROVE LastOf(s, n) = s
    <2>1. \A i \in 1..Len(LastOf(s, n)) : LastOf(s, n)[i] = s[i]
      BY <1>1, <1>3, <1>5, <1>6
    <2> QED
      BY <1>3, <1>5, <1>6, <2>1, SeqEqual
  <1>7. k <= n /\ k = IF Len(s) > n THEN n ELSE Len(s)
    BY <1>1 DEF k
  <1> QED
    BY <1>5, <1>6, <1>7 DEF Kept

\* Cutting a list to the window before it grows makes no difference.
LEMMA LastOfLast ==
    ASSUME NEW S, NEW x \in Seq(S), NEW y \in Seq(S), NEW n \in Nat \ {0}
    PROVE  LastOf(LastOf(x, n) \o y, n) = LastOf(x \o y, n)
  <1> DEFINE l == LastOf(x, n)
  <1>1. /\ l \in Seq(S) /\ Len(l) = IF Len(x) > n THEN n ELSE Len(x)
        /\ \A i \in 1..Len(l) : l[i] = x[Len(x) - Len(l) + i]
    BY LastOfIs DEF Kept
  <1> HIDE DEF l
  <1>2. Len(l) \in Nat /\ Len(x) \in Nat /\ Len(y) \in Nat
    BY <1>1, LenProperties
  <1>3. /\ l \o y \in Seq(S) /\ Len(l \o y) = Len(l) + Len(y)
        /\ \A i \in 1..(Len(l) + Len(y)) :
              (l \o y)[i] = IF i <= Len(l) THEN l[i] ELSE y[i - Len(l)]
    BY <1>1, ConcatProperties
  <1>4. /\ x \o y \in Seq(S) /\ Len(x \o y) = Len(x) + Len(y)
        /\ \A i \in 1..(Len(x) + Len(y)) :
              (x \o y)[i] = IF i <= Len(x) THEN x[i] ELSE y[i - Len(x)]
    BY ConcatProperties
  <1> DEFINE b == LastOf(l \o y, n)
             c == LastOf(x \o y, n)
  <1>5. /\ b \in Seq(S) /\ Len(b) = IF Len(l \o y) > n THEN n ELSE Len(l \o y)
        /\ \A i \in 1..Len(b) : b[i] = (l \o y)[Len(l \o y) - Len(b) + i]
    <2>1. l \o y \in Seq(S)
      BY <1>3
    <2> QED
      BY <2>1, LastOfIs DEF Kept
  <1>6. /\ c \in Seq(S) /\ Len(c) = IF Len(x \o y) > n THEN n ELSE Len(x \o y)
        /\ \A i \in 1..Len(c) : c[i] = (x \o y)[Len(x \o y) - Len(c) + i]
    <2>1. x \o y \in Seq(S)
      BY <1>4
    <2> QED
      BY <2>1, LastOfIs DEF Kept
  <1> HIDE DEF b, c
  <1>7. Len(b) = Len(c) /\ Len(b) \in Nat /\ Len(b) <= Len(l) + Len(y)
        /\ Len(b) <= Len(x) + Len(y)
    BY <1>1, <1>2, <1>3, <1>4, <1>5, <1>6
  <1>8. ASSUME NEW i \in 1..Len(b) PROVE b[i] = c[i]
    <2> DEFINE j == Len(l) + Len(y) - Len(b) + i
               k == Len(x) + Len(y) - Len(b) + i
    <2>1. j \in 1..(Len(l) + Len(y)) /\ k \in 1..(Len(x) + Len(y))
          /\ k = j + (Len(x) - Len(l))
      BY <1>2, <1>7
    <2>2. b[i] = (l \o y)[j] /\ c[i] = (x \o y)[k]
      <3>1. i \in 1..Len(c)
        BY <1>7
      <3>2. Len(l \o y) - Len(b) + i = j /\ Len(x \o y) - Len(c) + i = k
        BY <1>3, <1>4, <1>7
      <3> HIDE DEF j, k
      <3> QED
        BY <1>5, <1>6, <3>1, <3>2
    <2> HIDE DEF j, k
    <2>3. CASE j <= Len(l)
      <3>1. j \in 1..Len(l) /\ k <= Len(x) /\ Len(x) - Len(l) + j = k
        BY <1>2, <2>1, <2>3
      <3> QED
        BY <1>1, <1>3, <1>4, <2>1, <2>2, <2>3, <3>1
    <2>4. CASE ~(j <= Len(l))
      <3>1. ~(k <= Len(x)) /\ j - Len(l) = k - Len(x)
        BY <1>2, <2>1, <2>4
      <3> QED
        BY <1>3, <1>4, <2>1, <2>2, <2>4, <3>1
    <2> QED
      BY <2>3, <2>4
  <1> QED
    BY <1>5, <1>6, <1>7, <1>8, SeqEqual DEF b, c, l

\* A history keeps its type when a value is noted.
LEMMA NotedKept ==
    ASSUME NEW s \in Kept(Nat \ {0}, Deque), NEW x \in Int
    PROVE  Noted(s, x) \in Kept(Nat \ {0}, Deque)
  <1>1. Deque \in Nat \ {0} /\ s \in Seq(Nat \ {0})
    BY ConstantsAssumption DEF Kept
  <1>2. ASSUME x > 0 PROVE LastOf(Append(s, x), Deque) \in Kept(Nat \ {0}, Deque)
    <2>1. x \in Nat \ {0}
      BY <1>2
    <2>2. Append(s, x) \in Seq(Nat \ {0})
      BY <1>1, <2>1, AppendProperties
    <2> QED
      BY <1>1, <2>2, LastOfIs
  <1> QED
    BY <1>2 DEF Noted

\* A moment is a day and a minute.
LEMMA MomentIs ==
    ASSUME NEW m \in Moments
    PROVE  m[1] \in {1, 2} /\ m[2] \in 0..Minutes /\ m = <<m[1], m[2]>> /\ m # NoTick
  BY DEF Moments, Days, NoTick

\* The bar of a quiet minute is a bar.
LEMMA FlatIsBar == \A price, volume \in Nat : Flat(price, volume) \in Bars
  BY DEF Flat, Candle, Bars

\* A bar that a tick has changed is a bar.
LEMMA GrownBar ==
    ASSUME NEW b \in Bars, NEW price \in Nat, NEW sold \in Nat
    PROVE  Candle(b.open, Higher(b.high, price), Lower(b.low, price), price, sold) \in Bars
  BY DEF Candle, Bars, Higher, Lower

\* Moments are ordered.
LEMMA EarlierOrders ==
    ASSUME NEW a \in Moments, NEW b \in Moments
    PROVE  /\ ~Earlier(a, a)
           /\ Earlier(a, b) => ~Earlier(b, a) /\ a # b
           /\ a = b \/ Earlier(a, b) \/ Earlier(b, a)
           /\ \A c \in Moments : Earlier(a, b) /\ ~Earlier(c, b) => Earlier(a, c)
           /\ \A c \in Moments : ~Earlier(b, a) /\ Earlier(b, c) => Earlier(a, c)
  <1>1. \A m \in Moments : m[1] \in {1, 2} /\ m[2] \in Int /\ m = <<m[1], m[2]>>
    BY MomentIs, ConstantsAssumption
  <1>2. a = b <=> (a[1] = b[1] /\ a[2] = b[2])
    BY <1>1
  <1> QED
    BY <1>1, <1>2 DEF Earlier

\* The ticks as the processor sees them have their minutes, prices and volumes.
LEMMA SeenIs ==
    ASSUME TypeOK
    PROVE  /\ ticks \in Seq(Notes) /\ seen \in Seq(Notes)
           /\ Len(ticks) \in Nat /\ Len(seen) = Len(ticks)
           /\ DOMAIN ticks = 1..Len(ticks) /\ DOMAIN seen = 1..Len(ticks)
           /\ (ticks = <<>> <=> Len(ticks) = 0) /\ (seen = <<>> <=> Len(ticks) = 0)
           /\ \A i \in 1..Len(ticks) :
                 /\ ticks[i] \in Notes /\ seen[i] \in Notes
                 /\ ticks[i].at \in Moments /\ seen[i].at \in Moments
                 /\ seen[i].at = SeenAt(ticks[i].at) /\ seen[i].at[2] = ticks[i].at[2]
                 /\ seen[i].price = ticks[i].price /\ seen[i].cum = ticks[i].cum
           /\ Now \in Moments /\ Here \in Moments /\ Turn \in {1, 2}
  <1> DEFINE n == Len(ticks)
  <1>1. ticks \in Seq(Notes) /\ n \in Nat /\ DOMAIN ticks = 1..n
        /\ \A i \in 1..n : ticks[i] \in Notes
    <2>1. ticks \in Seq(Notes)
      BY DEF TypeOK, Notes
    <2> QED
      BY <2>1, LenProperties, ElementOfSeq
  <1>2. \A i \in 1..n : ticks[i].at \in Moments /\ ticks[i].price \in Nat \ {0}
                        /\ ticks[i].cum \in Nat
    BY <1>1 DEF Notes
  <1>3. ASSUME NEW m \in Moments PROVE SeenAt(m) \in Moments /\ SeenAt(m)[2] = m[2]
    <2>1. m[1] \in {1, 2} /\ m[2] \in 0..Minutes
      BY MomentIs
    <2> QED
      BY <2>1 DEF SeenAt, Moments, Days
  <1>4. seen = [i \in 1..n |-> [at |-> SeenAt(ticks[i].at), price |-> ticks[i].price,
                                cum |-> ticks[i].cum]]
    BY <1>1 DEF seen
  <1> HIDE DEF n
  <1>5. ASSUME NEW i \in 1..n
        PROVE  /\ seen[i] = [at |-> SeenAt(ticks[i].at), price |-> ticks[i].price,
                             cum |-> ticks[i].cum]
               /\ seen[i] \in Notes
    BY <1>2, <1>3, <1>4 DEF Notes
  <1>6. seen \in Seq(Notes) /\ Len(seen) = n /\ DOMAIN seen = 1..n
    <2>1. seen \in [1..n -> Notes]
      BY <1>4, <1>5
    <2> QED
      BY <1>1, <2>1, LenProperties
  <1>7. (ticks = <<>> <=> n = 0) /\ (seen = <<>> <=> n = 0)
    BY <1>1, <1>6, EmptySeq DEF n
  <1>8. \A i \in 1..n : /\ seen[i].at \in Moments
                        /\ seen[i].at = SeenAt(ticks[i].at) /\ seen[i].at[2] = ticks[i].at[2]
                        /\ seen[i].price = ticks[i].price /\ seen[i].cum = ticks[i].cum
    <2> TAKE i \in 1..n
    <2>1. /\ seen[i].at = SeenAt(ticks[i].at) /\ seen[i].price = ticks[i].price
          /\ seen[i].cum = ticks[i].cum
      <3>1. seen[i] = [at |-> SeenAt(ticks[i].at), price |-> ticks[i].price,
                       cum |-> ticks[i].cum]
        BY <1>5
      <3> QED
        BY <3>1
    <2>2. SeenAt(ticks[i].at) \in Moments /\ SeenAt(ticks[i].at)[2] = ticks[i].at[2]
      BY <1>2, <1>3
    <2> QED
      BY <2>1, <2>2
  <1>9. day \in {1, 2} /\ minute \in 0..Minutes /\ Now \in Moments
    BY DEF TypeOK, Days, Moments, Now
  <1>10. Turn \in {1, 2}
    <2>1. CASE seen # <<>> /\ lastMin <= minute
      <3>1. n \in 1..n /\ LastAt = seen[n].at
        BY <1>1, <1>6, <1>7, <2>1 DEF LastAt
      <3>2. LastAt[1] \in {1, 2}
        BY <1>8, <3>1, MomentIs
      <3> QED
        BY <2>1, <3>2 DEF Turn
    <2>2. CASE ~(seen # <<>> /\ lastMin <= minute)
      BY <1>9, <2>2 DEF Turn
    <2> QED
      BY <2>1, <2>2
  <1>11. Here \in Moments
    BY <1>9, <1>10 DEF Here, Moments, Days
  <1> QED
    BY <1>1, <1>2, <1>5, <1>6, <1>7, <1>8, <1>9, <1>10, <1>11 DEF n

\* The order of the clock is the order the processor sees, now included.
LEMMA OrderIs ==
    ASSUME TypeOK, Ordered
    PROVE  InOrder
  <1> DEFINE n == Len(ticks)
  <1>1. /\ n \in Nat /\ Len(seen) = n /\ DOMAIN ticks = 1..n /\ DOMAIN seen = 1..n
        /\ (ticks = <<>> <=> n = 0) /\ (seen = <<>> <=> n = 0)
        /\ \A i \in 1..n : /\ ticks[i].at \in Moments /\ seen[i].at \in Moments
                           /\ seen[i].at = SeenAt(ticks[i].at)
                           /\ seen[i].at[2] = ticks[i].at[2] /\ seen[i].cum = ticks[i].cum
        /\ Here \in Moments
    BY SeenIs
  <1>2. day \in {1, 2} /\ minute \in 0..Minutes /\ Minutes \in Nat
    BY ConstantsAssumption DEF TypeOK, Days
  <1> HIDE DEF n
  <1>3. CASE n = 0
    <2>1. seen = <<>> /\ LastAt = NoTick /\ lastMin = NoBar /\ lastMin # minute
      BY <1>1, <1>2, <1>3 DEF LastAt, Ordered, NoBar
    <2>2. LastAt # Here
      BY <1>1, <2>1, MomentIs
    <2> QED
      BY <1>1, <1>3, <2>1, <2>2 DEF InOrder
  <1>4. CASE n > 0
    <2> DEFINE a == seen[n].at
    <2>1. /\ n \in 1..n /\ LastAt = a /\ lastMin = a[2] /\ cur.cum = seen[n].cum
          /\ lastCum = StartOf(LastAt) /\ seen # <<>> /\ a = seen[n].at
      BY <1>1, <1>4 DEF LastAt, Ordered, n
    <2>2. a \in Moments /\ a[1] \in {1, 2} /\ a[2] \in 0..Minutes /\ a = <<a[1], a[2]>>
          /\ a # NoTick
      BY <1>1, <2>1, MomentIs
    <2>3. ticks[n].at[1] \in {1, 2} /\ ticks[n].at[2] = a[2] /\ ~Earlier(Now, ticks[n].at)
          /\ a[1] = IF GoesOn THEN 1 ELSE ticks[n].at[1]
      BY <1>1, <2>1, MomentIs DEF Ordered, SeenAt
    <2>4. Turn = IF a[2] <= minute THEN a[1] ELSE day
      BY <2>1 DEF Turn
    <2> HIDE DEF a
    <2>5. ~Earlier(Here, a)
      <3>1. CASE a[2] <= minute
        BY <1>2, <2>2, <2>4, <3>1 DEF Here, Earlier
      <3>2. CASE ~(a[2] <= minute)
        <4>1. ticks[n].at[1] < day
          BY <1>2, <2>2, <2>3, <3>2 DEF Now, Earlier
        <4> QED
          BY <1>2, <2>2, <2>3, <2>4, <3>2, <4>1 DEF Here, Earlier
      <3> QED
        BY <3>1, <3>2
    <2>6. a = Here <=> a[2] = minute
      BY <1>2, <2>2, <2>4 DEF Here
    <2>7. lastMin # NoBar /\ LastAt # NoTick
      BY <2>1, <2>2 DEF NoBar
    <2>8. ASSUME NEW i \in 1..n PROVE ~Earlier(Here, seen[i].at)
      <3>1. i = n \/ i < n
        BY <1>1
      <3>2. ~Earlier(a, seen[i].at)
        <4>1. CASE i = n
          BY <2>1, <2>2, <4>1, EarlierOrders
        <4>2. CASE i < n
          BY <1>1, <2>1, <4>2 DEF Ordered, a
        <4> QED
          BY <3>1, <4>1, <4>2
      <3> QED
        BY <1>1, <2>1, <2>2, <2>5, <3>2, EarlierOrders
    <2> QED
      BY <1>1, <2>1, <2>6, <2>7, <2>8 DEF InOrder, Ordered, a
  <1> QED
    BY <1>1, <1>3, <1>4

\* The clock never goes back: between the last tick and now are whole minutes.
LEMMA GapIs ==
    ASSUME TypeOK, InOrder, seen # <<>>
    PROVE  /\ Len(seen) \in Nat \ {0} /\ DOMAIN seen = 1..Len(seen)
           /\ LastAt \in Moments /\ Here \in Moments /\ LastAt = seen[Len(seen)].at
           /\ LastAt # Here => /\ Earlier(LastAt, Here) /\ GapMinutes \in Nat
                               /\ GapMinutes = IF LastAt[1] = Turn
                                               THEN minute - LastAt[2] - 1 ELSE 0
  <1>1. Len(seen) \in Nat \ {0} /\ DOMAIN seen = 1..Len(seen) /\ Len(seen) \in 1..Len(seen)
    BY SeenIs
  <1>2. LastAt \in Moments /\ Here \in Moments /\ LastAt = seen[Len(seen)].at
    BY <1>1, SeenIs DEF LastAt
  <1>3. ASSUME LastAt # Here
        PROVE  /\ Earlier(LastAt, Here) /\ GapMinutes \in Nat
               /\ GapMinutes = IF LastAt[1] = Turn THEN minute - LastAt[2] - 1 ELSE 0
    <2>1. ~Earlier(Here, LastAt) /\ lastMin = LastAt[2]
      BY <1>1, <1>2 DEF InOrder
    <2>2. Here[1] = Turn /\ Here[2] = minute /\ Turn \in {1, 2} /\ minute \in 0..Minutes
          /\ day \in {1, 2}
      BY SeenIs DEF Here, TypeOK, Days
    <2>3. LastAt[1] \in {1, 2} /\ LastAt[2] \in 0..Minutes
          /\ LastAt = <<LastAt[1], LastAt[2]>>
      BY <1>2, MomentIs
    <2>4. Minutes \in Nat
      BY ConstantsAssumption
    <2>5. ~(LastAt[1] = Turn /\ LastAt[2] = minute)
      BY <1>3, <2>3 DEF Here
    <2>6. Earlier(LastAt, Here)
      BY <2>1, <2>2, <2>3, <2>4, <2>5 DEF Earlier
    <2>7. LastAt[2] <= minute => Turn = LastAt[1]
      BY <2>1 DEF Turn
    <2>8. GapMinutes = IF LastAt[1] = Turn THEN minute - LastAt[2] - 1 ELSE 0
      BY <2>1, <2>2, <2>3, <2>4, <2>5, <2>6, <2>7 DEF Earlier, GapMinutes, Higher
    <2>9. GapMinutes \in Nat
      BY <2>1, <2>2, <2>3, <2>4 DEF GapMinutes, Higher
    <2> QED
      BY <2>6, <2>8, <2>9
  <1> QED
    BY <1>1, <1>2, <1>3

\* What a tick of a new minute adds to the bars.
LEMMA CompletedIs ==
    ASSUME TypeOK, InOrder
    PROVE  /\ Completed \in Seq(Bars)
           /\ LastAt \in {NoTick, Here} => Completed = <<>>
           /\ LastAt \notin {NoTick, Here} =>
                 /\ Len(Completed) = GapMinutes + 1 /\ GapMinutes \in Nat
                 /\ Completed[1] = cur.bar
                 /\ \A i \in 2..Len(Completed) : Completed[i] = Flat(cur.bar.close, 0)
  <1>0. LastAt \in {NoTick, Here} <=> lastMin \in {NoBar, minute}
    BY DEF InOrder
  <1>1. CASE LastAt \in {NoTick, Here}
    BY <1>0, <1>1, EmptySeq DEF Completed
  <1>2. CASE LastAt \notin {NoTick, Here}
    <2>1. GapMinutes \in Nat
      BY <1>2, GapIs DEF LastAt
    <2> DEFINE quiet == [i \in 1..GapMinutes |-> Flat(cur.bar.close, 0)]
    <2>2. cur.bar \in Bars /\ Flat(cur.bar.close, 0) \in Bars
      <3>1. cur.bar \in Bars
        BY DEF TypeOK
      <3> QED
        BY <3>1, FlatIsBar DEF Bars
    <2>3. quiet \in Seq(Bars) /\ Len(quiet) = GapMinutes
          /\ \A i \in 1..GapMinutes : quiet[i] = Flat(cur.bar.close, 0)
      BY <2>1, <2>2
    <2>4. <<cur.bar>> \in Seq(Bars) /\ Len(<<cur.bar>>) = 1 /\ <<cur.bar>>[1] = cur.bar
      BY <2>2
    <2> HIDE DEF quiet
    <2>5. /\ <<cur.bar>> \o quiet \in Seq(Bars)
          /\ Len(<<cur.bar>> \o quiet) = 1 + GapMinutes
          /\ \A i \in 1..(1 + GapMinutes) : (<<cur.bar>> \o quiet)[i]
                 = IF i <= 1 THEN <<cur.bar>>[i] ELSE quiet[i - 1]
      BY <2>3, <2>4, ConcatProperties
    <2>6. Completed = <<cur.bar>> \o quiet
      BY <1>0, <1>2 DEF Completed, quiet
    <2>7. Completed[1] = cur.bar
      BY <2>1, <2>4, <2>5, <2>6
    <2>8. ASSUME NEW i \in 2..(1 + GapMinutes) PROVE Completed[i] = Flat(cur.bar.close, 0)
      <3>1. i \in 1..(1 + GapMinutes) /\ i - 1 \in 1..GapMinutes /\ ~(i <= 1)
        BY <2>1
      <3> QED
        BY <2>3, <2>5, <2>6, <3>1
    <2>9. Len(Completed) = GapMinutes + 1
      BY <2>1, <2>5, <2>6
    <2> QED
      BY <1>2, <2>1, <2>5, <2>6, <2>7, <2>8, <2>9
  <1> QED
    BY <1>1, <1>2

-----------------------------------------------------------------------------
\* The types hold at the start.
LEMMA InitType == Init => TypeOK
  <1> SUFFICES ASSUME Init PROVE TypeOK
    OBVIOUS
  <1> USE ConstantsAssumption DEF Init
  <1>1. <<>> \in Kept(Bars, Window) /\ <<>> \in Kept(Nat \ {0}, Deque)
        /\ <<>> \in Kept(Nat, Deque) /\ <<>> \in Kept(0..3, Deque) /\ <<>> \in Seq(Notes)
    BY EmptySeq DEF Kept
  <1>2. cur \in [bar : Bars, cum : Nat]
    BY FlatIsBar DEF NoCandle
  <1>3. st \in [ bars : Kept(Bars, Window), cum : Nat, strength : Nat, rs : Int,
                tickVols : Kept(Nat \ {0}, Deque), chejan : Kept(Nat \ {0}, Deque),
                bid1 : Kept(Nat \ {0}, Deque), ask1 : Kept(Nat \ {0}, Deque),
                bids : Kept(Nat, Deque), ask : Nat, bid : Nat,
                buyers : {NoReading, <<-1>>, <<0>>, <<1>>}, flipAt : {Never} \cup Moments,
                trend : Kept(0..3, Deque) ]
    BY <1>1 DEF Fresh
  <1>4. disk \in [Days -> Kept(Bars, Window)] /\ fileDay \in Days /\ day \in Days
    BY <1>1 DEF Days
  <1> QED
    BY <1>1, <1>2, <1>3, <1>4 DEF TypeOK, Notes

StType == [ bars : Kept(Bars, Window), cum : Nat, strength : Nat, rs : Int,
            tickVols : Kept(Nat \ {0}, Deque), chejan : Kept(Nat \ {0}, Deque),
            bid1 : Kept(Nat \ {0}, Deque), ask1 : Kept(Nat \ {0}, Deque),
            bids : Kept(Nat, Deque), ask : Nat, bid : Nat,
            buyers : {NoReading, <<-1>>, <<0>>, <<1>>}, flipAt : {Never} \cup Moments,
            trend : Kept(0..3, Deque) ]

\* So they do for a state that was just made.
LEMMA FreshType == Fresh \in StType
  <1>1. <<>> \in Kept(Bars, Window) /\ <<>> \in Kept(Nat \ {0}, Deque)
        /\ <<>> \in Kept(Nat, Deque) /\ <<>> \in Kept(0..3, Deque)
    BY ConstantsAssumption, EmptySeq DEF Kept
  <1> QED
    BY <1>1 DEF Fresh, StType

\* A tick: the amount, the bar in progress and the histories.
LEMMA TickType ==
    ASSUME TypeOK, InOrder, Tick
    PROVE  TypeOK'
  <1>1. PICK t \in Trades :
            LET cum == IF t.missing THEN 0 ELSE (amount + t.price) \div t.price
            IN  /\ amount' = amount + t.price
                /\ process_tick(t.price, cum)
                /\ update_price(t.price, cum, t.strength)
                /\ ticks' = Append(ticks, [at |-> Now, price |-> t.price, cum |-> cum])
    BY DEF Tick
  <1> DEFINE cum == IF t.missing THEN 0 ELSE (amount + t.price) \div t.price
  <1>2. t.price \in Nat \ {0} /\ t.strength \in Nat
    BY ConstantsAssumption
  <1>3. cum \in Nat /\ amount' \in Nat
    <2>1. amount \in Nat
      BY DEF TypeOK
    <2>2. (amount + t.price) \div t.price \in Nat
      BY <1>2, <2>1
    <2> QED
      BY <1>1, <1>2, <2>1, <2>2
  <1>4. /\ process_tick(t.price, cum) /\ update_price(t.price, cum, t.strength)
        /\ ticks' = Append(ticks, [at |-> Now, price |-> t.price, cum |-> cum])
    BY <1>1
  <1> HIDE DEF cum
  <1>5. Now \in Moments
    BY DEF TypeOK, Moments, Now
  <1>6. ticks' \in Seq(Notes)
    <2>1. ticks \in Seq(Notes)
      BY DEF TypeOK, Notes
    <2>2. [at |-> Now, price |-> t.price, cum |-> cum] \in Notes
      BY <1>2, <1>3, <1>5 DEF Notes
    <2> QED
      BY <1>4, <2>1, <2>2, AppendProperties
  <1>7. lastMin' \in {NoBar} \cup 0..Minutes
    BY <1>4 DEF process_tick, TypeOK
  <1>8. BaseVolume(cum) \in Nat
    BY <1>3 DEF BaseVolume, TypeOK
  <1>9. lastCum' \in Nat /\ Higher(0, cum - BaseVolume(cum)) \in Nat
    BY <1>3, <1>4, <1>8 DEF process_tick, Higher
  <1>10. cur' \in [bar : Bars, cum : Nat]
    <2> DEFINE sold == Higher(0, cum - BaseVolume(cum))
    <2>1. /\ Candle(cur.bar.open, Higher(cur.bar.high, t.price), Lower(cur.bar.low, t.price),
                    t.price, sold) \in Bars
          /\ Flat(t.price, sold) \in Bars
      <3>1. cur.bar \in Bars /\ t.price \in Nat /\ sold \in Nat
        BY <1>2, <1>9 DEF TypeOK
      <3> QED
        BY <3>1, FlatIsBar, GrownBar
    <2>2. cur' = [bar |-> IF lastMin = minute
                          THEN Candle(cur.bar.open, Higher(cur.bar.high, t.price),
                                      Lower(cur.bar.low, t.price), t.price, sold)
                          ELSE Flat(t.price, sold),
                  cum |-> cum]
      BY <1>4 DEF process_tick
    <2> HIDE DEF sold
    <2> QED
      BY <1>3, <2>1, <2>2
  <1>11. st' \in StType
    <2>1. st \in StType
      BY DEF TypeOK, StType
    <2>2. _append_limit(st.bars, Completed) \in Kept(Bars, Window)
      <3>1. st.bars \in Seq(Bars) /\ Completed \in Seq(Bars) /\ Window \in Nat \ {0}
        BY <2>1, CompletedIs, ConstantsAssumption DEF StType, Kept
      <3>2. st.bars \o Completed \in Seq(Bars)
        BY <3>1, ConcatProperties
      <3> QED
        BY <3>1, <3>2, LastOfIs DEF _append_limit
    <2>3. /\ Noted(st.tickVols, cum - st.cum) \in Kept(Nat \ {0}, Deque)
          /\ Noted(st.chejan, st.strength) \in Kept(Nat \ {0}, Deque)
      <3>1. /\ st.tickVols \in Kept(Nat \ {0}, Deque) /\ st.chejan \in Kept(Nat \ {0}, Deque)
            /\ cum - st.cum \in Int /\ st.strength \in Int
        BY <1>3, <2>1 DEF StType
      <3> QED
        BY <3>1, NotedKept
    <2>4. Change(t.price) - IndexChange \in Int
      <3>1. PrevClose \in Nat \ {0} /\ IndexChange \in Int
        BY ConstantsAssumption
      <3>2. 1000 * (t.price - PrevClose) \in Int
        BY <1>2, <3>1, SMT
      <3>3. (1000 * (t.price - PrevClose)) \div PrevClose \in Int
        BY <3>1, <3>2, SMT
      <3> QED
        BY <3>1, <3>3, SMT DEF Change
    <2> QED
      BY <1>2, <1>3, <1>4, <2>1, <2>2, <2>3, <2>4 DEF update_price, StType
  <1>12. UNCHANGED <<day, minute, disk, fileDay, loaded>> /\ left' \in 0..Budget
    BY ConstantsAssumption DEF Tick, Arrives, clock, files, TypeOK
  <1> QED
    BY <1>3, <1>6, <1>7, <1>9, <1>10, <1>11, <1>12 DEF TypeOK, StType, Notes, Moments

\* Everything else.
LEMMA StepType ==
    ASSUME TypeOK, InOrder, [Next]_vars
    PROVE  TypeOK'
  <1> USE ConstantsAssumption
  <1>t. st \in StType /\ Budget \in Nat
    BY DEF TypeOK, StType
  <1>n. Now \in Moments
    BY DEF TypeOK, Moments, Now
  <1>1. CASE Tick
    BY <1>1, TickType
  <1>2. ASSUME st' \in StType, OtherUnchanged, \E w \in {1, 2} : Arrives(w) PROVE TypeOK'
    <2>1. left' \in 0..Budget
      BY <1>2 DEF Arrives, TypeOK
    <2>2. UNCHANGED <<day, minute, amount, lastMin, cur, lastCum, disk, fileDay, ticks, loaded>>
      BY <1>2 DEF OtherUnchanged, clock, processor, files, history
    <2> QED
      BY <1>2, <2>1, <2>2 DEF TypeOK, StType, Moments
  <1>3. CASE update_hoga
    <2>1. PICK book \in Books :
            st' = [st EXCEPT !.ask = book.ask, !.bid = book.bid,
                             !.ask1 = Noted(@, book.ask1), !.bid1 = Noted(@, book.bid1),
                             !.bids = LastOf(Append(@, book.bids), Deque)]
      BY <1>3 DEF update_hoga
    <2>2. /\ book.ask \in Nat /\ book.bid \in Nat /\ book.ask1 \in Int /\ book.bid1 \in Int
          /\ book.bids \in Nat
      OBVIOUS
    <2>3. /\ Noted(st.ask1, book.ask1) \in Kept(Nat \ {0}, Deque)
          /\ Noted(st.bid1, book.bid1) \in Kept(Nat \ {0}, Deque)
      BY <1>t, <2>2, NotedKept DEF StType
    <2>4. LastOf(Append(st.bids, book.bids), Deque) \in Kept(Nat, Deque)
      <3>1. st.bids \in Seq(Nat) /\ Deque \in Nat \ {0}
        BY <1>t DEF StType, Kept
      <3>2. Append(st.bids, book.bids) \in Seq(Nat)
        BY <2>2, <3>1, AppendProperties
      <3> QED
        BY <3>1, <3>2, LastOfIs
    <2>5. st' \in StType
      BY <1>t, <2>1, <2>2, <2>3, <2>4 DEF StType
    <2> QED
      BY <1>2, <1>3, <2>5 DEF update_hoga
  <1>4. CASE update_investor
    <2>1. PICK score \in Readings : \E flips \in BOOLEAN :
            st' = [st EXCEPT !.buyers = <<score>>, !.flipAt = IF flips THEN Now ELSE @]
      BY <1>4 DEF update_investor
    <2>2. <<score>> \in {NoReading, <<-1>>, <<0>>, <<1>>}
      OBVIOUS
    <2>3. st' \in StType
      BY <1>t, <1>n, <2>1, <2>2, ZenonT(30) DEF StType
    <2> QED
      BY <1>2, <1>4, <2>3 DEF update_investor
  <1>5. CASE bulk_update
    <2>1. st' \in StType
      BY <1>5, <1>t DEF bulk_update, StType
    <2> QED
      BY <1>2, <1>5, <2>1 DEF bulk_update
  <1>6. CASE Evaluate
    <2>1. get_trend_status(st.bars) \in 0..3
      BY SMT DEF get_trend_status
    <2>2. LastOf(Append(st.trend, get_trend_status(st.bars)), Deque) \in Kept(0..3, Deque)
      <3>1. st.trend \in Seq(0..3) /\ Deque \in Nat \ {0}
        BY <1>t DEF StType, Kept
      <3>2. Append(st.trend, get_trend_status(st.bars)) \in Seq(0..3)
        BY <2>1, <3>1, AppendProperties
      <3> QED
        BY <3>1, <3>2, LastOfIs
    <2>3. st' = [st EXCEPT !.trend = LastOf(Append(@, get_trend_status(st.bars)), Deque)]
      BY <1>6 DEF Evaluate, update_trend_level
    <2>4. st' \in StType
      BY <1>t, <2>2, <2>3 DEF StType
    <2> QED
      BY <1>2, <1>6, <2>4 DEF Evaluate, update_trend_level
  <1>7. ASSUME NEW bars \in Kept(Bars, Window), ResetProcessor(bars), st' \in StType,
               cur' \in [bar : Bars, cum : Nat], lastCum' \in Nat, fileDay' \in Days,
               Arrives(2), UNCHANGED <<clock, amount, disk>>
        PROVE  TypeOK'
    <2>1. lastMin' = NoBar /\ ticks' \in Seq(Notes) /\ loaded' \in Kept(Bars, Window)
      BY <1>7, EmptySeq DEF ResetProcessor
    <2>2. left' \in 0..Budget
      BY <1>7 DEF Arrives, TypeOK
    <2>3. UNCHANGED <<day, minute, amount, disk>>
      BY <1>7 DEF clock
    <2> QED
      BY <1>7, <2>1, <2>2, <2>3 DEF TypeOK, StType, Notes, Moments
  <1>8. CASE set_min_candles_ohlc
    <2>1. PICK bars \in ServerBars :
              /\ st' = [st EXCEPT !.bars = bars]
              /\ ResetProcessor(bars)
              /\ lastCum' = bars[Len(bars)].volume
      BY <1>8 DEF set_min_candles_ohlc
    <2>2. bars \in Kept(Bars, Window) /\ bars # <<>>
      OBVIOUS
    <2>3. lastCum' \in Nat
      <3>1. bars \in Seq(Bars) /\ bars # <<>>
        BY <2>2 DEF Kept
      <3>2. Len(bars) \in 1..Len(bars)
        <4>1. Len(bars) \in Nat \ {0}
          BY <3>1, EmptySeq
        <4> QED
          BY <4>1
      <3>3. bars[Len(bars)] \in Bars
        BY <3>1, <3>2, ElementOfSeq
      <3> QED
        BY <2>1, <3>3 DEF Bars
    <2>4. st' \in StType
      BY <1>t, <2>1, <2>2 DEF StType
    <2>5. cur' \in [bar : Bars, cum : Nat] /\ fileDay' \in Days
          /\ Arrives(2) /\ UNCHANGED <<clock, amount, disk>>
      BY <1>8 DEF set_min_candles_ohlc, files, TypeOK
    <2> QED
      BY <1>7, <2>1, <2>2, <2>3, <2>4, <2>5
  <1>9. CASE cleanup_stale_data
    <2>1. <<>> \in Kept(Bars, Window) /\ NoCandle \in [bar : Bars, cum : Nat]
      BY EmptySeq, FlatIsBar DEF Kept, NoCandle
    <2>2. fileDay' \in Days /\ Arrives(2) /\ UNCHANGED <<clock, amount, disk>>
      BY <1>9 DEF cleanup_stale_data, files, TypeOK
    <2> QED
      BY <1>7, <1>9, <2>1, <2>2, FreshType DEF cleanup_stale_data
  <1>10. CASE Restart
    <2>1. disk[day] \in Kept(Bars, Window) /\ day \in Days
          /\ NoCandle \in [bar : Bars, cum : Nat]
      BY FlatIsBar DEF NoCandle, TypeOK
    <2>2. [Fresh EXCEPT !.bars = disk[day]] \in StType
      BY <2>1, FreshType DEF StType
    <2> QED
      BY <1>7, <1>10, <2>1, <2>2 DEF Restart
  <1>11. CASE save_1min_cache
    <2>1. disk' \in [Days -> Kept(Bars, Window)]
      BY <1>11, <1>t DEF save_1min_cache, TypeOK, StType
    <2> QED
      BY <1>11, <2>1 DEF save_1min_cache, TypeOK, clock, processor, history, Moments
  <1>12. CASE Minute
    <2>1. minute' \in 0..Minutes
      BY <1>12 DEF Minute, TypeOK
    <2> QED
      BY <1>12, <2>1 DEF Minute, TypeOK, processor, files, history, Moments
  <1>13. CASE Overnight
    <2>1. minute' \in 0..Minutes /\ day' \in Days /\ amount' \in Nat
      BY <1>13 DEF Overnight, TypeOK, Days
    <2> QED
      BY <1>13, <2>1 DEF Overnight, TypeOK, processor, files, history, Moments
  <1>14. CASE UNCHANGED vars
    BY <1>14 DEF vars, TypeOK, Moments
  <1> QED
    BY <1>1, <1>3, <1>4, <1>5, <1>6, <1>8, <1>9, <1>10, <1>11, <1>12, <1>13, <1>14
    DEF Next, Arrivals

\* The ticks, before and after one more.
Told(price, cum) == [at |-> Here, price |-> price, cum |-> cum]
Hears(price, cum) ==
    /\ TypeOK /\ InOrder
    /\ price \in Nat \ {0} /\ cum \in Nat
    /\ seen' = Append(seen, Told(price, cum))

\* What the types say of them.
LEMMA TicksAre ==
    ASSUME TypeOK
    PROVE  /\ Len(seen) \in Nat /\ DOMAIN seen = 1..Len(seen)
           /\ seen # <<>> <=> Len(seen) > 0
           /\ Here \in Moments
           /\ \A i \in 1..Len(seen) : /\ seen[i].at \in Moments
                                      /\ seen[i].price \in Nat \ {0}
                                      /\ seen[i].cum \in Nat
  BY SeenIs DEF Notes

\* A tick is written at the end; the others stay where they are.
LEMMA OneMore ==
    ASSUME NEW price, NEW cum, Hears(price, cum)
    PROVE  /\ Len(seen') = Len(seen) + 1 /\ DOMAIN seen' = 1..(Len(seen) + 1)
           /\ \A i \in 1..Len(seen) : seen'[i] = seen[i]
           /\ seen'[Len(seen) + 1] = Told(price, cum)
           /\ seen' # <<>>
  <1>1. seen \in Seq(Notes) /\ Told(price, cum) \in Notes
    BY SeenIs DEF Hears, Notes, Told
  <1>2. seen' \in Seq(Notes)
    BY <1>1, AppendProperties DEF Hears
  <1> QED
    BY <1>1, <1>2, AppendProperties, LenProperties DEF Hears

\* Min and Max give a minute's first and last tick, and the last before it.
LEMMA PlacesOf ==
    ASSUME TypeOK, NEW at
    PROVE  /\ TicksOf(at) \subseteq 1..Len(seen) /\ TicksBefore(at) \subseteq 1..Len(seen)
           /\ TicksOf(at) # {} => /\ Min(TicksOf(at)) \in TicksOf(at)
                                  /\ Max(TicksOf(at)) \in TicksOf(at)
           /\ TicksBefore(at) # {} => Max(TicksBefore(at)) \in TicksBefore(at)
  <1>1. TicksOf(at) \subseteq 1..Len(seen) /\ TicksBefore(at) \subseteq 1..Len(seen)
    BY TicksAre DEF TicksOf, TicksBefore
  <1>2. Len(seen) \in Nat /\ 1..Len(seen) \subseteq 0..Len(seen) /\ 1..Len(seen) \subseteq Nat
    BY TicksAre
  <1>3. /\ TicksOf(at) \subseteq 0..Len(seen) /\ TicksBefore(at) \subseteq 0..Len(seen)
        /\ TicksOf(at) \subseteq Nat
    BY <1>1, <1>2
  <1> QED
    BY <1>1, <1>2, <1>3, LeastOf, LastPlace

\* The bar of a minute that is over stays what it was.
LEMMA OlderBar ==
    ASSUME NEW price, NEW cum, Hears(price, cum), NEW at \in Moments, Earlier(at, Here),
           TicksOf(at) # {} \/ TicksBefore(at) # {}
    PROVE  BarOf(at)' = BarOf(at)
  <1> DEFINE n == Len(seen)
  <1>1. /\ n \in Nat /\ DOMAIN seen = 1..n /\ DOMAIN seen' = 1..(n + 1)
        /\ \A i \in 1..n : seen'[i] = seen[i]
        /\ seen'[n + 1].at = Here
        /\ \A i \in 1..(n + 1) : i \in 1..n \/ i = n + 1
    BY OneMore, TicksAre DEF Hears, Told
  <1>2. at # Here /\ ~Earlier(Here, at)
    BY EarlierOrders, TicksAre DEF Hears
  <1>3. TicksOf(at)' = TicksOf(at)
    BY <1>1, <1>2 DEF TicksOf
  <1>4. TicksBefore(at)' = TicksBefore(at)
    BY <1>1, <1>2 DEF TicksBefore
  <1> DEFINE own == TicksOf(at)
             before == TicksBefore(at)
  <1>5. /\ own \subseteq 1..n /\ before \subseteq 1..n
        /\ own # {} => Min(own) \in own /\ Max(own) \in own
        /\ before # {} => Max(before) \in before
    BY PlacesOf DEF Hears
  <1> HIDE DEF own, before
  <1>6. {seen'[i].price : i \in own} = {seen[i].price : i \in own}
    BY <1>1, <1>5
  <1>7. CASE own = {}
    <2>1. seen'[Max(before)] = seen[Max(before)]
      BY <1>1, <1>5, <1>7 DEF own, before
    <2> QED
      BY <1>3, <1>4, <1>7, <2>1 DEF BarOf, own, before
  <1>8. CASE own # {}
    <2>1. /\ seen'[Min(own)] = seen[Min(own)] /\ seen'[Max(own)] = seen[Max(own)]
          /\ before # {} => seen'[Max(before)] = seen[Max(before)]
      BY <1>1, <1>5, <1>8
    <2>2. StartOf(at)' = StartOf(at)
      BY <1>3, <1>4, <2>1 DEF StartOf, own, before
    <2> QED
      BY <1>3, <1>6, <1>8, <2>1, <2>2 DEF BarOf, own
  <1> QED
    BY <1>7, <1>8

\* The highest and the lowest price of some ticks.
LEMMA Extremes ==
    ASSUME TypeOK, NEW own, own \subseteq 1..Len(seen), own # {}
    PROVE  LET prices == {seen[i].price : i \in own}
           IN  /\ prices \subseteq Nat
               /\ Max(prices) \in prices /\ \A x \in prices : x <= Max(prices)
               /\ Min(prices) \in prices /\ \A x \in prices : Min(prices) <= x
  <1> DEFINE n == Len(seen)
             prices == {seen[i].price : i \in own}
             q == [i \in 1..n |-> IF i \in own THEN seen[i].price ELSE 0]
  <1>1. n \in Nat /\ \A i \in 1..n : seen[i].price \in Nat \ {0}
    BY TicksAre
  <1>2. q \in Seq(Nat) /\ Len(q) = n /\ \A i \in 1..n : q[i] = IF i \in own THEN seen[i].price ELSE 0
    BY <1>1
  <1>3. prices \subseteq Nat /\ prices # {}
    BY <1>1
  <1>4. Min(prices) \in prices /\ \A x \in prices : Min(prices) <= x
    <2> HIDE DEF prices
    <2> QED
      BY <1>3, LeastOf
  <1> HIDE DEF q
  <1>5. /\ Greatest(q) \in Nat /\ \A i \in 1..n : q[i] <= Greatest(q)
        /\ Greatest(q) = 0 \/ \E i \in 1..n : Greatest(q) = q[i]
    BY <1>2, GreatestOf
  <1>6. \A i \in own : i \in 1..n /\ seen[i].price <= Greatest(q)
    BY <1>2, <1>5
  <1>7. \E i \in own : Greatest(q) = seen[i].price
    <2>1. PICK j \in own : TRUE
      OBVIOUS
    <2>2. Greatest(q) # 0
      BY <1>1, <1>5, <1>6, <2>1
    <2>3. PICK i \in 1..n : Greatest(q) = q[i]
      BY <1>5, <2>2
    <2>4. i \in own
      BY <1>2, <2>2, <2>3
    <2> QED
      BY <1>2, <2>3, <2>4
  <1>8. Greatest(q) \in prices /\ \A x \in prices : x <= Greatest(q)
    BY <1>6, <1>7
  <1>9. Max(prices) = Greatest(q)
    <2> HIDE DEF prices
    <2> QED
      BY <1>3, <1>8, LastPlaceIs
  <1> QED
    BY <1>3, <1>4, <1>8, <1>9

\* A single place is the first and the last.
LEMMA OnlyOne == \A m \in Nat : Min({m}) = m /\ Max({m}) = m
  <1> SUFFICES ASSUME NEW m \in Nat PROVE Min({m}) = m /\ Max({m}) = m
    OBVIOUS
  <1>1. {m} \subseteq Nat /\ m \in {m} /\ \A x \in {m} : m <= x /\ x <= m
    OBVIOUS
  <1> QED
    BY <1>1, LeastIs, LastPlaceIs

\* The last of the places of a list.
LEMMA LastNumber == \A n \in Nat \ {0} : Max(1..n) = n
  <1> SUFFICES ASSUME NEW n \in Nat \ {0} PROVE Max(1..n) = n
    OBVIOUS
  <1>1. 1..n \subseteq Nat /\ n \in 1..n /\ \A x \in 1..n : x <= n
    OBVIOUS
  <1> QED
    BY <1>1, LastPlaceIs

\* A tick of the minute in progress.
LEMMA SameBar ==
    ASSUME NEW price, NEW cum, Hears(price, cum), seen # <<>>, LastAt = Here,
           NEW at, at = Here
    PROVE  /\ StartOf(at)' = StartOf(at)
           /\ BarOf(at)' = Candle(BarOf(at).open, Higher(BarOf(at).high, price),
                                  Lower(BarOf(at).low, price), price,
                                  Higher(0, cum - StartOf(at)))
  <1> DEFINE n == Len(seen)
             own == TicksOf(at)
             before == TicksBefore(at)
             prices == {seen[i].price : i \in own}
             after == {seen'[i].price : i \in own \cup {n + 1}}
  <1>1. /\ n \in Nat \ {0} /\ DOMAIN seen = 1..n /\ DOMAIN seen' = 1..(n + 1)
        /\ \A i \in 1..n : seen'[i] = seen[i]
        /\ seen'[n + 1] = Told(price, cum)
        /\ 1..(n + 1) = 1..n \cup {n + 1}
    BY OneMore, TicksAre DEF Hears
  <1>2. seen'[n + 1].at = Here /\ seen'[n + 1].price = price /\ seen'[n + 1].cum = cum
    BY <1>1 DEF Told
  <1>3. TicksOf(at)' = own \cup {n + 1}
    BY <1>1, <1>2 DEF TicksOf
  <1>4. TicksBefore(at)' = before
    <2>1. ~Earlier(Here, at)
      BY EarlierOrders, TicksAre DEF Hears
    <2> QED
      BY <1>1, <1>2, <2>1 DEF TicksBefore
  <1>5. n \in own
    BY <1>1 DEF TicksOf, Hears, InOrder
  <1>6. /\ own \subseteq 1..n /\ before \subseteq 1..n
        /\ before # {} => Max(before) \in before
    BY PlacesOf DEF Hears
  <1> HIDE DEF own, before
  <1>7. Min(own) \in own /\ \A i \in own : Min(own) <= i
    <2>1. own \subseteq Nat
      BY <1>6
    <2> QED
      BY <1>5, <2>1, LeastOf
  <1>8. Min(own \cup {n + 1}) = Min(own) /\ Max(own) = n /\ Max(own \cup {n + 1}) = n + 1
    <2>1. own \subseteq Nat /\ own \cup {n + 1} \subseteq Nat /\ \A i \in own : i \in 1..n
      <3>1. n \in Nat
        BY <1>1
      <3> HIDE DEF n
      <3> QED
        BY ONLY <3>1, <1>6
    <2>2. Max(own) = n
      BY <1>1, <1>5, <2>1, LastPlaceIs
    <2>3. Max(own \cup {n + 1}) = n + 1
      <3>1. \A i \in own \cup {n + 1} : i <= n + 1
        BY <1>1, <2>1
      <3> QED
        BY <2>1, <3>1, LastPlaceIs
    <2>4. Min(own \cup {n + 1}) = Min(own)
      <3>1. Min(own) \in own \cup {n + 1} /\ \A i \in own \cup {n + 1} : Min(own) <= i
        BY <1>1, <1>7, <2>1
      <3> QED
        BY <2>1, <3>1, LeastIs
    <2> QED
      BY <2>2, <2>3, <2>4
  <1>9. StartOf(at)' = StartOf(at)
    <2>1. before # {} => seen'[Max(before)] = seen[Max(before)]
      BY <1>1, <1>6
    <2>2. seen'[Min(own)] = seen[Min(own)]
      BY <1>1, <1>6, <1>7
    <2>3. StartOf(at)' = seen'[IF before = {} THEN Min(own \cup {n + 1}) ELSE Max(before)].cum
      BY <1>3, <1>4 DEF StartOf
    <2>4. StartOf(at) = seen[IF before = {} THEN Min(own) ELSE Max(before)].cum
      BY DEF StartOf, own, before
    <2> QED
      BY <1>8, <2>1, <2>2, <2>3, <2>4
  <1>10. /\ prices \subseteq Nat
         /\ Max(prices) \in prices /\ \A x \in prices : x <= Max(prices)
         /\ Min(prices) \in prices /\ \A x \in prices : Min(prices) <= x
    BY <1>5, <1>6, Extremes DEF Hears
  <1>11. after = prices \cup {price}
    <2>0. \A i \in 1..n : seen'[i] = seen[i]
      BY <1>1
    <2>1. \A i \in own : seen'[i].price = seen[i].price
      BY ONLY <1>6, <2>0
    <2>2. after = {seen'[i].price : i \in own} \cup {seen'[n + 1].price}
      OBVIOUS
    <2>3. {seen'[i].price : i \in own} = prices
      BY <2>1
    <2> QED
      BY <1>2, <2>2, <2>3
  <1>12. price \in Nat
    BY DEF Hears
  <1>a. Max(prices) \in Nat /\ Min(prices) \in Nat
    BY <1>10
  <1> HIDE DEF prices, after
  <1>13. Max(after) = Higher(Max(prices), price)
    <2> DEFINE h == Higher(Max(prices), price)
    <2>1. h \in after
      BY <1>10, <1>11 DEF Higher
    <2>2. after \subseteq Nat
      BY <1>10, <1>11, <1>12
    <2>3. Max(prices) <= h /\ price <= h /\ h \in Nat
      BY <1>a, <1>12 DEF Higher
    <2> HIDE DEF h
    <2>4. ASSUME NEW x \in after PROVE x <= h
      <3>1. x \in Nat
        BY <2>2
      <3>2. CASE x \in prices
        BY <1>10, <1>a, <2>3, <3>1, <3>2
      <3>3. CASE x = price
        BY <2>3, <3>3
      <3> QED
        BY <1>11, <3>2, <3>3
    <2>5. Max(after) = h
      BY <2>1, <2>2, <2>4, LastPlaceIs
    <2> QED
      BY <2>5 DEF h
  <1>14. Min(after) = Lower(Min(prices), price)
    <2> DEFINE l == Lower(Min(prices), price)
    <2>1. l \in after
      BY <1>10, <1>11 DEF Lower
    <2>2. after \subseteq Nat
      BY <1>10, <1>11, <1>12
    <2>3. l <= Min(prices) /\ l <= price /\ l \in Nat
      BY <1>a, <1>12 DEF Lower
    <2> HIDE DEF l
    <2>4. ASSUME NEW x \in after PROVE l <= x
      <3>1. x \in Nat
        BY <2>2
      <3>2. CASE x \in prices
        BY <1>10, <1>a, <2>3, <3>1, <3>2
      <3>3. CASE x = price
        BY <2>3, <3>3
      <3> QED
        BY <1>11, <3>2, <3>3
    <2>5. Min(after) = l
      BY <2>1, <2>2, <2>4, LeastIs
    <2> QED
      BY <2>5 DEF l
  <1>15. BarOf(at) = [ open |-> seen[Min(own)].price, close |-> seen[Max(own)].price,
                       high |-> Max(prices), low |-> Min(prices),
                       volume |-> Higher(0, seen[Max(own)].cum - StartOf(at)) ]
    BY <1>5 DEF BarOf, own, prices
  <1>16. BarOf(at)' = [ open |-> seen'[Min(own)].price, close |-> seen'[n + 1].price,
                        high |-> Max(after), low |-> Min(after),
                        volume |-> Higher(0, seen'[n + 1].cum - StartOf(at)) ]
    BY <1>3, <1>5, <1>8, <1>9 DEF BarOf, after
  <1>17. seen'[Min(own)] = seen[Min(own)]
    BY <1>1, <1>6, <1>7
  <1> QED
    BY <1>2, <1>9, <1>13, <1>14, <1>15, <1>16, <1>17 DEF Candle

\* The first tick of a minute.
LEMMA FirstBar ==
    ASSUME NEW price, NEW cum, Hears(price, cum), LastAt # Here, NEW at, at = Here
    PROVE  LET begin == IF seen = <<>> THEN cum ELSE cur.cum
           IN  /\ StartOf(at)' = begin
               /\ BarOf(at)' = Flat(price, Higher(0, cum - begin))
  <1> DEFINE n == Len(seen)
             begin == IF seen = <<>> THEN cum ELSE cur.cum
  <1>1. /\ n \in Nat /\ DOMAIN seen = 1..n /\ DOMAIN seen' = 1..(n + 1)
        /\ \A i \in 1..n : seen'[i] = seen[i] /\ seen[i].at \in Moments
        /\ seen'[n + 1] = Told(price, cum)
        /\ 1..(n + 1) = 1..n \cup {n + 1}
        /\ Here \in Moments /\ (seen = <<>> <=> n = 0)
    BY OneMore, TicksAre DEF Hears
  <1>2. seen'[n + 1].at = Here /\ seen'[n + 1].price = price /\ seen'[n + 1].cum = cum
    BY <1>1 DEF Told
  <1>3. ASSUME NEW i \in 1..n PROVE Earlier(seen[i].at, Here)
    <2>1. n \in 1..n /\ seen # <<>> /\ LastAt = seen[n].at
      BY <1>1 DEF Hears, InOrder
    <2>2. Earlier(LastAt, Here)
      BY <2>1, GapIs DEF Hears
    <2>0. n \in Nat
      BY <1>1
    <2>3. i = n \/ i < n
      BY <2>0
    <2>4. ~Earlier(seen[n].at, seen[i].at)
      BY <1>1, <2>1, <2>3, EarlierOrders DEF Hears, InOrder
    <2> QED
      BY <1>1, <2>1, <2>2, <2>4, EarlierOrders
  <1>4. \A i \in 1..n : seen[i].at # at
    BY <1>1, <1>3, EarlierOrders
  <1>5. TicksOf(at)' = {n + 1}
    BY <1>1, <1>2, <1>4 DEF TicksOf
  <1>6. TicksBefore(at)' = 1..n
    <2>1. ~Earlier(Here, at)
      BY <1>1, EarlierOrders
    <2> QED
      BY <1>1, <1>2, <1>3, <2>1 DEF TicksBefore
  <1>7. Min({n + 1}) = n + 1 /\ Max({n + 1}) = n + 1
    <2>1. n + 1 \in Nat
      BY <1>1
    <2> QED
      BY ONLY <2>1, OnlyOne
  <1>8. n > 0 => Max(1..n) = n /\ seen[n].cum = cur.cum
    <2>1. n > 0 => Max(1..n) = n
      BY <1>1, LastNumber
    <2> QED
      BY <1>1, <2>1 DEF Hears, InOrder
  <1>9. StartOf(at)' = begin
    <2>1. StartOf(at)' = seen'[IF 1..n = {} THEN n + 1 ELSE Max(1..n)].cum
      BY <1>5, <1>6, <1>7 DEF StartOf
    <2>2. CASE n = 0
      BY <1>1, <1>2, <2>1, <2>2
    <2>3. CASE n > 0
      BY <1>1, <1>8, <2>1, <2>3
    <2> QED
      BY <1>1, <2>2, <2>3
  <1>10. {seen'[i].price : i \in {n + 1}} = {price}
    BY <1>2
  <1>11. Max({price}) = price /\ Min({price}) = price
    BY OnlyOne DEF Hears
  <1> HIDE DEF begin
  <1>12. BarOf(at)' = [ open |-> price, close |-> price, high |-> price, low |-> price,
                        volume |-> Higher(0, cum - begin) ]
    BY <1>2, <1>5, <1>7, <1>9, <1>10, <1>11 DEF BarOf
  <1> QED
    BY <1>9, <1>12 DEF Flat, Candle, begin

\* A minute without ticks since the last one.
LEMMA QuietBar ==
    ASSUME NEW price, NEW cum, Hears(price, cum), seen # <<>>, NEW at \in Moments,
           Earlier(LastAt, at), Earlier(at, Here)
    PROVE  BarOf(at)' = Flat(seen[Len(seen)].price, 0)
  <1> DEFINE n == Len(seen)
  <1>1. /\ n \in Nat \ {0} /\ DOMAIN seen = 1..n
        /\ \A i \in 1..n : seen[i].at \in Moments
        /\ LastAt = seen[n].at
    BY TicksAre DEF Hears, InOrder
  <1>2. ASSUME NEW i \in 1..n PROVE Earlier(seen[i].at, at)
    <2>0. n \in Nat \ {0}
      BY <1>1
    <2>1. i = n \/ i < n
      BY <2>0
    <2>2. n \in 1..n /\ ~Earlier(seen[n].at, seen[i].at)
      <3>1. n \in 1..n
        BY <2>0
      <3> QED
        BY <1>1, <2>1, <3>1, EarlierOrders DEF Hears, InOrder
    <2> QED
      BY <1>1, <2>2, EarlierOrders
  <1>3. TicksOf(at) = {} /\ TicksBefore(at) = 1..n
    BY <1>1, <1>2, EarlierOrders DEF TicksOf, TicksBefore
  <1>4. Max(1..n) = n
    BY <1>1, LastNumber
  <1>5. BarOf(at) = Flat(seen[n].price, 0)
    BY <1>3, <1>4 DEF BarOf
  <1>6. TicksBefore(at) # {}
    BY <1>1, <1>3
  <1> QED
    BY <1>5, <1>6, OlderBar

\* The minute in progress closes where the last tick traded.
LEMMA LastClose ==
    ASSUME TypeOK, InOrder, seen # <<>>
    PROVE  BarOf(LastAt).close = seen[Len(seen)].price
  <1> DEFINE n == Len(seen)
             own == TicksOf(LastAt)
  <1>1. n \in Nat \ {0} /\ DOMAIN seen = 1..n /\ LastAt = seen[n].at
    BY TicksAre DEF InOrder
  <1>2. n \in own /\ own \subseteq 1..n
    BY <1>1 DEF TicksOf
  <1>3. Max(own) = n
    <2>1. own \subseteq Nat /\ \A i \in own : i <= n
      BY <1>1, <1>2
    <2> HIDE DEF own
    <2> QED
      BY <1>2, <2>1, LastPlaceIs
  <1> QED
    BY <1>2, <1>3 DEF BarOf

-----------------------------------------------------------------------------
\* The minutes from the first tick of a day to its last.
LEMMA DayIs ==
    ASSUME TypeOK, InOrder, NEW d \in {1, 2}
    PROVE  /\ TicksOn(d) \subseteq 1..Len(seen)
           /\ MinutesOf(d) \in Seq(Moments)
           /\ TicksOn(d) = {} => MinutesOf(d) = <<>>
           /\ TicksOn(d) # {} =>
                 LET f == seen[Min(TicksOn(d))].at[2]
                     l == seen[Max(TicksOn(d))].at[2]
                 IN  /\ Min(TicksOn(d)) \in TicksOn(d) /\ Max(TicksOn(d)) \in TicksOn(d)
                     /\ f \in 0..Minutes /\ l \in f..Minutes
                     /\ Len(MinutesOf(d)) = l - f + 1
                     /\ \A k \in 1..(l - f + 1) : MinutesOf(d)[k] = <<d, f + k - 1>>
  <1> DEFINE n == Len(seen)
             own == TicksOn(d)
             f == seen[Min(own)].at[2]
             l == seen[Max(own)].at[2]
  <1>1. /\ n \in Nat /\ DOMAIN seen = 1..n
        /\ \A i \in 1..n : seen[i].at \in Moments
    BY TicksAre
  <1>2. own \subseteq 1..n /\ \A i \in own : seen[i].at[1] = d
    BY <1>1 DEF TicksOn
  <1>3. CASE own = {}
    <2>1. MinutesOf(d) = <<>>
      BY <1>3 DEF MinutesOf
    <2> QED
      BY <1>2, <1>3, <2>1, EmptySeq
  <1>4. CASE own # {}
    <2>a. MinutesOf(d) = [k \in 1..(l - f + 1) |-> <<d, f + k - 1>>]
      BY <1>4 DEF MinutesOf
    <2> HIDE DEF own
    <2>1. own \subseteq Nat /\ own \subseteq 0..n
      BY <1>1, <1>2
    <2>2. Min(own) \in own /\ Max(own) \in own /\ Min(own) <= Max(own)
      BY <1>1, <1>4, <2>1, LeastOf, LastPlace
    <2>3. f \in 0..Minutes /\ l \in 0..Minutes /\ Minutes \in Nat
      BY <1>1, <1>2, <2>2, MomentIs, ConstantsAssumption
    <2>4. f <= l
      <3>1. Min(own) \in 1..n /\ Max(own) \in 1..n
        BY <1>2, <2>2
      <3>2. CASE Min(own) = Max(own)
        BY <2>3, <3>2
      <3>3. CASE Min(own) < Max(own)
        <4>1. ~Earlier(seen[Max(own)].at, seen[Min(own)].at)
          BY <1>1, <3>1, <3>3 DEF InOrder
        <4>2. seen[Max(own)].at[1] = d /\ seen[Min(own)].at[1] = d
          BY <1>2, <2>2
        <4> QED
          BY <2>3, <4>1, <4>2 DEF Earlier
      <3> QED
        BY <2>2, <3>1, <3>2, <3>3
    <2>5. l \in f..Minutes
      BY <2>3, <2>4
    <2> HIDE DEF f, l
    <2>6. \A k \in 1..(l - f + 1) : <<d, f + k - 1>> \in Moments
      BY <2>3, <2>5 DEF Moments, Days
    <2>7. l - f + 1 \in Nat
      BY <2>3, <2>5
    <2>8. MinutesOf(d) \in Seq(Moments) /\ Len(MinutesOf(d)) = l - f + 1
      BY <2>a, <2>6, <2>7
    <2>9. \A k \in 1..(l - f + 1) : MinutesOf(d)[k] = <<d, f + k - 1>>
      BY <2>a
    <2> QED
      BY <1>2, <1>4, <2>2, <2>3, <2>5, <2>8, <2>9 DEF own, f, l
  <1> QED
    BY <1>3, <1>4

\* The last tick is on the last day that has one.
LEMMA LastDay ==
    ASSUME TypeOK, InOrder, seen # <<>>
    PROVE  /\ LastAt[1] \in {1, 2} /\ LastAt[2] \in 0..Minutes
           /\ LastAt = <<LastAt[1], LastAt[2]>>
           /\ Len(seen) \in TicksOn(LastAt[1]) /\ Max(TicksOn(LastAt[1])) = Len(seen)
           /\ seen[Len(seen)].at = LastAt
           /\ \A d \in {1, 2} : d > LastAt[1] => TicksOn(d) = {}
           /\ LastAt[1] <= Turn
  <1> DEFINE n == Len(seen)
             own == TicksOn(LastAt[1])
  <1>1. /\ n \in Nat \ {0} /\ DOMAIN seen = 1..n
        /\ \A i \in 1..n : seen[i].at \in Moments
        /\ seen[n].at = LastAt /\ n \in 1..n
    BY TicksAre DEF InOrder
  <1>2. LastAt[1] \in {1, 2} /\ LastAt[2] \in 0..Minutes /\ LastAt = <<LastAt[1], LastAt[2]>>
    BY <1>1, MomentIs
  <1>3. n \in own /\ own \subseteq 1..n
    BY <1>1 DEF TicksOn
  <1>4. Max(own) = n
    <2>1. own \subseteq Nat /\ \A i \in own : i <= n
      BY <1>1, <1>3
    <2> HIDE DEF own
    <2> QED
      BY <1>3, <2>1, LastPlaceIs
  <1>5. ASSUME NEW d \in {1, 2}, d > LastAt[1], NEW i \in TicksOn(d) PROVE FALSE
    <2>1. i \in 1..n /\ seen[i].at[1] = d
      BY <1>1 DEF TicksOn
    <2>2. Earlier(seen[n].at, seen[i].at)
      BY <1>1, <1>2, <1>5, <2>1 DEF Earlier
    <2>3. i # n
      BY <1>1, <1>2, <1>5, <2>1
    <2>4. i < n
      <3>1. n \in Nat
        BY <1>1
      <3> QED
        BY <2>1, <2>3, <3>1
    <2> QED
      BY <1>1, <2>1, <2>2, <2>4 DEF InOrder
  <1>6. LastAt[1] <= Turn
    <2>1. ~Earlier(Here, LastAt)
      BY <1>1 DEF InOrder
    <2>2. Here[1] = Turn /\ Turn \in {1, 2}
      BY SeenIs DEF Here
    <2> QED
      BY <1>2, <2>1, <2>2 DEF Earlier
  <1> QED
    BY <1>1, <1>2, <1>3, <1>4, <1>5, <1>6

\* Without ticks no minute is covered.
LEMMA NoTicks ==
    ASSUME TypeOK, seen = <<>>
    PROVE  CoveredMinutes = <<>> /\ \A d \in {1, 2} : TicksOn(d) = {} /\ MinutesOf(d) = <<>>
  <1>1. \A d \in {1, 2} : TicksOn(d) = {} /\ MinutesOf(d) = <<>>
    BY TicksAre DEF TicksOn, MinutesOf
  <1>2. <<>> \o <<>> = <<>>
    BY EmptySeq, ConcatEmptySeq
  <1> QED
    BY <1>1, <1>2 DEF CoveredMinutes

\* All minutes until the last tick's are covered, and each has a tick or comes
\* after one.
LEMMA CoveredIs ==
    ASSUME TypeOK, InOrder, seen # <<>>
    PROVE  /\ CoveredMinutes \in Seq(Moments) /\ Len(CoveredMinutes) \in Nat \ {0}
           /\ CoveredMinutes[Len(CoveredMinutes)] = LastAt
           /\ \A k \in 1..(Len(CoveredMinutes) - 1) : Earlier(CoveredMinutes[k], LastAt)
           /\ \A k \in 1..Len(CoveredMinutes) :
                 TicksOf(CoveredMinutes[k]) # {} \/ TicksBefore(CoveredMinutes[k]) # {}
  <1>0. Minutes \in Nat
    BY ConstantsAssumption
  <1>1. ASSUME NEW d \in {1, 2}, NEW k \in 1..Len(MinutesOf(d))
        PROVE  /\ MinutesOf(d)[k][1] = d
               /\ TicksOf(MinutesOf(d)[k]) # {} \/ TicksBefore(MinutesOf(d)[k]) # {}
    <2> DEFINE own == TicksOn(d)
               f == seen[Min(own)].at[2]
               l == seen[Max(own)].at[2]
    <2>1. own # {}
      BY <1>1, DayIs, EmptySeq, SMTT(30)
    <2>2. /\ Min(own) \in own /\ own \subseteq 1..Len(seen)
          /\ f \in 0..Minutes /\ l \in f..Minutes
          /\ Len(MinutesOf(d)) = l - f + 1
          /\ \A i \in 1..(l - f + 1) : MinutesOf(d)[i] = <<d, f + i - 1>>
      BY <2>1, DayIs
    <2>3. Min(own) \in DOMAIN seen /\ seen[Min(own)].at = <<d, f>>
      BY <2>2, TicksAre, MomentIs DEF TicksOn
    <2>4. MinutesOf(d)[k] = <<d, f + k - 1>>
      BY <2>2
    <2>5. CASE k = 1
      <3>1. MinutesOf(d)[k] = <<d, f>>
        BY <2>2, <2>4, <2>5
      <3> QED
        BY <2>3, <3>1 DEF TicksOf
    <2>6. CASE k # 1
      <3>1. Earlier(<<d, f>>, <<d, f + k - 1>>)
        BY <1>0, <2>2, <2>6 DEF Earlier
      <3> QED
        BY <2>3, <2>4, <3>1 DEF TicksBefore
    <2> QED
      BY <2>4, <2>5, <2>6
  <1>2. MinutesOf(1) \in Seq(Moments) /\ MinutesOf(2) \in Seq(Moments)
    BY DayIs
  <1>3. /\ LastAt[1] \in {1, 2} /\ LastAt[2] \in 0..Minutes
        /\ LastAt = <<LastAt[1], LastAt[2]>>
        /\ TicksOn(LastAt[1]) # {} /\ seen[Max(TicksOn(LastAt[1]))].at = LastAt
        /\ \A d \in {1, 2} : d > LastAt[1] => TicksOn(d) = {}
    BY LastDay
  <1>4. /\ Len(MinutesOf(LastAt[1])) \in Nat \ {0}
        /\ MinutesOf(LastAt[1])[Len(MinutesOf(LastAt[1]))] = LastAt
        /\ \A k \in 1..(Len(MinutesOf(LastAt[1])) - 1) :
              Earlier(MinutesOf(LastAt[1])[k], LastAt)
    <2> DEFINE d == LastAt[1]
               own == TicksOn(d)
               f == seen[Min(own)].at[2]
               l == seen[Max(own)].at[2]
    <2>1. /\ f \in 0..Minutes /\ l \in f..Minutes
          /\ Len(MinutesOf(d)) = l - f + 1
          /\ \A i \in 1..(l - f + 1) : MinutesOf(d)[i] = <<d, f + i - 1>>
      BY <1>3, DayIs
    <2>2. l = LastAt[2]
      BY <1>3
    <2> HIDE DEF f, l
    <2>3. Len(MinutesOf(d)) \in Nat \ {0} /\ l - f + 1 \in 1..(l - f + 1) /\ f + (l - f + 1) - 1 = l
      BY <1>0, <2>1
    <2>4. MinutesOf(d)[Len(MinutesOf(d))] = LastAt
      BY <1>3, <2>1, <2>2, <2>3
    <2>5. ASSUME NEW k \in 1..(Len(MinutesOf(d)) - 1) PROVE Earlier(MinutesOf(d)[k], LastAt)
      <3>1. k \in 1..(l - f + 1) /\ f + k - 1 < l
        BY <1>0, <2>1
      <3>2. MinutesOf(d)[k] = <<d, f + k - 1>>
        BY <2>1, <3>1
      <3> QED
        BY <2>2, <3>1, <3>2 DEF Earlier
    <2> QED
      BY <2>3, <2>4, <2>5
  <1>5. CASE LastAt[1] = 1
    <2>1. MinutesOf(2) = <<>>
      BY <1>3, <1>5, DayIs
    <2>2. CoveredMinutes = MinutesOf(1)
      BY <1>2, <2>1, ConcatEmptySeq DEF CoveredMinutes
    <2> QED
      BY <1>1, <1>2, <1>4, <1>5, <2>2
  <1>6. CASE LastAt[1] = 2
    <2> DEFINE a == MinutesOf(1)
               b == MinutesOf(2)
    <2>1. Len(a) \in Nat /\ Len(b) \in Nat \ {0}
      BY <1>2, <1>4, <1>6, LenProperties
    <2>2. /\ CoveredMinutes \in Seq(Moments) /\ Len(CoveredMinutes) = Len(a) + Len(b)
          /\ \A i \in 1..(Len(a) + Len(b)) :
                CoveredMinutes[i] = IF i <= Len(a) THEN a[i] ELSE b[i - Len(a)]
      BY <1>2, ConcatProperties DEF CoveredMinutes
    <2>3. \A i \in 1..Len(a) : CoveredMinutes[i] = a[i]
      BY <2>1, <2>2
    <2>4. \A i \in (Len(a) + 1)..(Len(a) + Len(b)) :
             i - Len(a) \in 1..Len(b) /\ CoveredMinutes[i] = b[i - Len(a)]
      BY <2>1, <2>2
    <2>5. CoveredMinutes[Len(a) + Len(b)] = LastAt
      <3>1. Len(a) + Len(b) \in (Len(a) + 1)..(Len(a) + Len(b))
            /\ Len(a) + Len(b) - Len(a) = Len(b)
        BY <2>1
      <3> QED
        BY <1>4, <1>6, <2>4, <3>1
    <2>6. ASSUME NEW k \in 1..(Len(a) + Len(b) - 1) PROVE Earlier(CoveredMinutes[k], LastAt)
      <3>1. CASE k <= Len(a)
        <4>1. k \in 1..Len(a)
          BY <2>1, <3>1
        <4>2. CoveredMinutes[k][1] = 1
          BY <1>1, <2>3, <4>1
        <4> QED
          BY <1>6, <4>2 DEF Earlier
      <3>2. CASE ~(k <= Len(a))
        <4>1. k \in (Len(a) + 1)..(Len(a) + Len(b)) /\ k - Len(a) \in 1..(Len(b) - 1)
          BY <2>1, <3>2
        <4> QED
          BY <1>4, <1>6, <2>4, <4>1
      <3> QED
        BY <3>1, <3>2
    <2>7. ASSUME NEW k \in 1..(Len(a) + Len(b))
          PROVE  TicksOf(CoveredMinutes[k]) # {} \/ TicksBefore(CoveredMinutes[k]) # {}
      <3>1. CASE k <= Len(a)
        <4>1. k \in 1..Len(a)
          BY <2>1, <3>1
        <4> QED
          BY <1>1, <2>3, <4>1
      <3>2. CASE ~(k <= Len(a))
        <4>1. k \in (Len(a) + 1)..(Len(a) + Len(b))
          BY <2>1, <3>2
        <4> QED
          BY <1>1, <2>4, <4>1
      <3> QED
        BY <3>1, <3>2
    <2> HIDE DEF a, b
    <2>8. Len(a) + Len(b) \in Nat \ {0}
      BY <2>1
    <2> QED
      BY <2>2, <2>5, <2>6, <2>7, <2>8
  <1> QED
    BY <1>3, <1>5, <1>6

\* What a tick adds to the minutes: the quiet ones and its own, if it is a new one.
Added ==
    IF LastAt = NoTick THEN <<Here>>
    ELSE IF LastAt = Here THEN <<>>
    ELSE [k \in 1..(GapMinutes + 1) |-> <<Turn, minute - GapMinutes - 1 + k>>]

\* The minutes a tick adds: none of them before the last one, no gap between them.
LEMMA AddedIs ==
    ASSUME TypeOK, InOrder
    PROVE  /\ Added \in Seq(Moments)
           /\ LastAt = NoTick => Len(Added) = 1 /\ Added[1] = Here
           /\ LastAt \notin {NoTick, Here} =>
                 /\ GapMinutes \in Nat /\ Len(Added) = GapMinutes + 1
                 /\ Added[GapMinutes + 1] = Here
                 /\ \A k \in 1..(GapMinutes + 1) :
                       Added[k] = <<Turn, minute - GapMinutes - 1 + k>>
                 /\ \A k \in 1..GapMinutes :
                       Earlier(LastAt, Added[k]) /\ Earlier(Added[k], Here)
  <1>1. Turn \in {1, 2} /\ minute \in 0..Minutes /\ Minutes \in Nat /\ Here \in Moments
    BY SeenIs, ConstantsAssumption DEF TypeOK
  <1>2. CASE LastAt = NoTick
    BY <1>1, <1>2 DEF Added
  <1>3. CASE LastAt = Here
    <2>1. Added = <<>> /\ LastAt # NoTick
      BY <1>1, <1>3, MomentIs DEF Added
    <2> QED
      BY <1>3, <2>1, EmptySeq
  <1>4. CASE LastAt \notin {NoTick, Here}
    <2> DEFINE g == GapMinutes
    <2>1. g \in Nat /\ Earlier(LastAt, Here) /\ LastAt \in Moments
      BY <1>4, GapIs DEF InOrder
    <2>2. LastAt[1] \in {1, 2} /\ LastAt[2] \in 0..Minutes
      BY <2>1, MomentIs
    <2>3. g = IF LastAt[1] = Turn THEN minute - LastAt[2] - 1 ELSE 0
      BY <1>4, GapIs DEF InOrder
    <2>4. Added = [k \in 1..(g + 1) |-> <<Turn, minute - g - 1 + k>>]
      BY <1>4 DEF Added
    <2> HIDE DEF g
    <2>5. \A k \in 1..(g + 1) : minute - g - 1 + k \in 0..Minutes
      BY <1>1, <2>1, <2>2, <2>3
    <2>6. \A k \in 1..(g + 1) : <<Turn, minute - g - 1 + k>> \in Moments
      BY <1>1, <2>5 DEF Moments, Days
    <2>7. g + 1 \in Nat /\ g + 1 \in 1..(g + 1) /\ minute - g - 1 + (g + 1) = minute
      BY <1>1, <2>1
    <2>8. Added \in Seq(Moments) /\ Len(Added) = g + 1
          /\ \A k \in 1..(g + 1) : Added[k] = <<Turn, minute - g - 1 + k>>
      BY <2>4, <2>6, <2>7
    <2>9. Added[g + 1] = Here
      BY <2>7, <2>8 DEF Here
    <2>10. ASSUME NEW k \in 1..g PROVE Earlier(LastAt, Added[k]) /\ Earlier(Added[k], Here)
      <3>1. k \in 1..(g + 1) /\ LastAt[1] = Turn /\ g = minute - LastAt[2] - 1
        BY <2>1, <2>3
      <3>2. Added[k] = <<Turn, minute - g - 1 + k>>
        BY <2>8, <3>1
      <3>3. minute - g - 1 + k < minute /\ LastAt[2] < minute - g - 1 + k
        BY <1>1, <2>1, <2>2, <3>1
      <3>4. Earlier(Added[k], Here)
        BY <3>2, <3>3 DEF Earlier, Here
      <3>5. Earlier(LastAt, Added[k])
        BY <3>1, <3>2, <3>3 DEF Earlier
      <3> QED
        BY <3>4, <3>5
    <2> QED
      BY <1>4, <2>1, <2>8, <2>9, <2>10 DEF g
  <1> QED
    BY <1>2, <1>3, <1>4

\* A tick leaves the minutes of the other day and adds to those of its own.
LEMMA OtherDay ==
    ASSUME NEW price, NEW cum, Hears(price, cum), NEW d \in {1, 2}, d # Turn
    PROVE  MinutesOf(d)' = MinutesOf(d)
  <1> DEFINE n == Len(seen)
             own == TicksOn(d)
  <1>1. /\ n \in Nat /\ DOMAIN seen = 1..n /\ DOMAIN seen' = 1..(n + 1)
        /\ \A i \in 1..n : seen'[i] = seen[i]
        /\ seen'[n + 1].at = Here
        /\ 1..(n + 1) = 1..n \cup {n + 1}
    BY OneMore, TicksAre DEF Hears, Told
  <1>2. TicksOn(d)' = own
    BY <1>1 DEF TicksOn, Here
  <1>3. own # {} => Min(own) \in 1..n /\ Max(own) \in 1..n
    BY DayIs DEF Hears
  <1> HIDE DEF own
  <1>4. own # {} => seen'[Min(own)] = seen[Min(own)] /\ seen'[Max(own)] = seen[Max(own)]
    BY <1>1, <1>3
  <1> QED
    BY <1>2, <1>4 DEF MinutesOf, own

\* A tick lengthens the minutes of its own day by those.
LEMMA DayGrows ==
    ASSUME NEW price, NEW cum, Hears(price, cum), NEW d, d = Turn
    PROVE  MinutesOf(d)' = MinutesOf(d) \o Added
  <1> DEFINE n == Len(seen)
             own == TicksOn(d)
             f == seen[Min(own)].at[2]
             l == seen[Max(own)].at[2]
             m == MinutesOf(d)
  <1>1. /\ n \in Nat /\ DOMAIN seen = 1..n /\ DOMAIN seen' = 1..(n + 1)
        /\ \A i \in 1..n : seen'[i] = seen[i]
        /\ seen'[n + 1].at = Here
        /\ 1..(n + 1) = 1..n \cup {n + 1}
        /\ n + 1 \in Nat
        /\ (seen = <<>> <=> n = 0)
        /\ (seen = <<>> <=> LastAt = NoTick)
    BY OneMore, TicksAre DEF Hears, Told, InOrder
  <1>2. Turn \in {1, 2} /\ minute \in 0..Minutes /\ Minutes \in Nat
        /\ Here[1] = Turn /\ Here[2] = minute
    BY SeenIs, ConstantsAssumption DEF Hears, Here, TypeOK
  <1>3. TicksOn(d)' = own \cup {n + 1}
    BY <1>1, <1>2 DEF TicksOn
  <1>4. Added \in Seq(Moments) /\ m \in Seq(Moments)
    BY <1>2, AddedIs, DayIs DEF Hears
  <1>5. CASE own = {}
    <2>1. m = <<>>
      BY <1>2, <1>5, DayIs DEF Hears
    <2>2. TicksOn(d)' = {n + 1} /\ Min({n + 1}) = n + 1 /\ Max({n + 1}) = n + 1
      <3>1. Min({n + 1}) = n + 1 /\ Max({n + 1}) = n + 1
        BY ONLY <1>1, OnlyOne
      <3> QED
        BY <1>3, <1>5, <3>1
    <2>3. MinutesOf(d)' = [k \in 1..(minute - minute + 1) |-> <<d, minute + k - 1>>]
      BY <1>1, <1>2, <2>2 DEF MinutesOf
    <2>4. MinutesOf(d)' = <<Here>>
      <3>1. minute - minute + 1 = 1 /\ \A k \in 1..1 : minute + k - 1 = minute
        BY <1>2
      <3>2. MinutesOf(d)' = [k \in 1..1 |-> Here]
        BY <2>3, <3>1 DEF Here
      <3> QED
        BY <3>2
    <2>5. Added = <<Here>>
      <3>1. CASE seen = <<>>
        BY <1>1, <3>1 DEF Added
      <3>2. CASE seen # <<>>
        <4>1. LastAt[1] # Turn
          BY <1>5, <3>2, LastDay DEF Hears
        <4>2. LastAt # Here /\ LastAt # NoTick /\ GapMinutes = 0
          BY <1>1, <1>2, <3>2, <4>1, GapIs DEF Hears, Here
        <4>3. Len(Added) = 1 /\ Added[1] = Here
          <5>1. /\ Len(Added) = GapMinutes + 1 /\ Added[GapMinutes + 1] = Here
            BY <4>2, AddedIs DEF Hears
          <5> QED
            BY <4>2, <5>1
        <4>4. <<Here>> \in Seq(Moments) /\ Len(<<Here>>) = 1 /\ <<Here>>[1] = Here
          BY TicksAre DEF Hears
        <4>5. \A i \in 1..Len(Added) : Added[i] = <<Here>>[i]
          BY <4>3, <4>4
        <4> QED
          BY <1>4, <4>3, <4>4, <4>5, SeqEqual
      <3> QED
        BY <3>1, <3>2
    <2> QED
      BY <1>4, <2>1, <2>4, <2>5, ConcatEmptySeq
  <1>6. CASE own # {}
    <2>1. /\ Min(own) \in own /\ own \subseteq 1..n
          /\ f \in 0..Minutes /\ l \in f..Minutes
          /\ Len(m) = l - f + 1
          /\ \A k \in 1..(l - f + 1) : m[k] = <<d, f + k - 1>>
      BY <1>2, <1>6, DayIs DEF Hears
    <2>2. seen # <<>>
      BY <1>1, <1>6, <2>1
    <2>3. /\ LastAt[1] = d /\ LastAt[2] = l /\ LastAt = <<d, l>>
      <3>1. LastAt[1] \in {1, 2} /\ LastAt = <<LastAt[1], LastAt[2]>>
            /\ seen[Len(seen)].at = LastAt
            /\ Max(TicksOn(LastAt[1])) = Len(seen)
            /\ \A e \in {1, 2} : e > LastAt[1] => TicksOn(e) = {}
            /\ LastAt[1] <= Turn
        BY <2>2, LastDay DEF Hears
      <3>2. ~(d > LastAt[1])
        BY <1>2, <1>6, <3>1
      <3>a. LastAt[1] \in {1, 2} /\ LastAt[1] <= Turn
        BY <2>2, LastDay DEF Hears
      <3>3. LastAt[1] = d
        BY <1>2, <3>2, <3>a
      <3> QED
        BY <3>1, <3>3
    <2>4. Min(own \cup {n + 1}) = Min(own) /\ Max(own \cup {n + 1}) = n + 1
      <3> HIDE DEF own, f, l, m
      <3>0. n \in Nat
        BY <1>1
      <3> HIDE DEF n
      <3>1. own \subseteq Nat /\ own \cup {n + 1} \subseteq Nat /\ \A i \in own : i <= n
        BY ONLY <3>0, <2>1
      <3>2. \A i \in own : Min(own) <= i
        BY <2>1, <3>1, LeastOf
      <3>3. Min(own) \in Nat /\ Min(own) <= n
        BY <2>1, <3>1
      <3>4. \A i \in own \cup {n + 1} : i <= n + 1 /\ Min(own) <= i
        BY ONLY <3>0, <3>1, <3>2, <3>3
      <3> QED
        BY <2>1, <3>1, <3>4, LeastIs, LastPlaceIs
    <2>5. MinutesOf(d)' = [k \in 1..(minute - f + 1) |-> <<d, f + k - 1>>]
      <3>1. seen'[Min(own)] = seen[Min(own)]
        BY <1>1, <2>1
      <3>2. MinutesOf(d)' = [k \in 1..(seen'[n + 1].at[2] - seen'[Min(own)].at[2] + 1) |->
                                <<d, seen'[Min(own)].at[2] + k - 1>>]
        BY <1>3, <2>4 DEF MinutesOf
      <3> QED
        BY <1>1, <1>2, <3>1, <3>2
    <2> HIDE DEF f, l, m
    <2>6. CASE LastAt = Here
      <3>1. l = minute /\ Added = <<>>
        <4>1. l = minute
          BY <1>2, <2>3, <2>6
        <4>2. LastAt # NoTick
          BY <1>1, <2>2
        <4> QED
          BY <2>6, <4>1, <4>2 DEF Added
      <3>2. m = [k \in 1..(minute - f + 1) |-> <<d, f + k - 1>>]
        <4>1. m = [k \in 1..(l - f + 1) |-> <<d, f + k - 1>>]
          BY <1>6 DEF MinutesOf, f, l, m
        <4> QED
          BY <3>1, <4>1
      <3> QED
        BY <1>4, <2>5, <3>1, <3>2, ConcatEmptySeq DEF m
    <2>7. CASE LastAt # Here
      <3> DEFINE g == GapMinutes
      <3>1. /\ g \in Nat /\ Len(Added) = g + 1
            /\ \A k \in 1..(g + 1) : Added[k] = <<Turn, minute - g - 1 + k>>
        BY <1>1, <2>2, <2>7, AddedIs DEF Hears
      <3>2. g = minute - l - 1
        <4>1. g = IF LastAt[1] = Turn THEN minute - LastAt[2] - 1 ELSE 0
          BY <2>2, <2>7, GapIs DEF Hears
        <4> HIDE DEF g
        <4> QED
          BY <2>3, <4>1
      <3> HIDE DEF g
      <3> DEFINE new == [k \in 1..(minute - f + 1) |-> <<d, f + k - 1>>]
      <3>3. \A k \in 1..(minute - f + 1) : <<d, f + k - 1>> \in Moments
        BY <1>2, <2>1 DEF Moments, Days
      <3>4. minute - f + 1 \in Nat
        BY <1>2, <2>1, <3>1, <3>2
      <3>5. new \in Seq(Moments) /\ Len(new) = minute - f + 1
            /\ \A k \in 1..(minute - f + 1) : new[k] = <<d, f + k - 1>>
        BY <3>3, <3>4
      <3>6. /\ m \o Added \in Seq(Moments) /\ Len(m \o Added) = Len(m) + Len(Added)
            /\ \A i \in 1..(Len(m) + Len(Added)) : (m \o Added)[i]
                  = IF i <= Len(m) THEN m[i] ELSE Added[i - Len(m)]
        BY <1>4, ConcatProperties
      <3>7. Len(m) + Len(Added) = minute - f + 1
        BY <1>2, <2>1, <3>1, <3>2
      <3> HIDE DEF new
      <3>8. ASSUME NEW i \in 1..(minute - f + 1) PROVE new[i] = (m \o Added)[i]
        <4>1. CASE i <= Len(m)
          <5>1. i \in 1..(l - f + 1)
            BY <2>1, <4>1
          <5> QED
            BY <2>1, <3>5, <3>6, <3>7, <4>1, <5>1
        <4>2. CASE ~(i <= Len(m))
          <5>1. i - Len(m) \in 1..(g + 1) /\ minute - g - 1 + (i - Len(m)) = f + i - 1
            BY <1>2, <2>1, <3>1, <3>2, <3>7, <4>2
          <5> QED
            BY <3>1, <3>5, <3>6, <3>7, <4>2, <5>1
        <4> QED
          BY <4>1, <4>2
      <3>9. new = m \o Added
        BY <3>5, <3>6, <3>7, <3>8, SeqEqual
      <3> QED
        BY <2>5, <3>9 DEF new, m
    <2> QED
      BY <2>6, <2>7
  <1> QED
    BY <1>5, <1>6

\* And so the covered minutes.
LEMMA CoveredGrows ==
    ASSUME NEW price, NEW cum, Hears(price, cum)
    PROVE  CoveredMinutes' = CoveredMinutes \o Added
  <1>1. Turn \in {1, 2}
    BY SeenIs DEF Hears
  <1>2. /\ Added \in Seq(Moments) /\ MinutesOf(1) \in Seq(Moments)
        /\ MinutesOf(2) \in Seq(Moments)
    BY AddedIs, DayIs DEF Hears
  <1>3. CASE Turn = 1
    <2>1. MinutesOf(2)' = <<>> /\ MinutesOf(2) = <<>>
      <3>1. TicksOn(2) = {}
        <4>1. CASE seen = <<>>
          BY <4>1, NoTicks DEF Hears
        <4>2. CASE seen # <<>>
          BY <1>3, <4>2, LastDay DEF Hears
        <4> QED
          BY <4>1, <4>2
      <3>2. MinutesOf(2) = <<>>
        BY <3>1, DayIs DEF Hears
      <3>3. MinutesOf(2)' = MinutesOf(2)
        <4>1. 2 \in {1, 2} /\ 2 # Turn
          BY <1>3
        <4> QED
          BY <4>1, OtherDay
      <3> QED
        BY <3>2, <3>3
    <2>2. MinutesOf(1)' = MinutesOf(1) \o Added
      BY <1>3, DayGrows
    <2>3. MinutesOf(1) \o Added \in Seq(Moments)
      BY <1>2, ConcatProperties
    <2> QED
      BY <1>2, <2>1, <2>2, <2>3, ConcatEmptySeq DEF CoveredMinutes
  <1>4. CASE Turn = 2
    <2>1. MinutesOf(1)' = MinutesOf(1)
      <3>1. 1 \in {1, 2} /\ 1 # Turn
        BY <1>4
      <3> QED
        BY <3>1, OtherDay
    <2>2. MinutesOf(2)' = MinutesOf(2) \o Added
      BY <1>4, DayGrows
    <2>3. CoveredMinutes' = MinutesOf(1) \o (MinutesOf(2) \o Added)
      BY <2>1, <2>2 DEF CoveredMinutes
    <2>4. (MinutesOf(1) \o MinutesOf(2)) \o Added = MinutesOf(1) \o (MinutesOf(2) \o Added)
      BY <1>2, ConcatAssociative, SMTT(30)
    <2> QED
      BY <2>3, <2>4 DEF CoveredMinutes
  <1> QED
    BY <1>1, <1>3, <1>4

\* The bar of every minute that is covered.
AllBars == [n \in DOMAIN CoveredMinutes |-> BarOf(CoveredMinutes[n])]

\* What BarsMatchTicks says beyond the types.
LEMMA MatchIs ==
    BarsMatchTicks <=> /\ TypeOK
                       /\ seen = <<>> => st.bars = loaded
                       /\ seen # <<>> =>
                             /\ st.bars = LastOf(loaded \o Butlast(AllBars), Window)
                             /\ cur.bar = Last(AllBars)
  <1>1. TypeOK => (ticks = <<>> <=> seen = <<>>)
    BY SeenIs
  <1> QED
    BY <1>1 DEF BarsMatchTicks, AllBars

\* The bar a covered minute should have is a bar.
LEMMA BarTyped ==
    ASSUME TypeOK, NEW at, TicksOf(at) # {} \/ TicksBefore(at) # {}
    PROVE  BarOf(at) \in Bars
  <1> DEFINE own == TicksOf(at)
             before == TicksBefore(at)
             prices == {seen[i].price : i \in own}
             close == seen[Max(own)].price
             open == seen[Min(own)].price
             volume == Higher(0, seen[Max(own)].cum - StartOf(at))
  <1>1. /\ own \subseteq 1..Len(seen) /\ before \subseteq 1..Len(seen)
        /\ own # {} => Min(own) \in own /\ Max(own) \in own
        /\ before # {} => Max(before) \in before
    BY PlacesOf
  <1>2. \A i \in 1..Len(seen) : seen[i].price \in Nat /\ seen[i].cum \in Nat
    BY TicksAre
  <1>3. CASE own = {}
    <2>1. seen[Max(before)].price \in Nat
      BY <1>1, <1>2, <1>3
    <2>2. BarOf(at) = Flat(seen[Max(before)].price, 0)
      BY <1>3 DEF BarOf
    <2>3. 0 \in Nat
      OBVIOUS
    <2> HIDE DEF before, own
    <2> QED
      BY ONLY <2>1, <2>2, <2>3, FlatIsBar
  <1>4. CASE own # {}
    <2>1. /\ prices \subseteq Nat
          /\ Max(prices) \in prices /\ \A x \in prices : x <= Max(prices)
          /\ Min(prices) \in prices /\ \A x \in prices : Min(prices) <= x
      BY <1>1, <1>4, Extremes
    <2>2. close \in prices /\ open \in prices /\ seen[Max(own)].cum \in Nat
      BY <1>1, <1>2, <1>4
    <2>3. StartOf(at) \in Nat
      BY <1>1, <1>2, <1>4 DEF StartOf
    <2>4. volume \in Nat
      BY <2>2, <2>3 DEF Higher
    <2>5. BarOf(at) = [ open |-> open, close |-> close, high |-> Max(prices),
                        low |-> Min(prices), volume |-> volume ]
      BY <1>4 DEF BarOf
    <2> HIDE DEF own, prices, close, open, volume
    <2>6. /\ close \in Nat /\ open \in Nat /\ Max(prices) \in Nat /\ Min(prices) \in Nat
          /\ close <= Max(prices) /\ open <= Max(prices)
          /\ Min(prices) <= close /\ Min(prices) <= open
      BY <2>1, <2>2
    <2> QED
      BY <2>4, <2>5, <2>6 DEF Bars
  <1> QED
    BY <1>3, <1>4

\* A list without its last element.
LEMMA ButlastIs ==
    ASSUME NEW S, NEW s \in Seq(S), Len(s) > 0
    PROVE  /\ Butlast(s) \in Seq(S) /\ Len(Butlast(s)) = Len(s) - 1
           /\ \A i \in 1..(Len(s) - 1) : Butlast(s)[i] = s[i]
           /\ Last(s) = s[Len(s)]
  <1>1. Len(s) \in Nat /\ Len(s) - 1 \in Nat /\ Len(s) - 1 \in (1 - 1)..Len(s) /\ 1 \in 1..(Len(s) + 1)
    BY LenProperties
  <1>2. \A i \in 1..(Len(s) - 1) : 1 + i - 1 = i
    OBVIOUS
  <1>3. Len(s) - 1 - 1 + 1 = Len(s) - 1
    BY <1>1
  <1>4. /\ SubSeq(s, 1, Len(s) - 1) \in Seq(S)
        /\ Len(SubSeq(s, 1, Len(s) - 1)) = Len(s) - 1 - 1 + 1
        /\ \A i \in 1..(Len(s) - 1 - 1 + 1) : SubSeq(s, 1, Len(s) - 1)[i] = s[1 + i - 1]
    BY <1>1, PartOf
  <1> QED
    BY <1>2, <1>3, <1>4 DEF Butlast, Last

\* The bars of the covered minutes, and which of them are complete.
LEMMA AllAre ==
    ASSUME TypeOK, InOrder, seen # <<>>
    PROVE  LET m == Len(CoveredMinutes)
           IN  /\ m \in Nat \ {0}
               /\ AllBars \in Seq(Bars) /\ Len(AllBars) = m
               /\ \A k \in 1..m : AllBars[k] = BarOf(CoveredMinutes[k])
               /\ Last(AllBars) = BarOf(LastAt)
               /\ Butlast(AllBars) \in Seq(Bars) /\ Len(Butlast(AllBars)) = m - 1
               /\ \A k \in 1..(m - 1) : Butlast(AllBars)[k] = BarOf(CoveredMinutes[k])
  <1> DEFINE m == Len(CoveredMinutes)
  <1>1. /\ m \in Nat \ {0} /\ DOMAIN CoveredMinutes = 1..m /\ CoveredMinutes[m] = LastAt
        /\ \A k \in 1..m : TicksOf(CoveredMinutes[k]) # {} \/ TicksBefore(CoveredMinutes[k]) # {}
    BY CoveredIs, LenProperties
  <1> HIDE DEF m
  <1>2. \A k \in 1..m : BarOf(CoveredMinutes[k]) \in Bars
    BY <1>1, BarTyped
  <1>3. AllBars = [k \in 1..m |-> BarOf(CoveredMinutes[k])]
    BY <1>1 DEF AllBars
  <1>4. AllBars \in Seq(Bars) /\ Len(AllBars) = m
        /\ \A k \in 1..m : AllBars[k] = BarOf(CoveredMinutes[k])
    BY <1>1, <1>2, <1>3
  <1>5. /\ Butlast(AllBars) \in Seq(Bars) /\ Len(Butlast(AllBars)) = m - 1
        /\ \A i \in 1..(m - 1) : Butlast(AllBars)[i] = AllBars[i]
        /\ Last(AllBars) = AllBars[m]
    <2>1. Len(AllBars) > 0
      BY <1>1, <1>4
    <2> QED
      BY <1>4, <2>1, ButlastIs
  <1>6. m \in 1..m /\ \A i \in 1..(m - 1) : i \in 1..m
    BY <1>1
  <1> QED
    BY <1>1, <1>4, <1>5, <1>6 DEF m

\* The bars with one more tick: those of the minutes there were and of those added.
LEMMA AllGrow ==
    ASSUME NEW price, NEW cum, Hears(price, cum)
    PROVE  LET all == CoveredMinutes \o Added
           IN  /\ all \in Seq(Moments) /\ Len(all) = Len(CoveredMinutes) + Len(Added)
               /\ AllBars' = [n \in 1..Len(all) |-> BarOf(CoveredMinutes[n])']
               /\ \A k \in 1..Len(all) : \A at :
                     at = all[k] => AllBars'[k] = BarOf(at)'
  <1> DEFINE all == CoveredMinutes \o Added
  <1>0. CoveredMinutes \in Seq(Moments) /\ Added \in Seq(Moments)
    <2>1. CASE seen = <<>>
      BY <2>1, NoTicks, AddedIs, EmptySeq DEF Hears
    <2>2. CASE seen # <<>>
      BY <2>2, CoveredIs, AddedIs DEF Hears
    <2> QED
      BY <2>1, <2>2
  <1>1. all \in Seq(Moments) /\ Len(all) = Len(CoveredMinutes) + Len(Added)
        /\ DOMAIN all = 1..Len(all)
    BY <1>0, ConcatProperties, LenProperties
  <1>2. CoveredMinutes' = all
    BY CoveredGrows
  <1>3. AllBars' = [n \in 1..Len(all) |-> BarOf(CoveredMinutes[n])']
    BY <1>1, <1>2 DEF AllBars
  <1>4. ASSUME NEW k \in 1..Len(all), NEW at, at = all[k]
        PROVE  AllBars'[k] = BarOf(at)'
    <2>1. AllBars'[k] = BarOf(CoveredMinutes[k])'
      BY <1>3
    <2>2. (CoveredMinutes[k])' = at
      BY <1>2, <1>4
    <2> QED
      BY <2>1, <2>2
  <1> QED
    BY <1>1, <1>3, <1>4

\* The tick is heard by the processor.
Processed(price, cum) == Hears(price, cum) /\ BarsMatchTicks /\ process_tick(price, cum)

\* What it does with it, by the minute it sees.
LEMMA ProcessIs ==
    ASSUME NEW price, NEW cum, Processed(price, cum)
    PROVE  /\ LastAt' = Here
           /\ lastCum' = IF LastAt = NoTick THEN cum
                         ELSE IF LastAt = Here THEN lastCum ELSE cur.cum
           /\ cur'.bar = IF LastAt = Here
                         THEN Candle(cur.bar.open, Higher(cur.bar.high, price),
                                     Lower(cur.bar.low, price), price,
                                     Higher(0, cum - lastCum))
                         ELSE Flat(price, Higher(0, cum - lastCum'))
  <1>1. /\ (LastAt = NoTick <=> lastMin = NoBar) /\ (LastAt = Here <=> lastMin = minute)
        /\ Here # NoTick
    BY TicksAre, MomentIs DEF Processed, Hears, InOrder
  <1>2. LastAt' = Here
    <2>1. /\ Len(seen') = Len(seen) + 1 /\ seen'[Len(seen) + 1] = Told(price, cum)
          /\ seen' # <<>>
      BY OneMore DEF Processed
    <2> QED
      BY <2>1 DEF LastAt, Told
  <1>3. /\ lastCum' = BaseVolume(cum)
        /\ cur'.bar = IF lastMin = minute
                      THEN Candle(cur.bar.open, Higher(cur.bar.high, price),
                                  Lower(cur.bar.low, price), price,
                                  Higher(0, cum - BaseVolume(cum)))
                      ELSE Flat(price, Higher(0, cum - BaseVolume(cum)))
    BY DEF Processed, process_tick
  <1>4. BaseVolume(cum) = IF LastAt = NoTick THEN cum
                          ELSE IF LastAt = Here THEN lastCum ELSE cur.cum
    BY <1>1 DEF BaseVolume
  <1> QED
    BY <1>1, <1>2, <1>3, <1>4

\* What the bars of the minutes are after a tick: those that were complete, what
\* the tick completes, and the bar in progress.
GrownTo(price, cum, done) ==
    /\ done \in Seq(Bars)
    /\ AllBars' \in Seq(Bars) /\ Len(AllBars') = Len(done) + 1
    /\ \A k \in 1..Len(done) : AllBars'[k] = done[k]
    /\ AllBars'[Len(done) + 1] = cur'.bar
    /\ StartOf(LastAt)' = lastCum'

\* The first tick starts a bar and completes none.
LEMMA FirstTick ==
    ASSUME NEW price, NEW cum, Processed(price, cum), seen = <<>>
    PROVE  GrownTo(price, cum, <<>>)
  <1>1. TypeOK /\ InOrder /\ price \in Nat \ {0} /\ cum \in Nat /\ Hears(price, cum)
    BY DEF Processed, Hears
  <1>2. LastAt = NoTick /\ Here \in Moments /\ LastAt # Here
    BY <1>1, TicksAre, MomentIs DEF InOrder
  <1>3. Len(Added) = 1 /\ Added[1] = Here /\ Added \in Seq(Moments) /\ CoveredMinutes = <<>>
    BY <1>1, <1>2, AddedIs, NoTicks
  <1>4. CoveredMinutes \o Added = Added
    BY <1>3, ConcatEmptySeq
  <1>5. PICK at : at = Here
    OBVIOUS
  <1>6. BarOf(at)' = Flat(price, Higher(0, cum - cum)) /\ StartOf(at)' = cum
    BY <1>1, <1>2, <1>5, FirstBar
  <1>7. /\ AllBars' = [n \in 1..1 |-> BarOf(CoveredMinutes[n])']
        /\ AllBars'[1] = BarOf(at)'
    <2>1. 1 \in 1..Len(Added)
      BY <1>3
    <2> QED
      BY <1>1, <1>3, <1>4, <1>5, <2>1, AllGrow
  <1>8. /\ LastAt' = Here /\ lastCum' = cum
        /\ cur'.bar = Flat(price, Higher(0, cum - cum))
    BY <1>2, ProcessIs
  <1>9. Flat(price, Higher(0, cum - cum)) \in Bars
    <2>1. price \in Nat /\ Higher(0, cum - cum) \in Nat
      BY <1>1 DEF Higher
    <2> QED
      BY <2>1, FlatIsBar
  <1>10. AllBars' \in Seq(Bars) /\ Len(AllBars') = 1
    <2>1. \A n \in 1..1 : BarOf(CoveredMinutes[n])' \in Bars
      <3>1. AllBars'[1] = BarOf(CoveredMinutes[1])'
        BY <1>7
      <3> QED
        BY <1>6, <1>7, <1>9, <3>1
    <2> QED
      BY <1>7, <2>1
  <1>11. StartOf(LastAt)' = lastCum'
    BY <1>5, <1>6, <1>8
  <1>12. <<>> \in Seq(Bars) /\ Len(<<>>) = 0
    BY EmptySeq
  <1> QED
    BY <1>6, <1>7, <1>8, <1>10, <1>11, <1>12 DEF GrownTo

\* What is known of the minutes there were.
LEMMA OldBars ==
    ASSUME NEW price, NEW cum, Processed(price, cum), seen # <<>>
    PROVE  LET m == Len(CoveredMinutes)
               all == CoveredMinutes \o Added
           IN  /\ m \in Nat \ {0} /\ Len(Added) \in Nat /\ Len(all) = m + Len(Added)
               /\ \A i \in 1..(m + Len(Added)) :
                     all[i] = IF i <= m THEN CoveredMinutes[i] ELSE Added[i - m]
               /\ Butlast(AllBars) \in Seq(Bars) /\ Len(Butlast(AllBars)) = m - 1
               /\ cur.bar = BarOf(LastAt) /\ cur.bar \in Bars /\ lastCum = StartOf(LastAt)
               /\ CoveredMinutes[m] = LastAt /\ LastAt \in Moments /\ Here \in Moments
               /\ \A k \in 1..(m - 1) :
                     /\ Earlier(CoveredMinutes[k], LastAt)
                     /\ AllBars'[k] = Butlast(AllBars)[k]
               /\ LastAt # Here => AllBars'[m] = cur.bar
  <1> DEFINE m == Len(CoveredMinutes)
             all == CoveredMinutes \o Added
  <1>1. /\ TypeOK /\ InOrder /\ Hears(price, cum)
        /\ cur.bar = Last(AllBars) /\ cur.bar \in Bars
    BY MatchIs DEF Processed, Hears, TypeOK
  <1>2. LastAt \in Moments /\ Here \in Moments /\ (LastAt # Here => Earlier(LastAt, Here))
    BY <1>1, GapIs
  <1>3. /\ CoveredMinutes \in Seq(Moments) /\ m \in Nat \ {0} /\ CoveredMinutes[m] = LastAt
        /\ \A k \in 1..(m - 1) : Earlier(CoveredMinutes[k], LastAt)
        /\ \A k \in 1..m : TicksOf(CoveredMinutes[k]) # {} \/ TicksBefore(CoveredMinutes[k]) # {}
        /\ \A k \in 1..m : CoveredMinutes[k] \in Moments
    BY <1>1, CoveredIs, ElementOfSeq
  <1>4. /\ Added \in Seq(Moments) /\ Len(Added) \in Nat /\ Len(all) = m + Len(Added)
        /\ \A i \in 1..(m + Len(Added)) :
              all[i] = IF i <= m THEN CoveredMinutes[i] ELSE Added[i - m]
    <2>1. Added \in Seq(Moments)
      BY <1>1, AddedIs
    <2> QED
      BY <1>3, <2>1, ConcatProperties, LenProperties
  <1>5. /\ Butlast(AllBars) \in Seq(Bars) /\ Len(Butlast(AllBars)) = m - 1
        /\ \A k \in 1..(m - 1) : Butlast(AllBars)[k] = BarOf(CoveredMinutes[k])
        /\ cur.bar = BarOf(LastAt)
    BY <1>1, AllAre
  <1> HIDE DEF m, all
  <1>6. ASSUME NEW k \in 1..m, NEW at, at = CoveredMinutes[k], Earlier(at, Here)
        PROVE  AllBars'[k] = BarOf(at)
    <2>1. k \in 1..(m + Len(Added)) /\ k <= m
      BY <1>3, <1>4
    <2>2. all[k] = at
      BY <1>4, <1>6, <2>1
    <2>3. AllBars'[k] = BarOf(at)'
      BY <1>1, <1>4, <2>1, <2>2, AllGrow DEF all
    <2>4. BarOf(at)' = BarOf(at)
      <3>1. at \in Moments /\ (TicksOf(at) # {} \/ TicksBefore(at) # {})
        BY <1>3, <1>6
      <3> QED
        BY <1>1, <1>6, <3>1, OlderBar
    <2> QED
      BY <2>3, <2>4
  <1>7. ASSUME NEW k \in 1..(m - 1)
        PROVE  Earlier(CoveredMinutes[k], LastAt) /\ AllBars'[k] = Butlast(AllBars)[k]
    <2>1. k \in 1..m
      BY <1>3
    <2>2. PICK at : at = CoveredMinutes[k]
      OBVIOUS
    <2>3. at \in Moments /\ Earlier(at, LastAt)
      BY <1>3, <2>1, <2>2
    <2>4. Earlier(at, Here)
      <3>1. CASE LastAt = Here
        BY <2>3, <3>1
      <3>2. CASE LastAt # Here
        BY <1>2, <2>3, <3>2, EarlierOrders
      <3> QED
        BY <3>1, <3>2
    <2>5. AllBars'[k] = BarOf(at)
      BY <1>6, <2>1, <2>2, <2>4
    <2> QED
      BY <1>3, <1>5, <2>2, <2>5
  <1>8. ASSUME LastAt # Here PROVE AllBars'[m] = cur.bar
    <2>1. m \in 1..m
      BY <1>3
    <2>2. PICK at : at = LastAt
      OBVIOUS
    <2>3. AllBars'[m] = BarOf(at)
      BY <1>2, <1>3, <1>6, <1>8, <2>1, <2>2
    <2> QED
      BY <1>5, <2>2, <2>3
  <1>9. lastCum = StartOf(LastAt)
    BY <1>1 DEF InOrder
  <1> QED
    BY <1>1, <1>2, <1>3, <1>4, <1>5, <1>7, <1>8, <1>9 DEF m, all

\* A tick in the minute in progress changes its bar and completes none.
LEMMA SameMinute ==
    ASSUME NEW price, NEW cum, Processed(price, cum), seen # <<>>, LastAt = Here
    PROVE  GrownTo(price, cum, Butlast(AllBars))
  <1> DEFINE m == Len(CoveredMinutes)
             done == Butlast(AllBars)
             new == Candle(cur.bar.open, Higher(cur.bar.high, price),
                           Lower(cur.bar.low, price), price, Higher(0, cum - lastCum))
  <1>1. Hears(price, cum) /\ price \in Nat \ {0} /\ cum \in Nat /\ TypeOK /\ InOrder
    BY DEF Processed, Hears
  <1>2. Len(Added) = 0
    <2>1. Added = <<>>
      <3>1. LastAt # NoTick
        BY <1>1 DEF InOrder
      <3> QED
        BY <3>1 DEF Added
    <2> QED
      BY <2>1
  <1>3. /\ m \in Nat \ {0} /\ Len(CoveredMinutes \o Added) = m
        /\ \A i \in 1..m : (CoveredMinutes \o Added)[i] = CoveredMinutes[i]
        /\ done \in Seq(Bars) /\ Len(done) = m - 1
        /\ cur.bar = BarOf(LastAt) /\ cur.bar \in Bars /\ lastCum = StartOf(LastAt)
        /\ CoveredMinutes[m] = LastAt
        /\ \A k \in 1..(m - 1) : AllBars'[k] = done[k]
    <2>1. /\ m \in Nat \ {0} /\ Len(CoveredMinutes \o Added) = m + Len(Added)
          /\ \A i \in 1..(m + Len(Added)) : (CoveredMinutes \o Added)[i]
                = IF i <= m THEN CoveredMinutes[i] ELSE Added[i - m]
          /\ done \in Seq(Bars) /\ Len(done) = m - 1
          /\ cur.bar = BarOf(LastAt) /\ cur.bar \in Bars /\ lastCum = StartOf(LastAt)
          /\ CoveredMinutes[m] = LastAt
          /\ \A k \in 1..(m - 1) : AllBars'[k] = done[k]
      BY OldBars
    <2>2. m + Len(Added) = m /\ \A i \in 1..m : i <= m
      BY <1>2, <2>1
    <2> QED
      BY <2>1, <2>2
  <1>4. PICK at : at = Here
    OBVIOUS
  <1>5. BarOf(at)' = new /\ StartOf(at)' = lastCum
    <2>1. BarOf(at) = cur.bar /\ StartOf(at) = lastCum
      BY <1>3, <1>4
    <2> QED
      BY <1>1, <1>4, <2>1, SameBar
  <1>6. AllBars' = [n \in 1..m |-> BarOf(CoveredMinutes[n])'] /\ AllBars'[m] = new
    <2>1. m \in 1..m /\ (CoveredMinutes \o Added)[m] = at
      BY <1>3, <1>4
    <2>2. AllBars' = [n \in 1..m |-> BarOf(CoveredMinutes[n])']
      BY <1>1, <1>3, AllGrow
    <2>3. AllBars'[m] = BarOf(at)'
      BY <1>1, <1>3, <2>1, AllGrow
    <2> QED
      BY <1>5, <2>2, <2>3
  <1>7. /\ LastAt' = Here /\ lastCum' = lastCum /\ cur'.bar = new
    <2>1. LastAt # NoTick
      BY <1>1 DEF InOrder
    <2> QED
      BY <2>1, ProcessIs
  <1>8. new \in Bars
    <2>1. price \in Nat /\ Higher(0, cum - lastCum) \in Nat
      BY <1>1 DEF Higher, TypeOK
    <2> QED
      BY <1>3, <2>1, GrownBar
  <1> HIDE DEF m, done, new
  <1>9. AllBars' \in Seq(Bars) /\ Len(AllBars') = m
    <2>1. ASSUME NEW n \in 1..m PROVE BarOf(CoveredMinutes[n])' \in Bars
      <3>1. AllBars'[n] = BarOf(CoveredMinutes[n])'
        BY <1>6
      <3>2. CASE n = m
        BY <1>6, <1>8, <3>1, <3>2
      <3>3. CASE n # m
        <4>1. n \in 1..(m - 1)
          BY <1>3, <3>3
        <4>2. done[n] \in Bars
          BY <1>3, <4>1, ElementOfSeq
        <4> QED
          BY <1>3, <3>1, <4>1, <4>2
      <3> QED
        BY <3>2, <3>3
    <2> QED
      BY <1>3, <1>6, <2>1, SMTT(30)
  <1>10. StartOf(LastAt)' = lastCum'
    BY <1>4, <1>5, <1>7
  <1>11. Len(done) + 1 = m /\ 1..Len(done) = 1..(m - 1)
    BY <1>3
  <1>12. done \in Seq(Bars) /\ AllBars'[m] = cur'.bar
         /\ \A k \in 1..Len(done) : AllBars'[k] = done[k]
    BY <1>3, <1>6, <1>7, <1>11
  <1> QED
    BY <1>9, <1>10, <1>11, <1>12 DEF GrownTo, done

\* A tick in a later minute completes the bar in progress and the quiet minutes
\* after it, and starts its own.
LEMMA NewMinute ==
    ASSUME NEW price, NEW cum, Processed(price, cum), seen # <<>>, LastAt # Here
    PROVE  GrownTo(price, cum, Butlast(AllBars) \o Completed)
  <1> DEFINE m == Len(CoveredMinutes)
             g == GapMinutes
             all == CoveredMinutes \o Added
             old == Butlast(AllBars)
             done == old \o Completed
             new == Flat(price, Higher(0, cum - cur.cum))
             quiet == Flat(cur.bar.close, 0)
  <1>1. /\ Hears(price, cum) /\ price \in Nat \ {0} /\ cum \in Nat /\ TypeOK /\ InOrder
        /\ LastAt \notin {NoTick, Here}
    BY DEF Processed, Hears, InOrder
  <1>2. /\ g \in Nat /\ Len(Added) = g + 1 /\ Added[g + 1] = Here /\ Added \in Seq(Moments)
        /\ \A k \in 1..g : Earlier(LastAt, Added[k]) /\ Earlier(Added[k], Here)
    BY <1>1, AddedIs
  <1>3. /\ Completed \in Seq(Bars) /\ Len(Completed) = g + 1 /\ Completed[1] = cur.bar
        /\ \A i \in 2..Len(Completed) : Completed[i] = quiet
    BY <1>1, CompletedIs
  <1>4. /\ m \in Nat \ {0} /\ Len(all) = m + Len(Added)
        /\ \A i \in 1..(m + Len(Added)) :
              all[i] = IF i <= m THEN CoveredMinutes[i] ELSE Added[i - m]
        /\ old \in Seq(Bars) /\ Len(old) = m - 1
        /\ \A k \in 1..(m - 1) : AllBars'[k] = old[k]
        /\ AllBars'[m] = cur.bar /\ cur.bar \in Bars
    BY OldBars
  <1>5. /\ done \in Seq(Bars) /\ Len(done) = Len(old) + Len(Completed)
        /\ \A i \in 1..(Len(old) + Len(Completed)) :
              done[i] = IF i <= Len(old) THEN old[i] ELSE Completed[i - Len(old)]
    BY <1>3, <1>4, ConcatProperties
  <1>6. quiet = Flat(seen[Len(seen)].price, 0)
    <2>1. BarOf(LastAt).close = seen[Len(seen)].price
      BY <1>1, LastClose
    <2>2. cur.bar = BarOf(LastAt)
      BY OldBars
    <2> QED
      BY <2>1, <2>2
  <1>7. PICK at : at = Here
    OBVIOUS
  <1>8. BarOf(at)' = new /\ StartOf(at)' = cur.cum
    BY <1>1, <1>7, FirstBar
  <1>9. LastAt' = Here /\ lastCum' = cur.cum /\ cur'.bar = new
    BY <1>1, ProcessIs
  <1>10. new \in Bars
    <2>1. price \in Nat /\ cur.cum \in Nat /\ Higher(0, cum - cur.cum) \in Nat
      BY <1>1 DEF Higher, TypeOK
    <2> QED
      BY <2>1, FlatIsBar
  <1> HIDE DEF m, g, all, old, done, new, quiet
  <1>11. /\ AllBars' = [n \in 1..(m + g + 1) |-> BarOf(CoveredMinutes[n])']
         /\ \A k \in 1..(m + g + 1) : \A t : t = all[k] => AllBars'[k] = BarOf(t)'
    <2>1. Len(all) = m + g + 1
      BY <1>2, <1>4
    <2> QED
      BY <1>1, <2>1, AllGrow DEF all
  <1>12. ASSUME NEW k \in 1..g PROVE AllBars'[m + k] = quiet
    <2>1. /\ m + k \in 1..(m + Len(Added)) /\ m + k \in 1..(m + g + 1)
          /\ ~(m + k <= m) /\ m + k - m = k /\ k \in 1..Len(Added)
      BY <1>2, <1>4
    <2>2. PICK t : t = Added[k]
      OBVIOUS
    <2>3. t \in Moments /\ Earlier(LastAt, t) /\ Earlier(t, Here)
      BY <1>2, <2>1, <2>2, ElementOfSeq
    <2>4. AllBars'[m + k] = BarOf(t)'
      BY <1>4, <1>11, <2>1, <2>2
    <2>5. BarOf(t)' = quiet
      BY <1>1, <1>6, <2>3, QuietBar
    <2> QED
      BY <2>4, <2>5
  <1>13. AllBars'[m + g + 1] = new
    <2>1. /\ m + g + 1 \in 1..(m + Len(Added)) /\ m + g + 1 \in 1..(m + g + 1)
          /\ ~(m + g + 1 <= m) /\ m + g + 1 - m = g + 1
      BY <1>2, <1>4
    <2>2. all[m + g + 1] = at
      BY <1>2, <1>4, <1>7, <2>1
    <2> QED
      BY <1>8, <1>11, <2>1, <2>2
  <1>14. Len(done) = m + g /\ Len(done) \in Nat
    BY <1>2, <1>3, <1>4, <1>5
  <1>15. ASSUME NEW k \in 1..Len(done) PROVE AllBars'[k] = done[k]
    <2>0. k \in 1..(Len(old) + Len(Completed)) /\ k \in 1..(m + g)
      BY <1>5, <1>14
    <2>1. CASE k <= m - 1
      <3>1. k \in 1..(m - 1) /\ k <= Len(old)
        BY <1>4, <2>0, <2>1
      <3> QED
        BY <1>4, <1>5, <2>0, <3>1
    <2>2. CASE k = m
      <3>1. ~(k <= Len(old)) /\ k - Len(old) = 1
        BY <1>4, <2>2
      <3> QED
        BY <1>3, <1>4, <1>5, <2>0, <2>2, <3>1
    <2>3. CASE k > m
      <3>1. /\ ~(k <= Len(old)) /\ k - Len(old) \in 2..Len(Completed)
            /\ k - m \in 1..g /\ m + (k - m) = k
        BY <1>2, <1>3, <1>4, <2>0, <2>3
      <3>2. done[k] = quiet
        BY <1>3, <1>5, <2>0, <3>1
      <3>3. AllBars'[k] = quiet
        BY <1>12, <3>1
      <3> QED
        BY <3>2, <3>3
    <2> QED
      BY <1>4, <2>0, <2>1, <2>2, <2>3
  <1>16. AllBars' \in Seq(Bars) /\ Len(AllBars') = m + g + 1
    <2>1. ASSUME NEW n \in 1..(m + g + 1) PROVE BarOf(CoveredMinutes[n])' \in Bars
      <3>1. AllBars'[n] = BarOf(CoveredMinutes[n])'
        BY <1>11
      <3>2. CASE n = m + g + 1
        BY <1>10, <1>13, <3>1, <3>2
      <3>3. CASE n # m + g + 1
        <4>1. n \in 1..Len(done)
          BY <1>2, <1>4, <1>14, <3>3
        <4>2. done[n] \in Bars
          BY <1>5, <4>1, ElementOfSeq
        <4> QED
          BY <1>15, <3>1, <4>1, <4>2
      <3> QED
        BY <3>2, <3>3
    <2>2. m + g + 1 \in Nat
      BY <1>2, <1>4
    <2> QED
      BY <1>11, <2>1, <2>2
  <1>17. StartOf(LastAt)' = lastCum'
    BY <1>7, <1>8, <1>9
  <1>18. /\ done \in Seq(Bars) /\ Len(AllBars') = Len(done) + 1
         /\ AllBars'[Len(done) + 1] = cur'.bar
    BY <1>5, <1>9, <1>13, <1>14, <1>16
  <1> QED
    BY <1>15, <1>16, <1>17, <1>18 DEF GrownTo, done, old

\* A tick, whatever the minute.
LEMMA TickGrows ==
    ASSUME NEW price, NEW cum, Processed(price, cum)
    PROVE  /\ AllBars' \in Seq(Bars) /\ Last(AllBars') = cur'.bar
           /\ StartOf(LastAt)' = lastCum'
           /\ LastOf(loaded \o Butlast(AllBars'), Window) = _append_limit(st.bars, Completed)
  <1>1. /\ TypeOK /\ InOrder /\ loaded \in Seq(Bars) /\ Len(loaded) <= Window
        /\ st.bars \in Kept(Bars, Window) /\ Window \in Nat \ {0} /\ Completed \in Seq(Bars)
    BY ConstantsAssumption, CompletedIs DEF Processed, Hears, TypeOK, Kept
  <1>2. ASSUME NEW done, GrownTo(price, cum, done)
        PROVE  Last(AllBars') = cur'.bar /\ Butlast(AllBars') = done
    <2>1. /\ AllBars' \in Seq(Bars) /\ Len(AllBars') = Len(done) + 1 /\ done \in Seq(Bars)
          /\ Len(done) \in Nat
      BY <1>2, LenProperties DEF GrownTo
    <2>2. Len(AllBars') > 0
      BY <2>1
    <2>3. /\ Butlast(AllBars') \in Seq(Bars) /\ Len(Butlast(AllBars')) = Len(AllBars') - 1
          /\ \A i \in 1..(Len(AllBars') - 1) : Butlast(AllBars')[i] = AllBars'[i]
          /\ Last(AllBars') = AllBars'[Len(AllBars')]
      BY <2>1, <2>2, ButlastIs
    <2>4. Len(Butlast(AllBars')) = Len(done) /\ 1..(Len(AllBars') - 1) = 1..Len(done)
      BY <2>1, <2>3
    <2>5. \A i \in 1..Len(Butlast(AllBars')) : Butlast(AllBars')[i] = done[i]
      BY <1>2, <2>3, <2>4 DEF GrownTo
    <2>6. Butlast(AllBars') = done
      BY <2>1, <2>3, <2>4, <2>5, SeqEqual
    <2> QED
      BY <1>2, <2>1, <2>3, <2>6 DEF GrownTo
  <1>3. CASE seen = <<>>
    <2>1. GrownTo(price, cum, <<>>)
      BY <1>3, FirstTick
    <2>2. st.bars = loaded /\ Completed = <<>>
      <3>1. st.bars = loaded
        BY <1>3, MatchIs DEF Processed
      <3>2. lastMin = NoBar
        BY <1>1, <1>3 DEF InOrder
      <3> QED
        BY <3>1, <3>2 DEF Completed
    <2> QED
      BY <1>2, <2>1, <2>2 DEF GrownTo, _append_limit
  <1>4. CASE seen # <<>> /\ LastAt = Here
    <2>1. GrownTo(price, cum, Butlast(AllBars))
      BY <1>4, SameMinute
    <2>2. st.bars = LastOf(loaded \o Butlast(AllBars), Window)
      BY <1>4, MatchIs DEF Processed
    <2>3. Completed = <<>>
      BY <1>1, <1>4, CompletedIs
    <2>4. _append_limit(st.bars, Completed) = st.bars
      <3>1. st.bars \in Seq(Bars) /\ Len(st.bars) <= Window
        BY <1>1 DEF Kept
      <3>2. st.bars \o <<>> = st.bars
        BY <3>1, ConcatEmptySeq
      <3>3. LastOf(st.bars, Window) = st.bars
        BY <1>1, <3>1, LastOfIs
      <3> QED
        BY <2>3, <3>2, <3>3 DEF _append_limit
    <2> QED
      BY <1>2, <2>1, <2>2, <2>4 DEF GrownTo
  <1>5. CASE seen # <<>> /\ LastAt # Here
    <2>1. GrownTo(price, cum, Butlast(AllBars) \o Completed)
      BY <1>5, NewMinute
    <2>2. st.bars = LastOf(loaded \o Butlast(AllBars), Window)
      BY <1>5, MatchIs DEF Processed
    <2>3. Butlast(AllBars) \in Seq(Bars)
      BY <1>5, OldBars
    <2>4. loaded \o Butlast(AllBars) \in Seq(Bars)
      BY <1>1, <2>3, ConcatProperties
    <2>5. LastOf(LastOf(loaded \o Butlast(AllBars), Window) \o Completed, Window)
            = LastOf((loaded \o Butlast(AllBars)) \o Completed, Window)
      BY <1>1, <2>4, LastOfLast
    <2>6. (loaded \o Butlast(AllBars)) \o Completed = loaded \o (Butlast(AllBars) \o Completed)
      BY <1>1, <2>3, ConcatAssociative
    <2> QED
      BY <1>2, <2>1, <2>2, <2>5, <2>6 DEF GrownTo, _append_limit
  <1> QED
    BY <1>3, <1>4, <1>5

\* What is left to show after a step.
LEMMA MatchNext ==
    ASSUME TypeOK', ticks' = <<>> => st'.bars = loaded',
           ticks' # <<>> => /\ st'.bars = LastOf(loaded' \o Butlast(AllBars'), Window)
                            /\ cur'.bar = Last(AllBars')
    PROVE  BarsMatchTicks'
  BY DEF BarsMatchTicks, AllBars

\* A tick more leaves the minutes of the others as the processor sees them: it makes
\* the second day go on with the first only when it is the first one of that day.
LEMMA SeenGrows ==
    ASSUME TypeOK, Ordered, NEW price \in Nat \ {0}, NEW cum \in Nat,
           ticks' = Append(ticks, [at |-> Now, price |-> price, cum |-> cum])
    PROVE  seen' = Append(seen, Told(price, cum))
  <1> DEFINE n == Len(ticks)
             x == [at |-> Now, price |-> price, cum |-> cum]
             b == ticks[n].at
  <1>1. /\ ticks \in Seq(Notes) /\ n \in Nat /\ DOMAIN ticks = 1..n /\ DOMAIN seen = 1..n
        /\ seen \in Seq(Notes) /\ Len(seen) = n
        /\ (seen = <<>> <=> n = 0)
        /\ \A i \in 1..n : ticks[i].at \in Moments
        /\ Now \in Moments /\ Here \in Moments
    BY SeenIs
  <1>2. /\ day \in {1, 2} /\ minute \in 0..Minutes /\ Minutes \in Nat
        /\ Now[1] = day /\ Now[2] = minute /\ x.at = Now /\ x.price = price /\ x.cum = cum
    BY ConstantsAssumption DEF TypeOK, Days, Now
  <1>3. x \in Notes /\ Told(price, cum) \in Notes
    BY <1>1 DEF Notes, Told
  <1> HIDE DEF n, x
  <1>4. /\ ticks' \in Seq(Notes) /\ Len(ticks') = n + 1 /\ DOMAIN ticks' = 1..(n + 1)
        /\ \A i \in 1..n : ticks'[i] = ticks[i]
        /\ ticks'[n + 1] = x
    <2>1. ticks' = Append(ticks, x)
      BY DEF x
    <2> QED
      BY <1>1, <1>3, <2>1, AppendProperties, LenProperties DEF n
  <1>5. /\ Append(seen, Told(price, cum)) \in Seq(Notes)
        /\ Len(Append(seen, Told(price, cum))) = n + 1
        /\ \A i \in 1..n : Append(seen, Told(price, cum))[i] = seen[i]
        /\ Append(seen, Told(price, cum))[n + 1] = Told(price, cum)
    BY <1>1, <1>3, AppendProperties
  <1>6. ASSUME NEW i \in 1..n
        PROVE  /\ ticks[i].at[1] \in {1, 2} /\ ticks[i].at[2] \in 0..Minutes
               /\ n \in 1..n /\ b[1] \in {1, 2} /\ b[2] \in 0..Minutes
               /\ ticks[i].at[1] <= b[1]
    <2>1. n \in 1..n
      BY <1>1
    <2>2. b \in Moments /\ ticks[i].at \in Moments
      BY <1>1, <2>1
    <2>3. i = n \/ i < n
      BY <1>1
    <2>4. i = n \/ ~Earlier(b, ticks[i].at)
      BY <1>1, <2>1, <2>3 DEF Ordered
    <2>5. /\ b[1] \in {1, 2} /\ b[2] \in 0..Minutes
          /\ ticks[i].at[1] \in {1, 2} /\ ticks[i].at[2] \in 0..Minutes
      BY <2>2, MomentIs
    <2> HIDE DEF b
    <2>6. ASSUME i = n PROVE ticks[i].at[1] = b[1]
      BY <2>6 DEF b
    <2> QED
      BY <2>1, <2>4, <2>5, <2>6 DEF Earlier
  <1>7. ASSUME n > 0
        PROVE  /\ n \in 1..n /\ b[1] \in {1, 2} /\ b[2] \in 0..Minutes
               /\ ~Earlier(Now, b) /\ b[1] <= day
               /\ LastAt = SeenAt(b) /\ lastMin = b[2] /\ seen # <<>>
    <2>1. n \in 1..n
      BY <1>1, <1>7
    <2>2. b[1] \in {1, 2} /\ b[2] \in 0..Minutes
      BY <1>6, <2>1
    <2>3. ~Earlier(Now, b)
      BY <1>1, <2>1 DEF Ordered
    <2>4. b[1] <= day
      BY <1>2, <2>2, <2>3 DEF Earlier
    <2>5. LastAt = SeenAt(b) /\ seen # <<>>
      BY <1>1, <1>7, <2>1, SeenIs DEF LastAt, n
    <2>6. lastMin = b[2]
      BY <1>7, SeenIs DEF Ordered, n
    <2> QED
      BY <2>1, <2>2, <2>3, <2>4, <2>5, <2>6
  <1>8. GoesOn => n > 0 /\ b[1] = 2 /\ day = 2 /\ b[2] <= minute
    <2> SUFFICES ASSUME GoesOn PROVE n > 0 /\ b[1] = 2 /\ day = 2 /\ b[2] <= minute
      OBVIOUS
    <2>1. PICK i \in 1..(n - 1) : ticks[i].at[1] < ticks[i + 1].at[1]
      BY DEF GoesOn, n
    <2>2. i \in 1..n /\ i + 1 \in 1..n /\ n > 0
      BY <1>1, <2>1
    <2>3. ticks[i + 1].at[1] \in {1, 2} /\ ticks[i + 1].at[1] <= b[1] /\ b[1] \in {1, 2}
      BY <1>6, <2>2
    <2>4. ticks[i].at[1] \in {1, 2}
      BY <1>6, <2>2
    <2> HIDE DEF b
    <2>5. b[1] = 2
      BY <2>1, <2>3, <2>4
    <2> QED
      BY <1>2, <1>7, <2>2, <2>5 DEF Earlier
  <1>9. GoesOn' <=> GoesOn \/ (n > 0 /\ b[1] < day /\ b[2] <= minute)
    <2>0. Len(ticks') - 1 = n
      BY <1>1, <1>4
    <2>1. GoesOn' <=> \E i \in 1..n : /\ ticks'[i].at[1] < ticks'[i + 1].at[1]
                                       /\ ticks'[i].at[2] <= ticks'[i + 1].at[2]
      BY <2>0 DEF GoesOn
    <2>2. GoesOn <=> \E i \in 1..(n - 1) : /\ ticks[i].at[1] < ticks[i + 1].at[1]
                                            /\ ticks[i].at[2] <= ticks[i + 1].at[2]
      BY DEF GoesOn, n
    <2>3. \A i \in 1..(n - 1) : i \in 1..n /\ i + 1 \in 1..n
      BY <1>1
    <2>4. \A i \in 1..n : i \in 1..(n - 1) \/ (i = n /\ n > 0)
      BY <1>1
    <2>5. n > 0 => ticks'[n] = ticks[n] /\ n \in 1..n
      BY <1>1, <1>4
    <2>6. GoesOn => GoesOn'
      BY <1>4, <2>1, <2>2, <2>3
    <2>7. (n > 0 /\ b[1] < day /\ b[2] <= minute) => GoesOn'
      BY <1>2, <1>4, <2>1, <2>5
    <2>8. ASSUME GoesOn' PROVE GoesOn \/ (n > 0 /\ b[1] < day /\ b[2] <= minute)
      <3>1. PICK i \in 1..n : /\ ticks'[i].at[1] < ticks'[i + 1].at[1]
                              /\ ticks'[i].at[2] <= ticks'[i + 1].at[2]
        BY <2>1, <2>8
      <3>2. CASE i \in 1..(n - 1)
        BY <1>4, <2>2, <2>3, <3>1, <3>2
      <3>3. CASE i = n /\ n > 0
        BY <1>2, <1>4, <2>5, <3>1, <3>3
      <3> QED
        BY <2>4, <3>2, <3>3
    <2> QED
      BY <2>6, <2>7, <2>8
  <1>10. seen' = [i \in 1..(n + 1) |->
                    [at |-> <<IF GoesOn' THEN 1 ELSE ticks'[i].at[1], ticks'[i].at[2]>>,
                     price |-> ticks'[i].price, cum |-> ticks'[i].cum]]
    BY <1>4 DEF seen, SeenAt
  <1>11. seen = [i \in 1..n |->
                    [at |-> <<IF GoesOn THEN 1 ELSE ticks[i].at[1], ticks[i].at[2]>>,
                     price |-> ticks[i].price, cum |-> ticks[i].cum]]
    BY <1>1 DEF seen, SeenAt
  <1>12. ASSUME NEW i \in 1..n PROVE seen'[i] = seen[i]
    <2>1. i \in 1..(n + 1) /\ ticks'[i] = ticks[i]
      BY <1>1, <1>4
    <2>2. (IF GoesOn' THEN 1 ELSE ticks[i].at[1]) = (IF GoesOn THEN 1 ELSE ticks[i].at[1])
      <3> HIDE DEF b
      <3>1. ticks[i].at[1] \in {1, 2} /\ ticks[i].at[1] <= b[1] /\ b[1] \in {1, 2}
        BY <1>6
      <3> QED
        BY <1>2, <1>9, <3>1
    <2> QED
      BY <1>10, <1>11, <2>1, <2>2
  <1>13. seen'[n + 1] = Told(price, cum)
    <2>1. n + 1 \in 1..(n + 1)
      BY <1>1
    <2>2. seen'[n + 1] = [at |-> <<IF GoesOn' THEN 1 ELSE day, minute>>,
                          price |-> price, cum |-> cum]
      BY <1>2, <1>4, <1>10, <2>1
    <2>3. (IF GoesOn' THEN 1 ELSE day) = Turn
      <3>1. CASE n = 0
        BY <1>1, <1>8, <1>9, <3>1 DEF Turn
      <3>2. CASE n > 0
        <4>1. LastAt[1] = IF GoesOn THEN 1 ELSE b[1]
          BY <1>7, <3>2 DEF SeenAt
        <4>2. Turn = IF b[2] <= minute THEN LastAt[1] ELSE day
          BY <1>7, <3>2 DEF Turn
        <4>3. b[1] \in {1, 2} /\ b[1] <= day /\ b[2] \in 0..Minutes
          BY <1>7, <3>2
        <4> HIDE DEF b
        <4> QED
          BY <1>2, <1>8, <1>9, <3>2, <4>1, <4>2, <4>3
      <3> QED
        BY <1>1, <3>1, <3>2
    <2> QED
      BY <2>2, <2>3 DEF Told, Here
  <1>14. seen' \in Seq(Notes) /\ Len(seen') = n + 1
    <2>1. \A i \in 1..(n + 1) : i \in 1..n \/ i = n + 1
      BY <1>1
    <2>2. \A i \in 1..(n + 1) : seen'[i] \in Notes
      BY <1>1, <1>3, <1>12, <1>13, <2>1, ElementOfSeq
    <2>3. seen' \in [1..(n + 1) -> Notes]
      BY <1>10, <2>2
    <2>4. n + 1 \in Nat
      BY <1>1
    <2>5. ASSUME NEW f \in [1..(n + 1) -> Notes] PROVE f \in Seq(Notes) /\ Len(f) = n + 1
      BY ONLY <2>4, <2>5
    <2> QED
      BY <2>3, <2>5
  <1>15. \A i \in 1..(n + 1) : seen'[i] = Append(seen, Told(price, cum))[i]
    <2>1. \A i \in 1..(n + 1) : i \in 1..n \/ i = n + 1
      BY <1>1
    <2> QED
      BY <1>5, <1>12, <1>13, <2>1
  <1> QED
    BY <1>5, <1>14, <1>15, SeqEqual

\* A tick keeps the invariant: the first one, one in the same minute, one later.
LEMMA TickKeeps ==
    ASSUME IInv, TypeOK', Tick
    PROVE  IInv'
  <1> DEFINE n == Len(ticks)
  <1>1. TypeOK /\ Ordered /\ BarsMatchTicks /\ InOrder
    BY MatchIs, OrderIs DEF IInv
  <1>2. PICK t \in Trades, cum \in Nat :
           /\ process_tick(t.price, cum) /\ update_price(t.price, cum, t.strength)
           /\ ticks' = Append(ticks, [at |-> Now, price |-> t.price, cum |-> cum])
    <2>1. PICK t \in Trades :
             LET cum == IF t.missing THEN 0 ELSE (amount + t.price) \div t.price
             IN  /\ process_tick(t.price, cum) /\ update_price(t.price, cum, t.strength)
                 /\ ticks' = Append(ticks, [at |-> Now, price |-> t.price, cum |-> cum])
      BY DEF Tick
    <2>2. t.price \in Nat \ {0} /\ amount \in Nat
      BY <1>1, ConstantsAssumption DEF TypeOK
    <2>3. (IF t.missing THEN 0 ELSE (amount + t.price) \div t.price) \in Nat
      BY <2>2
    <2> QED
      BY <2>1, <2>3
  <1> DEFINE price == t.price
  <1>3. price \in Nat \ {0}
    BY ConstantsAssumption
  <1> HIDE DEF price
  <1>4. Hears(price, cum) /\ Processed(price, cum)
    <2>1. seen' = Append(seen, Told(price, cum))
      BY <1>1, <1>2, <1>3, SeenGrows DEF price
    <2> QED
      BY <1>1, <1>2, <1>3, <2>1 DEF Hears, Processed, price
  <1>5. UNCHANGED <<day, minute, loaded>>
    BY DEF Tick, clock
  <1>6. /\ AllBars' \in Seq(Bars) /\ Last(AllBars') = cur'.bar
        /\ StartOf(LastAt)' = lastCum'
        /\ LastOf(loaded \o Butlast(AllBars'), Window) = _append_limit(st.bars, Completed)
    BY <1>4, TickGrows
  <1>7. st'.bars = _append_limit(st.bars, Completed)
    <2>1. st \in [ bars : Kept(Bars, Window), cum : Nat, strength : Nat, rs : Int,
                tickVols : Kept(Nat \ {0}, Deque), chejan : Kept(Nat \ {0}, Deque),
                bid1 : Kept(Nat \ {0}, Deque), ask1 : Kept(Nat \ {0}, Deque),
                bids : Kept(Nat, Deque), ask : Nat, bid : Nat,
                buyers : {NoReading, <<-1>>, <<0>>, <<1>>}, flipAt : {Never} \cup Moments,
                trend : Kept(0..3, Deque) ]
      BY <1>1 DEF TypeOK
    <2> QED
      BY <1>2, <2>1 DEF update_price
  <1>8. /\ n \in Nat /\ DOMAIN ticks = 1..n /\ DOMAIN ticks' = 1..(n + 1)
        /\ \A i \in 1..n : ticks'[i] = ticks[i]
        /\ ticks'[n + 1].at = Now /\ ticks'[n + 1].cum = cum
        /\ ticks' # <<>> /\ Len(ticks') = n + 1
        /\ \A i \in 1..(n + 1) : i \in 1..n \/ i = n + 1
    <2> DEFINE x == [at |-> Now, price |-> price, cum |-> cum]
    <2>1. ticks \in Seq(Notes) /\ x \in Notes /\ n \in Nat /\ DOMAIN ticks = 1..n
      BY <1>1, <1>3, SeenIs DEF Notes
    <2>2. ticks' = Append(ticks, x) /\ x.at = Now /\ x.cum = cum
      BY <1>2 DEF price
    <2> HIDE DEF x, n
    <2>3. /\ ticks' \in Seq(Notes) /\ Len(ticks') = n + 1 /\ DOMAIN ticks' = 1..(n + 1)
          /\ \A i \in 1..n : ticks'[i] = ticks[i]
          /\ ticks'[n + 1] = x
      BY <2>1, <2>2, AppendProperties, LenProperties DEF n
    <2>4. ticks' # <<>> /\ \A i \in 1..(n + 1) : i \in 1..n \/ i = n + 1
      BY <2>1, <2>3, EmptySeq
    <2> QED
      BY <2>1, <2>2, <2>3, <2>4
  <1>9. Now \in Moments /\ \A i \in 1..n : ticks[i].at \in Moments
    BY <1>1, SeenIs
  <1>10. lastMin' = minute /\ cur'.cum = cum /\ Now[2] = minute
    BY <1>4 DEF Processed, process_tick, Now
  <1>11. BarsMatchTicks'
    <2>1. /\ st'.bars = LastOf(loaded' \o Butlast(AllBars'), Window)
          /\ cur'.bar = Last(AllBars')
      BY <1>5, <1>6, <1>7
    <2> QED
      BY <1>8, <2>1, MatchNext
  <1>s. /\ Len(seen) = n /\ DOMAIN seen' = 1..(n + 1)
        /\ \A i \in 1..n : seen'[i] = seen[i]
        /\ seen'[n + 1].at = Here
    <2>1. Len(seen) = n
      BY <1>1, SeenIs
    <2>2. /\ DOMAIN seen' = 1..(Len(seen) + 1)
          /\ \A i \in 1..Len(seen) : seen'[i] = seen[i]
          /\ seen'[Len(seen) + 1] = Told(price, cum)
      BY <1>4, OneMore
    <2>3. Told(price, cum).at = Here
      BY DEF Told
    <2> HIDE DEF n
    <2> QED
      BY ONLY <2>1, <2>2, <2>3
  <1> HIDE DEF n
  <1>12. Ordered'
    <2>0. n \in Nat
      BY <1>8
    <2>1. ASSUME NEW i \in 1..(n + 1), NEW j \in 1..(n + 1), i < j
          PROVE  /\ ~Earlier(ticks'[j].at, ticks'[i].at)
                 /\ ~Earlier(seen'[j].at, seen'[i].at)
      <3>1. i \in 1..n /\ (j \in 1..n \/ j = n + 1)
        BY <1>8, <2>0, <2>1
      <3>2. DOMAIN seen = 1..n
        BY <1>1, SeenIs DEF n
      <3>3. CASE j \in 1..n
        BY <1>1, <1>8, <1>s, <2>1, <3>1, <3>2, <3>3 DEF Ordered
      <3>4. CASE j = n + 1
        <4>1. ~Earlier(Now, ticks[i].at) /\ ~Earlier(Here, seen[i].at)
          BY <1>1, <1>8, <3>1, <3>2 DEF Ordered, InOrder
        <4> QED
          BY <1>8, <1>s, <3>1, <3>4, <4>1
      <3> QED
        BY <3>1, <3>3, <3>4
    <2>2. ASSUME NEW i \in 1..(n + 1) PROVE ~Earlier(Now, ticks'[i].at)
      <3>1. CASE i \in 1..n
        BY <1>1, <1>8, <3>1 DEF Ordered
      <3>2. CASE i = n + 1
        BY <1>8, <1>9, <3>2, EarlierOrders
      <3> QED
        BY <1>8, <3>1, <3>2
    <2>3. Now' = Now
      BY <1>5 DEF Now
    <2>4. /\ \A i, j \in DOMAIN ticks' : i < j => ~Earlier(ticks'[j].at, ticks'[i].at)
          /\ \A i, j \in DOMAIN seen' : i < j => ~Earlier(seen'[j].at, seen'[i].at)
          /\ \A i \in DOMAIN ticks' : ~Earlier(Now, ticks'[i].at)
      BY <1>8, <1>s, <2>1, <2>2
    <2>5. lastMin' # NoBar
      BY <1>1, <1>10, ConstantsAssumption DEF TypeOK, NoBar
    <2>6. /\ lastMin' = ticks'[Len(ticks')].at[2] /\ cur'.cum = ticks'[Len(ticks')].cum
          /\ lastCum' = StartOf(LastAt)'
      BY <1>6, <1>8, <1>10
    <2> QED
      BY <1>8, <2>3, <2>4, <2>5, <2>6 DEF Ordered, Earlier
  <1> QED
    BY <1>11, <1>12 DEF IInv

\* The bars are loaded, restored or dropped: the ticks are counted anew.
LEMMA ResetKeeps ==
    ASSUME TypeOK', ticks' = <<>>, lastMin' = NoBar, st'.bars = loaded'
    PROVE  IInv'
  <1>1. BarsMatchTicks'
    BY DEF BarsMatchTicks
  <1>2. DOMAIN ticks' = {} /\ DOMAIN seen' = {}
    BY DEF seen
  <1>3. Ordered'
    BY <1>2 DEF Ordered
  <1> QED
    BY <1>1, <1>3 DEF IInv

\* Time passes, or something else of the stock changes.
LEMMA OthersKeep ==
    ASSUME IInv, TypeOK', UNCHANGED <<ticks, lastMin, cur, lastCum, loaded>>,
           st'.bars = st.bars, \A m \in Moments : ~Earlier(Now, m) => ~Earlier(Now', m)
    PROVE  IInv'
  <1>1. TypeOK /\ Ordered /\ BarsMatchTicks
    BY MatchIs DEF IInv
  <1>2. \A i \in DOMAIN ticks : ticks[i].at \in Moments
    BY <1>1, SeenIs
  <1>s. seen' = seen /\ LastAt' = LastAt
    BY DEF seen, SeenAt, GoesOn, LastAt
  <1>3. CoveredMinutes' = CoveredMinutes
    BY <1>s DEF CoveredMinutes, MinutesOf, TicksOn
  <1>4. ASSUME NEW at PROVE BarOf(at)' = BarOf(at)
    BY <1>s DEF BarOf, StartOf, TicksOf, TicksBefore
  <1>5. BarsMatchTicks'
    <2>1. AllBars' = AllBars
      BY <1>3, <1>4 DEF AllBars
    <2>2. /\ ticks = <<>> => st.bars = loaded
          /\ ticks # <<>> => /\ st.bars = LastOf(loaded \o Butlast(AllBars), Window)
                             /\ cur.bar = Last(AllBars)
      BY <1>1 DEF BarsMatchTicks, AllBars
    <2> QED
      BY <2>1, <2>2, MatchNext
  <1>6. StartOf(LastAt)' = StartOf(LastAt)
    BY <1>s DEF StartOf, TicksOf, TicksBefore
  <1>7. Ordered'
    BY <1>1, <1>2, <1>s, <1>6 DEF Ordered
  <1> QED
    BY <1>5, <1>7 DEF IInv

\* What changes neither the ticks nor the bars.
LEMMA QuietKeeps ==
    ASSUME IInv, TypeOK', UNCHANGED <<day, minute, ticks, lastMin, cur, lastCum, loaded>>,
           st'.bars = st.bars
    PROVE  IInv'
  <1>1. Now' = Now
    BY DEF Now
  <1> QED
    BY <1>1, OthersKeep

\* No tick has come at the start.
LEMMA InvInit == Init => IInv
  <1> SUFFICES ASSUME Init PROVE IInv
    OBVIOUS
  <1>1. ticks = <<>> /\ lastMin = NoBar /\ st.bars = loaded
    BY DEF Init, Fresh
  <1>2. BarsMatchTicks
    BY <1>1, InitType DEF BarsMatchTicks
  <1>3. DOMAIN ticks = {} /\ DOMAIN seen = {}
    BY <1>1 DEF seen
  <1> QED
    BY <1>1, <1>2, <1>3 DEF IInv, Ordered

\* One step per action: a tick, a load or a drop, the passing of time, the rest.
LEMMA InvNext == IInv /\ [Next]_vars => IInv'
  <1> SUFFICES ASSUME IInv, [Next]_vars PROVE IInv'
    OBVIOUS
  <1>1. TypeOK /\ InOrder
    BY MatchIs, OrderIs DEF IInv
  <1>2. TypeOK'
    BY <1>1, StepType
  <1>3. /\ st = [st EXCEPT !.bars = st.bars]
        /\ day \in {1, 2} /\ minute \in 0..Minutes /\ Minutes \in Nat
    BY <1>1, ConstantsAssumption DEF TypeOK, Days
  <1>4. CASE Tick
    BY <1>2, <1>4, TickKeeps
  <1>5. ASSUME OtherUnchanged, st'.bars = st.bars PROVE IInv'
    BY <1>2, <1>5, QuietKeeps DEF OtherUnchanged, clock, processor, history
  <1>6. CASE update_hoga
    BY <1>3, <1>5, <1>6 DEF update_hoga
  <1>7. CASE update_investor
    BY <1>3, <1>5, <1>7 DEF update_investor
  <1>8. CASE bulk_update
    BY <1>3, <1>5, <1>8 DEF bulk_update
  <1>9. CASE set_min_candles_ohlc
    <2>1. PICK bars \in ServerBars :
             st' = [st EXCEPT !.bars = bars] /\ ResetProcessor(bars)
      BY <1>9 DEF set_min_candles_ohlc
    <2>2. st'.bars = bars
      BY <1>3, <2>1
    <2> QED
      BY <1>2, <2>1, <2>2, ResetKeeps DEF ResetProcessor
  <1>10. CASE cleanup_stale_data
    BY <1>2, <1>10, ResetKeeps DEF cleanup_stale_data, ResetProcessor, Fresh
  <1>11. CASE Restart
    BY <1>2, <1>11, ResetKeeps DEF Restart, ResetProcessor, Fresh
  <1>12. CASE Evaluate
    BY <1>3, <1>5, <1>12 DEF Evaluate, update_trend_level
  <1>13. CASE save_1min_cache
    BY <1>2, <1>13, QuietKeeps DEF save_1min_cache, clock, processor, history
  <1>14. CASE Minute
    <2>1. \A m \in Moments : ~Earlier(Now, m) => ~Earlier(Now', m)
      <3>1. \A m \in Moments : m[1] \in {1, 2} /\ m[2] \in Int
        BY <1>3, MomentIs
      <3> QED
        BY <1>3, <1>14, <3>1 DEF Minute, Earlier, Now
    <2> QED
      BY <1>2, <1>14, <2>1, OthersKeep DEF Minute, processor, history
  <1>15. CASE Overnight
    <2>1. \A m \in Moments : ~Earlier(Now, m) => ~Earlier(Now', m)
      <3>1. \A m \in Moments : m[1] \in {1, 2} /\ m[2] \in Int /\ m[2] >= 0
        BY <1>3, MomentIs
      <3> QED
        BY <1>3, <1>15, <3>1 DEF Overnight, Earlier, Now
    <2> QED
      BY <1>2, <1>15, <2>1, OthersKeep DEF Overnight, processor, history
  <1>16. CASE UNCHANGED vars
    BY <1>2, <1>16, QuietKeeps DEF vars
  <1> QED
    BY <1>4, <1>6, <1>7, <1>8, <1>9, <1>10, <1>11, <1>12, <1>13, <1>14, <1>15, <1>16
       DEF Next, Arrivals

-----------------------------------------------------------------------------
(* The averages and the trend when the last price is higher *)

\* Products and quotients grow with their parts.
LEMMA LargerTimes ==
    ASSUME NEW x \in Nat, NEW y \in Nat, x <= y, NEW k \in Nat
    PROVE  /\ x * k \in Nat /\ y * k \in Nat /\ x * k <= y * k
           /\ k * x \in Nat /\ k * y \in Nat /\ k * x <= k * y
  <1>1. PICK d \in Nat : y = x + d
    <2>1. y - x \in Nat /\ y = x + (y - x)
      OBVIOUS
    <2> QED
      BY <2>1
  <1>2. y * k = x * k + d * k /\ k * y = k * x + k * d
    BY <1>1
  <1>3. d * k \in Nat /\ x * k \in Nat /\ k * x \in Nat /\ k * d \in Nat
    OBVIOUS
  <1> QED
    BY <1>2, <1>3

\* A quotient is at least every number that fits.
LEMMA QuotientAbove ==
    ASSUME NEW x \in Nat, NEW b \in Nat \ {0}, NEW q \in Nat, q * b <= x
    PROVE  q <= x \div b /\ x \div b \in Nat
  <1> DEFINE d == x \div b
  <1>1. d \in Int /\ b * d <= x /\ x < b * d + b
    OBVIOUS
  <1> HIDE DEF d
  <1>2. d >= 0
    <2> SUFFICES ASSUME d < 0 PROVE FALSE
      BY <1>1
    <2>1. -(d + 1) \in Nat /\ b * (-(d + 1)) \in Nat
      BY <1>1
    <2>2. b * (-(d + 1)) = -(b * d + b)
      BY <1>1
    <2>3. b * d \in Int
      BY <1>1
    <2> QED
      BY <1>1, <2>1, <2>2, <2>3
  <1>3. ASSUME d < q PROVE FALSE
    <2>1. d + 1 \in Nat /\ d + 1 <= q
      BY <1>1, <1>2, <1>3
    <2>2. (d + 1) * b <= q * b
      BY <2>1, LargerTimes
    <2>3. (d + 1) * b = b * d + b
      BY <1>1
    <2>4. q * b \in Nat /\ b * d \in Int
      BY <1>1
    <2> QED
      BY <1>1, <2>2, <2>3, <2>4
  <1>4. q <= d /\ d \in Nat
    BY <1>1, <1>2, <1>3
  <1> QED
    BY <1>4 DEF d

\* A quotient fits.
LEMMA QuotientBelow ==
    ASSUME NEW x \in Nat, NEW b \in Nat \ {0}
    PROVE  x \div b \in Nat /\ (x \div b) * b <= x
  <1>1. x \div b \in Nat
    <2>1. 0 * b <= x
      OBVIOUS
    <2> QED
      BY <2>1, QuotientAbove
  <1> DEFINE d == x \div b
  <1>2. b * d <= x /\ b * d = d * b
    OBVIOUS
  <1> QED
    BY <1>1, <1>2

\* Division keeps the order.
LEMMA LargerQuotient ==
    ASSUME NEW x \in Nat, NEW y \in Nat, x <= y, NEW b \in Nat \ {0}
    PROVE  x \div b \in Nat /\ y \div b \in Nat /\ x \div b <= y \div b
  <1>1. x \div b \in Nat /\ (x \div b) * b <= x
    BY QuotientBelow
  <1> DEFINE q == x \div b
  <1>2. q \in Nat /\ q * b <= y
    <2>1. q * b \in Nat
      BY <1>1
    <2> QED
      BY <1>1, <2>1
  <1> HIDE DEF q
  <1>3. q <= y \div b /\ y \div b \in Nat
    BY <1>2, QuotientAbove
  <1> QED
    BY <1>2, <1>3 DEF q

\* A lower level at the end of the history.
LEMMA DropAdded ==
    ASSUME NEW h \in Kept(0..3, Deque), NEW level \in 0..2, Len(h) >= 2, level < Last(h)
    PROVE  LET a == Append(h, level)
           IN  /\ Len(a) = Len(h) + 1 /\ Climb(a) = 0 /\ Climb(h) \in Nat
               /\ Drops(h) \in Nat /\ Drops(a) = Drops(h) + 1
               /\ Greatest(h) \in 1..3 /\ Greatest(a) = Greatest(h)
  <1> DEFINE a == Append(h, level)
             n == Len(h)
  <1>1. h \in Seq(0..3) /\ h \in Seq(Nat) /\ n \in Nat /\ level \in Nat
    <2>1. h \in Seq(0..3)
      BY DEF Kept
    <2> QED
      BY <2>1, SeqMonotonic, LenProperties
  <1>2. /\ a \in Seq(Nat) /\ Len(a) = n + 1 /\ a[n + 1] = level
        /\ \A i \in 1..n : a[i] = h[i]
    BY <1>1, AppendProperties
  <1>3. /\ \A i \in 1..n : h[i] \in 0..3
        /\ Last(h) = h[n] /\ n \in 1..n /\ n >= 2
    BY <1>1, ElementOfSeq DEF Last
  <1> HIDE DEF a, n
  <1>4. Climb(a) = 0
    <2>1. ASSUME NEW i \in 2..(n + 1) PROVE ~ \A j \in i..(n + 1) : a[j] > a[j - 1]
      <3>1. n + 1 \in i..(n + 1) /\ n + 1 - 1 = n
        BY <1>1
      <3>2. ~(a[n + 1] > a[n])
        BY <1>2, <1>3
      <3>3. ASSUME \A j \in i..(n + 1) : a[j] > a[j - 1] PROVE FALSE
        <4>1. a[n + 1] > a[n + 1 - 1]
          BY <1>1, <3>1, <3>3
        <4> QED
          BY <3>1, <3>2, <4>1
      <3> QED
        BY <3>3
    <2>2. {i \in 2..(n + 1) : \A j \in i..(n + 1) : a[j] > a[j - 1]} = {}
      BY <2>1
    <2> QED
      BY <1>2, <2>2, FS_EmptySet DEF Climb
  <1>5. IsFiniteSet(2..n)
    BY <1>1, FS_Interval
  <1>6. Climb(h) \in Nat
    <2>1. IsFiniteSet({i \in 2..n : \A j \in i..n : h[j] > h[j - 1]})
      BY <1>5, FS_Subset
    <2> QED
      BY <2>1, FS_CardinalityType DEF Climb, n
  <1> DEFINE d == {i \in 2..n : h[i] < h[i - 1]}
             e == {i \in 2..(n + 1) : a[i] < a[i - 1]}
  <1>7. IsFiniteSet(d) /\ Cardinality(d) \in Nat
    <2>1. IsFiniteSet(d)
      BY <1>5, FS_Subset
    <2> QED
      BY <2>1, FS_CardinalityType
  <1>8. e = d \cup {n + 1} /\ n + 1 \notin d
    <2>1. \A i \in 2..n : i \in 1..n /\ i - 1 \in 1..n
      BY <1>1
    <2>2. \A i \in 2..n : a[i] = h[i] /\ a[i - 1] = h[i - 1]
      BY <1>2, <2>1
    <2>3. n + 1 \in 2..(n + 1) /\ n + 1 - 1 = n /\ a[n + 1] < a[n]
      BY <1>1, <1>2, <1>3
    <2>4. 2..(n + 1) = 2..n \cup {n + 1} /\ n + 1 \notin 2..n
      BY <1>1, <1>3
    <2>5. \A i \in 2..n : i \in d <=> i \in e
      BY <2>2, <2>4
    <2>6. n + 1 \in e
      <3>1. a[n + 1] < a[n + 1 - 1]
        BY ONLY <2>3
      <3>2. \A k \in 2..(n + 1) : a[k] < a[k - 1] => k \in e
        OBVIOUS
      <3> HIDE DEF d, e
      <3> QED
        <4>1. PICK k : k = n + 1
          OBVIOUS
        <4>2. k \in 2..(n + 1) /\ a[k] < a[k - 1]
          <5>1. k \in Int /\ k - 1 = n /\ k \in 2..(n + 1)
            BY <1>1, <2>3, <4>1
          <5> QED
            BY <2>3, <4>1, <5>1
        <4>3. k \in e
          BY ONLY <4>2, <3>2
        <4> QED
          BY ONLY <4>1, <4>3
    <2>7. d \subseteq 2..n /\ e \subseteq 2..(n + 1)
      OBVIOUS
    <2> HIDE DEF d, e
    <2> QED
      BY ONLY <2>4, <2>5, <2>6, <2>7
  <1>9. Drops(h) \in Nat /\ Drops(a) = Drops(h) + 1
    <2>1. Drops(h) = Cardinality(d) /\ Drops(a) = Cardinality(e)
      BY <1>2 DEF Drops, n
    <2> HIDE DEF d, e
    <2> QED
      BY <1>7, <1>8, <2>1, FS_AddElement
  <1>10. /\ Greatest(h) \in Nat /\ \A i \in 1..n : h[i] <= Greatest(h)
         /\ Greatest(h) = 0 \/ \E i \in 1..n : Greatest(h) = h[i]
    BY <1>1, GreatestOf DEF n
  <1>11. Greatest(h) \in 1..3
    <2>1. h[n] <= Greatest(h) /\ h[n] > level
      BY <1>3, <1>10
    <2> QED
      BY <1>1, <1>3, <1>10, <2>1
  <1>12. Greatest(a) = Greatest(h)
    <2>1. ASSUME NEW i \in 1..(n + 1) PROVE a[i] <= Greatest(h)
      <3>1. CASE i \in 1..n
        BY <1>2, <1>10, <3>1
      <3>2. CASE i = n + 1
        <4>1. h[n] <= Greatest(h) /\ h[n] \in 0..3
          BY <1>3, <1>10
        <4> QED
          BY <1>2, <1>3, <1>10, <3>2, <4>1
      <3> QED
        BY <1>1, <3>1, <3>2
    <2>2. Greatest(h) = 0 \/ \E i \in 1..(n + 1) : Greatest(h) = a[i]
      <3>1. \A i \in 1..n : i \in 1..(n + 1)
        BY <1>1
      <3> QED
        BY <1>2, <1>10, <3>1
    <2> QED
      BY <1>2, <1>10, <2>1, <2>2, GreatestIs
  <1> QED
    BY <1>2, <1>4, <1>6, <1>9, <1>11, <1>12 DEF a, n

\* A lower level of the trend at the end does not raise the momentum.
LEMMA MomentumFalls ==
    ASSUME NEW h \in Kept(0..3, Deque), NEW level \in 0..2, Len(h) >= 2, level < Last(h)
    PROVE  /\ calc_trend_momentum(h) \in Nat /\ calc_trend_momentum(Append(h, level)) \in Nat
           /\ calc_trend_momentum(Append(h, level)) <= calc_trend_momentum(h)
  <1> DEFINE a == Append(h, level)
             c == Climb(h)
             d == Drops(h)
             p == Greatest(h)
             b == MomentumBase(c, p)
             z == MomentumBase(0, p)
             s == Stability(h)
             t == Stability(a)
  <1>1. /\ Len(a) = Len(h) + 1 /\ Climb(a) = 0 /\ c \in Nat
        /\ d \in Nat /\ Drops(a) = d + 1
        /\ p \in 1..3 /\ Greatest(a) = p
    BY DropAdded
  <1>2. Len(h) \in Nat
    BY LenProperties DEF Kept
  <1>3. calc_trend_momentum(h) = b * s /\ calc_trend_momentum(a) = z * t
    <2>1. ~(Len(h) < 2) /\ ~(Len(a) < 2)
      BY <1>1, <1>2
    <2> HIDE DEF a
    <2> QED
      BY <1>1, <2>1 DEF calc_trend_momentum
  <1>4. s = AtLeast(0, 10 - 2 * d) /\ t = AtLeast(0, 10 - 2 * (d + 1))
    BY <1>1 DEF Stability
  <1> HIDE DEF a, c, d, p, s, t
  <1>5. /\ s \in {0, 2, 4, 6, 8, 10} /\ t = IF s = 0 THEN 0 ELSE s - 2
    <2>1. d \in {0, 1, 2, 3, 4} \/ d >= 5
      BY <1>1
    <2> QED
      BY <1>1, <1>4, <2>1 DEF AtLeast
  <1>6. /\ b \in Nat /\ z \in {2, 12, 30}
        /\ z <= b \/ (z = 30 /\ b >= 25)
    <2>1. p \in {1, 2, 3}
      BY <1>1
    <2> QED
      BY <1>1, <2>1, SMT DEF MomentumBase
  <1> HIDE DEF b, z
  <1>7. b * s \in Nat /\ z * t \in Nat /\ z * t <= b * s
    BY <1>5, <1>6
  <1> QED
    BY <1>3, <1>7 DEF a

\* The watch score follows the momentum.
LEMMA WatchFalls ==
    ASSUME NEW h, NEW a, NEW c \in Kept(Nat \ {0}, Deque), NEW minutes \in {3, 10, 20},
           calc_trend_momentum(h) \in Nat, calc_trend_momentum(a) \in Nat,
           calc_trend_momentum(a) <= calc_trend_momentum(h)
    PROVE  calc_opening_watch_score(a, 500, c, 500, minutes)
              <= calc_opening_watch_score(h, 500, c, 500, minutes)
  <1> DEFINE mean == IF c = <<>> THEN 100 ELSE Total(c) \div Len(c)
             strong == AtMost(AtLeast(10 * (mean - 100), 0), 1000)
             rest == 25 * 500 + 20 * strong + 15 * AtMost(500, 1000)
             x == 40 * calc_trend_momentum(a)
             y == 40 * calc_trend_momentum(h)
  <1>1. mean \in Nat
    <2>1. ASSUME c # <<>> PROVE Total(c) \div Len(c) \in Nat
      <3>1. c \in Seq(Nat) /\ Len(c) \in Nat \ {0}
        BY <2>1, EmptySeq, SeqMonotonic DEF Kept
      <3>2. Total(c) \in Nat
        BY <3>1, TotalBounded
      <3> QED
        BY <3>1, <3>2, QuotientBelow
    <2> QED
      BY <2>1
  <1> HIDE DEF mean
  <1>2. strong \in Nat
    BY <1>1 DEF AtMost, AtLeast
  <1> HIDE DEF strong
  <1>3. rest \in Nat
    BY <1>2 DEF AtMost
  <1>4. /\ calc_opening_watch_score(a, 500, c, 500, minutes)
             = AtMost(((x + 25 * 500 + 20 * strong + 15 * AtMost(500, 1000))
                       * Discount(minutes)) \div 2000, 1000)
        /\ calc_opening_watch_score(h, 500, c, 500, minutes)
             = AtMost(((y + 25 * 500 + 20 * strong + 15 * AtMost(500, 1000))
                       * Discount(minutes)) \div 2000, 1000)
    BY DEF calc_opening_watch_score, mean, strong
  <1>5. x \in Nat /\ y \in Nat /\ x <= y
    OBVIOUS
  <1> HIDE DEF x, y
  <1>6. /\ x + 25 * 500 + 20 * strong + 15 * AtMost(500, 1000) = x + rest
        /\ y + 25 * 500 + 20 * strong + 15 * AtMost(500, 1000) = y + rest
    BY <1>2, <1>5 DEF AtMost
  <1> HIDE DEF rest
  <1>7. Discount(minutes) \in Nat
    BY DEF Discount
  <1>8. /\ (x + rest) * Discount(minutes) \in Nat /\ (y + rest) * Discount(minutes) \in Nat
        /\ (x + rest) * Discount(minutes) <= (y + rest) * Discount(minutes)
    <2>1. x + rest \in Nat /\ y + rest \in Nat /\ x + rest <= y + rest
      BY <1>3, <1>5
    <2> QED
      BY <1>7, <2>1, LargerTimes
  <1>9. /\ ((x + rest) * Discount(minutes)) \div 2000 \in Nat
        /\ ((y + rest) * Discount(minutes)) \div 2000 \in Nat
        /\ ((x + rest) * Discount(minutes)) \div 2000 <= ((y + rest) * Discount(minutes)) \div 2000
    BY <1>8, LargerQuotient
  <1> DEFINE u == ((x + rest) * Discount(minutes)) \div 2000
             v == ((y + rest) * Discount(minutes)) \div 2000
  <1>10. AtMost(u, 1000) <= AtMost(v, 1000)
    <2> HIDE DEF u, v
    <2>1. u \in Nat /\ v \in Nat /\ u <= v
      BY <1>9 DEF u, v
    <2> QED
      BY <2>1 DEF AtMost
  <1> QED
    BY <1>4, <1>6, <1>10

\* Of a history with one more level the ones that stay come first.
LEMMA StayingIs ==
    ASSUME NEW h \in Kept(0..3, Deque), NEW level \in 0..2, Len(Staying(h)) >= 2
    PROVE  /\ Staying(h) \in Kept(0..3, Deque) /\ Last(Staying(h)) = Last(h)
           /\ LastOf(Append(h, level), Deque) = Append(Staying(h), level)
  <1>1. /\ h \in Seq(0..3) /\ Len(h) \in Nat /\ Len(h) <= Deque /\ Deque \in Nat \ {0}
        /\ level \in 0..3
    BY ConstantsAssumption, LenProperties DEF Kept
  <1> DEFINE a == Append(h, level)
  <1>2. /\ a \in Seq(0..3) /\ Len(a) = Len(h) + 1 /\ a[Len(h) + 1] = level
        /\ \A i \in 1..Len(h) : a[i] = h[i]
    BY <1>1, AppendProperties
  <1> HIDE DEF a
  <1>3. /\ LastOf(a, Deque) \in Seq(0..3)
        /\ Len(LastOf(a, Deque)) = IF Len(a) > Deque THEN Deque ELSE Len(a)
        /\ \A i \in 1..Len(LastOf(a, Deque)) :
              LastOf(a, Deque)[i] = a[Len(a) - Len(LastOf(a, Deque)) + i]
        /\ Len(a) <= Deque => LastOf(a, Deque) = a
    BY <1>1, <1>2, LastOfIs DEF Kept
  <1>4. CASE Len(h) < Deque
    <2>1. Staying(h) = h
      BY <1>4 DEF Staying
    <2>2. LastOf(a, Deque) = a
      BY <1>1, <1>2, <1>3, <1>4
    <2> QED
      BY <2>1, <2>2 DEF a
  <1>5. CASE ~(Len(h) < Deque)
    <2> DEFINE t == Tail(h)
               n == Len(h)
    <2>1. Staying(h) = t /\ n = Deque
      BY <1>1, <1>5 DEF Staying
    <2>2. h # <<>>
      BY <1>1, <2>1, EmptySeq
    <2>3. /\ t \in Seq(0..3) /\ Len(t) = n - 1
          /\ \A i \in 1..Len(t) : t[i] = h[i + 1]
      BY <1>1, <2>2, HeadTailProperties
    <2> HIDE DEF t, n
    <2>4. n \in Nat /\ n - 1 >= 2 /\ n = Len(h)
      BY <1>1, <2>1, <2>3 DEF n
    <2>5. t \in Kept(0..3, Deque)
      BY <2>1, <2>3, <2>4 DEF Kept
    <2>6. Last(t) = h[n] /\ Last(h) = h[n]
      <3>1. n - 1 \in 1..(n - 1) /\ n - 1 + 1 = n
        BY <2>4
      <3>2. t[n - 1] = h[n]
        BY <2>3, <3>1
      <3> QED
        BY <2>3, <2>4, <3>2 DEF Last
    <2> DEFINE x == LastOf(a, Deque)
               y == Append(t, level)
    <2>7. /\ y \in Seq(0..3) /\ Len(y) = n /\ y[n] = level
          /\ \A i \in 1..(n - 1) : y[i] = t[i]
      <3>1. /\ y \in Seq(0..3) /\ Len(y) = Len(t) + 1 /\ y[Len(t) + 1] = level
            /\ \A i \in 1..Len(t) : y[i] = t[i]
        BY <1>1, <2>3, AppendProperties
      <3>2. Len(t) + 1 = n
        BY <2>3, <2>4
      <3> HIDE DEF y
      <3> QED
        BY <2>3, <3>1, <3>2
    <2>8. /\ x \in Seq(0..3) /\ Len(x) = n /\ Len(a) = n + 1
          /\ \A i \in 1..n : x[i] = a[i + 1]
      <3>1. Len(a) = n + 1 /\ Len(x) = n /\ x \in Seq(0..3)
        BY <1>2, <1>3, <2>1, <2>4
      <3>2. ASSUME NEW i \in 1..n PROVE x[i] = a[i + 1]
        <4>1. n + 1 - n + i = i + 1
          BY <2>4
        <4> HIDE DEF x
        <4>2. x[i] = a[Len(a) - Len(x) + i]
          BY <1>3, <3>1 DEF x
        <4> QED
          BY <3>1, <4>1, <4>2
      <3> QED
        BY <3>1, <3>2
    <2> HIDE DEF x, y
    <2>9. ASSUME NEW i \in 1..n PROVE x[i] = y[i]
      <3>1. CASE i = n
        BY <1>2, <2>4, <2>7, <2>8, <3>1
      <3>2. CASE i # n
        <4>1. i \in 1..(n - 1) /\ i + 1 \in 1..n
          BY <2>4, <3>2
        <4>2. y[i] = h[i + 1] /\ a[i + 1] = h[i + 1]
          BY <1>2, <2>3, <2>4, <2>7, <4>1
        <4> QED
          BY <2>8, <4>2
      <3> QED
        BY <3>1, <3>2
    <2>10. x = y
      BY <2>7, <2>8, <2>9, SeqEqual
    <2> QED
      BY <2>1, <2>5, <2>6, <2>10 DEF a, x, y
  <1> QED
    BY <1>4, <1>5 DEF a

\* A level below the last one raises neither, beside the levels it joins.
LEMMA FallingTrend ==
    ASSUME TypeOK, NEW level \in 0..2
    PROVE  Dampened(st.trend, level)
  <1>1. st.trend \in Kept(0..3, Deque) /\ st.chejan \in Kept(Nat \ {0}, Deque)
    BY DEF TypeOK
  <1> DEFINE h == Staying(st.trend)
             a == LastOf(Append(st.trend, level), Deque)
  <1> SUFFICES ASSUME Len(h) >= 2, level < Last(st.trend)
               PROVE  /\ calc_trend_momentum(a) <= calc_trend_momentum(h)
                      /\ \A minutes \in {3, 10, 20} :
                            calc_opening_watch_score(a, 500, st.chejan, 500, minutes)
                              <= calc_opening_watch_score(h, 500, st.chejan, 500, minutes)
    BY DEF Dampened
  <1>2. h \in Kept(0..3, Deque) /\ level < Last(h) /\ a = Append(h, level)
    BY <1>1, StayingIs
  <1> HIDE DEF h, a
  <1>3. /\ calc_trend_momentum(h) \in Nat
        /\ calc_trend_momentum(a) \in Nat
        /\ calc_trend_momentum(a) <= calc_trend_momentum(h)
    BY <1>2, MomentumFalls
  <1> QED
    BY <1>1, <1>3, WatchFalls

Fractions == [num : Nat, den : Nat \ {0}]

\* The average of one value, and the average with one more.
Alone(value) == [num |-> value, den |-> 1]
Averaged(before, value, part, whole) ==
    [ num |-> (whole - part) * before.num + part * value * before.den,
      den |-> whole * before.den ]

\* The averages of the beginnings of a list exist.
LEMMA AveragesExist ==
    ASSUME NEW x \in Seq(Nat), Len(x) > 0, NEW part, NEW whole, NEW f, f = Averages(x, part, whole)
    PROVE  /\ f[1] = Alone(x[1])
           /\ \A i \in 2..Len(x) : f[i] = Averaged(f[i - 1], x[i], part, whole)
  <1> DEFINE Step(before, i) == Averaged(before, x[i], part, whole)
             First == Alone(x[1])
             Avs(k, g) == g = [i \in 1..k |-> IF i = 1 THEN First ELSE Step(g[i - 1], i)]
             S == {k \in 0..Len(x) : \E g : Avs(k, g)}
  <1>a. Len(x) \in Nat /\ DOMAIN x = 1..Len(x)
    BY LenProperties
  <1> HIDE DEF Step, First
  <1>1. 0 \in S
    <2> DEFINE z == [i \in 1..0 |-> First]
    <2>1. z = [i \in 1..0 |-> IF i = 1 THEN First ELSE Step(z[i - 1], i)]
      OBVIOUS
    <2>2. Avs(0, z)
      BY <2>1
    <2>3. \E g : Avs(0, g)
      BY <2>2
    <2>4. 0 \in 0..Len(x)
      BY <1>a
    <2> HIDE DEF Avs
    <2> QED
      BY <2>3, <2>4
  <1>2. ASSUME NEW m \in 0..(Len(x) - 1), m \in S PROVE m + 1 \in S
    <2> DEFINE k == m + 1
    <2>1. PICK g : Avs(m, g)
      BY <1>2
    <2> DEFINE last == IF k = 1 THEN First ELSE Step(g[m], k)
               h == [i \in 1..k |-> IF i = k THEN last ELSE g[i]]
    <2>2. \A i \in 1..m : g[i] = IF i = 1 THEN First ELSE Step(g[i - 1], i)
      BY <2>1
    <2>3. ASSUME NEW i \in 1..k PROVE h[i] = IF i = 1 THEN First ELSE Step(h[i - 1], i)
      <3>1. CASE i = k
        <4>1. k # 1 => i - 1 \in 1..k /\ i - 1 # k /\ i - 1 = m
          BY <3>1
        <4>2. h[i] = last
          BY <3>1
        <4>3. k # 1 => h[i - 1] = g[m]
          BY <4>1
        <4> HIDE DEF h
        <4> QED
          BY <3>1, <4>2, <4>3
      <3>2. CASE i # k
        <4>1. i \in 1..m /\ (i # 1 => i - 1 \in 1..k /\ i - 1 # k)
          BY <3>2
        <4>2. h[i] = g[i] /\ (i # 1 => h[i - 1] = g[i - 1])
          BY <3>2, <4>1
        <4> HIDE DEF h
        <4> QED
          BY <2>2, <4>1, <4>2
      <3> QED
        BY <3>1, <3>2
    <2>4. h = [i \in 1..k |-> IF i = 1 THEN First ELSE Step(h[i - 1], i)]
      BY <2>3
    <2>5. k \in 0..Len(x)
      BY <1>a
    <2> QED
      BY <2>4, <2>5
  <1>3. Len(x) \in S
    <2> HIDE DEF S
    <2>1. \A k \in 0..(Len(x) - 1) : k \in S => k + 1 \in S
      BY <1>2
    <2>2. \A k \in 0..Len(x) : k \in S
      BY <1>1, <1>a, <2>1, UpTo
    <2> QED
      BY <1>a, <2>2
  <1>4. \E g : Avs(Len(x), g)
    BY <1>3
  <1>b. Avs(Len(x), Averages(x, part, whole))
    BY <1>4, <1>a DEF Averages, Alone, Averaged, Step, First
  <1>5. Avs(Len(x), f)
    BY <1>b
  <1>6. 1 \in 1..Len(x) /\ \A i \in 2..Len(x) : i \in 1..Len(x) /\ i # 1
    BY <1>a
  <1>7. \A i \in 1..Len(x) : f[i] = IF i = 1 THEN First ELSE Step(f[i - 1], i)
    BY <1>5
  <1> QED
    BY <1>6, <1>7 DEF First, Step

\* Averages of numbers are fractions.
LEMMA AveragesAre ==
    ASSUME NEW x \in Seq(Nat), NEW whole \in Nat \ {0}, NEW part \in 0..whole
    PROVE  \A i \in 1..Len(x) : Averages(x, part, whole)[i] \in Fractions
  <1>f. PICK f : f = Averages(x, part, whole)
    OBVIOUS
  <1> DEFINE F == [num : Nat, den : Nat \ {0}]
             S == {k \in 0..Len(x) : k = 0 \/ f[k] \in F}
  <1>a. Len(x) \in Nat /\ \A i \in 1..Len(x) : x[i] \in Nat
    BY LenProperties, ElementOfSeq
  <1>1. 0 \in S
    BY <1>a
  <1>2. ASSUME NEW k \in 0..(Len(x) - 1), k \in S PROVE k + 1 \in S
    <2>0. Len(x) > 0 /\ k + 1 \in 0..Len(x) /\ k + 1 \in 1..Len(x) /\ x[k + 1] \in Nat
      BY <1>a
    <2>9. \A i \in 2..Len(x) : f[i]
             = Averaged(f[i - 1], x[i], part, whole)
      BY <1>f, <2>0, AveragesExist
    <2>1. CASE k = 0
      <3>1. f[1] = Alone(x[1])
        BY <1>f, <2>0, AveragesExist
      <3>2. f[k + 1] \in F
        BY <2>0, <2>1, <3>1 DEF Alone
      <3> QED
        BY <2>0, <3>2
    <2>2. CASE k # 0
      <3>1. k + 1 \in 2..Len(x) /\ k + 1 - 1 = k
        BY <1>a, <2>2
      <3>2. f[k + 1] = Averaged(f[k], x[k + 1], part, whole)
        BY <2>9, <3>1
      <3>3. f[k] \in F
        BY <1>2, <2>2
      <3>4. PICK n \in Nat, d \in Nat \ {0} : f[k].num = n /\ f[k].den = d
        BY <3>3
      <3>5. PICK e \in Nat : e = x[k + 1]
        BY <2>0
      <3>6. (whole - part) * n \in Nat /\ part * e * d \in Nat /\ whole * d \in Nat \ {0}
        <4>1. whole - part \in Nat /\ part \in Nat
          OBVIOUS
        <4>2. (whole - part) * n \in Nat
          BY ONLY <4>1, <3>4
        <4>3. part * e \in Nat
          BY <4>1
        <4>4. (part * e) * d \in Nat
          BY <4>3
        <4>5. whole * d \in Nat /\ whole * d >= d
          <5>1. whole * d = (whole - 1) * d + d /\ (whole - 1) * d \in Nat
            OBVIOUS
          <5> QED
            BY <5>1
        <4> QED
          BY <4>2, <4>4, <4>5
      <3>7. f[k + 1] = [num |-> (whole - part) * n + part * e * d, den |-> whole * d]
        BY <3>2, <3>4, <3>5 DEF Averaged
      <3>8. (whole - part) * n + part * e * d \in Nat
        BY <3>6
      <3>9. f[k + 1] \in F
        BY <3>6, <3>7, <3>8
      <3> QED
        BY <2>0, <3>9
    <2> QED
      BY <2>1, <2>2
  <1>3. \A k \in 0..Len(x) : k \in S
    <2> HIDE DEF S
    <2> QED
      BY <1>1, <1>2, <1>a, UpTo
  <1> QED
    BY <1>a, <1>f, <1>3 DEF Fractions

\* Lists that begin alike have averages that begin alike.
LEMMA AveragesAlike ==
    ASSUME NEW x \in Seq(Nat), NEW y \in Seq(Nat), Len(x) = Len(y), NEW part, NEW whole,
           \A i \in 1..(Len(x) - 1) : x[i] = y[i]
    PROVE  \A i \in 1..(Len(x) - 1) : Averages(x, part, whole)[i] = Averages(y, part, whole)[i]
  <1>f. PICK f : f = Averages(x, part, whole)
    OBVIOUS
  <1>g. PICK g : g = Averages(y, part, whole)
    OBVIOUS
  <1> DEFINE S == {k \in Nat : k \in 1..(Len(x) - 1) => f[k] = g[k]}
  <1>a. Len(x) \in Nat
    BY LenProperties
  <1>1. 0 \in S
    OBVIOUS
  <1>2. ASSUME NEW k \in Nat, k \in S PROVE k + 1 \in S
    <2> SUFFICES ASSUME k + 1 \in 1..(Len(x) - 1) PROVE f[k + 1] = g[k + 1]
      OBVIOUS
    <2>0. x[k + 1] = y[k + 1]
      OBVIOUS
    <2>a. x \in Seq(Nat) /\ Len(x) > 0
      BY <1>a
    <2>b. y \in Seq(Nat) /\ Len(y) > 0
      BY <1>a
    <2>9. \A i \in 2..Len(x) : f[i]
             = Averaged(f[i - 1], x[i], part, whole)
      BY ONLY <1>f, <2>a, AveragesExist
    <2>8. \A i \in 2..Len(y) : g[i]
             = Averaged(g[i - 1], y[i], part, whole)
      BY ONLY <1>g, <2>b, AveragesExist
    <2>1. CASE k = 0
      <3>1. f[1] = Alone(x[1]) /\ g[1] = Alone(y[1])
        BY <1>f, <1>g, <2>a, <2>b, AveragesExist
      <3> QED
        BY <2>0, <2>1, <3>1
    <2>2. CASE k # 0
      <3>1. k + 1 \in 2..Len(x) /\ k + 1 \in 2..Len(y) /\ k + 1 - 1 = k /\ k \in 1..(Len(x) - 1)
        BY <1>a, <2>2, SMTT(30)
      <3>2. f[k + 1] = Averaged(f[k], x[k + 1], part, whole)
        BY <2>9, <3>1
      <3>3. g[k + 1] = Averaged(g[k], y[k + 1], part, whole)
        BY <2>8, <3>1
      <3>4. f[k] = g[k]
        BY <1>2, <3>1
      <3> QED
        BY <2>0, <3>2, <3>3, <3>4
    <2> QED
      BY <2>1, <2>2
  <1>3. ASSUME NEW k \in 1..(Len(x) - 1) PROVE f[k] = g[k]
    <2>1. k \in Nat /\ k \in 0..k
      OBVIOUS
    <2>2. k \in S
      <3> HIDE DEF S
      <3>1. \A j \in 0..(k - 1) : j \in S => j + 1 \in S
        BY <1>2
      <3> QED
        BY <1>1, <2>1, <3>1, UpTo
    <2> QED
      BY <2>2
  <1> QED
    BY <1>f, <1>g, <1>3

\* The average as it depends on the last value.
LEMMA LastAveraged ==
    ASSUME NEW x \in Seq(Nat), NEW y \in Seq(Nat), Len(x) = Len(y), Len(x) > 1,
           NEW whole \in Nat \ {0}, NEW part \in 0..whole,
           \A i \in 1..(Len(x) - 1) : x[i] = y[i]
    PROVE  \E before \in Fractions :
              /\ Smoothed(x, part, whole) = Averaged(before, x[Len(x)], part, whole)
              /\ Smoothed(y, part, whole) = Averaged(before, y[Len(y)], part, whole)
  <1>f. PICK f : f = Averages(x, part, whole)
    OBVIOUS
  <1>g. PICK g : g = Averages(y, part, whole)
    OBVIOUS
  <1>k. PICK k : k = Len(x)
    OBVIOUS
  <1>1. k \in Nat /\ k \in 2..k /\ k - 1 \in 1..(k - 1) /\ k - 1 \in 1..k
    BY <1>k, LenProperties
  <1>2. x \in Seq(Nat) /\ Len(x) > 0 /\ y \in Seq(Nat) /\ Len(y) > 0
    BY <1>1, <1>k
  <1>3. \A i \in 2..Len(x) : f[i] = Averaged(f[i - 1], x[i], part, whole)
    BY ONLY <1>f, <1>2, AveragesExist
  <1>4. \A i \in 2..Len(y) : g[i] = Averaged(g[i - 1], y[i], part, whole)
    BY ONLY <1>g, <1>2, AveragesExist
  <1>5. \A i \in 1..(Len(x) - 1) : f[i] = g[i]
    <2>1. \A i \in 1..(Len(x) - 1) : Averages(x, part, whole)[i] = Averages(y, part, whole)[i]
      BY AveragesAlike, SMTT(30)
    <2> QED
      BY ONLY <1>f, <1>g, <2>1
  <1>6. f[k - 1] \in Fractions /\ f[k - 1] = g[k - 1]
    <2>1. \A i \in 1..Len(x) : f[i] \in Fractions
      BY <1>f, AveragesAre
    <2> QED
      BY <1>1, <1>5, <1>k, <2>1
  <1>7. f[k] = Averaged(f[k - 1], x[k], part, whole) /\ g[k] = Averaged(f[k - 1], y[k], part, whole)
    BY <1>1, <1>3, <1>4, <1>6, <1>k
  <1>8. Smoothed(x, part, whole) = f[k] /\ Smoothed(y, part, whole) = g[k]
    BY <1>f, <1>g, <1>k DEF Smoothed
  <1> QED
    BY <1>6, <1>7, <1>8, <1>k

\* The average of one value is that value.
LEMMA OneAveraged ==
    ASSUME NEW x \in Seq(Nat), Len(x) = 1, NEW part, NEW whole
    PROVE  Smoothed(x, part, whole) = [num |-> x[1], den |-> 1]
  <1>f. PICK f : f = Averages(x, part, whole)
    OBVIOUS
  <1>2. x \in Seq(Nat) /\ Len(x) > 0
    OBVIOUS
  <1>3. f[1] = Alone(x[1])
    BY ONLY <1>f, <1>2, AveragesExist
  <1> QED
    BY <1>f, <1>3 DEF Smoothed, Alone

\* An exponential average of values is a fraction.
LEMMA SmoothedIs ==
    ASSUME NEW x \in Seq(Nat), Len(x) > 0, NEW whole \in Nat \ {0}, NEW part \in 0..whole
    PROVE  Smoothed(x, part, whole) \in Fractions
  <1>1. Len(x) \in 1..Len(x)
    BY LenProperties
  <1> QED
    BY <1>1, AveragesAre DEF Smoothed

\* The first fraction is not above the second.
Below(a, b) == a \in Fractions /\ b \in Fractions /\ a.den = b.den /\ a.num <= b.num

\* It is no lower for a higher last value.
LEMMA HigherValue ==
    ASSUME NEW before \in Fractions, NEW u \in Nat, NEW v \in Nat, u <= v,
           NEW whole \in Nat \ {0}, NEW part \in 0..whole
    PROVE  Below(Averaged(before, u, part, whole), Averaged(before, v, part, whole))
  <1>1. whole - part \in Nat /\ part \in Nat /\ whole \in Nat
    OBVIOUS
  <1>2. PICK n \in Nat, d \in Nat \ {0} : before.num = n /\ before.den = d
    BY DEF Fractions
  <1>3. PICK rest \in Nat : rest = (whole - part) * n
    <2>1. (whole - part) * n \in Nat
      BY <1>1
    <2> QED
      BY <2>1
  <1>4. part * u \in Nat /\ part * v \in Nat /\ part * u <= part * v
    BY <1>1, LargerTimes
  <1>5. part * u * d \in Nat /\ part * v * d \in Nat /\ part * u * d <= part * v * d
    BY <1>4, LargerTimes
  <1>6. PICK r \in Nat : r = part * u * d
    BY <1>5
  <1>7. PICK s \in Nat : s = part * v * d
    BY <1>5
  <1>8. r <= s
    BY <1>5, <1>6, <1>7
  <1>9. PICK e \in Nat \ {0} : e = whole * d
    <2>1. whole * d = (whole - 1) * d + d /\ (whole - 1) * d \in Nat
      OBVIOUS
    <2> QED
      BY <2>1
  <1>10. /\ Averaged(before, u, part, whole) = [num |-> rest + r, den |-> e]
         /\ Averaged(before, v, part, whole) = [num |-> rest + s, den |-> e]
    BY <1>2, <1>3, <1>6, <1>7, <1>9 DEF Averaged
  <1>11. rest + r \in Nat /\ rest + s \in Nat /\ rest + r <= rest + s
    BY <1>8
  <1> QED
    BY <1>10, <1>11 DEF Below, Fractions

\* A higher last value makes a higher average.
LEMMA HigherAverage ==
    ASSUME NEW x \in Seq(Nat), NEW y \in Seq(Nat), Len(x) = Len(y), Len(x) > 0,
           NEW whole \in Nat \ {0}, NEW part \in 0..whole,
           \A i \in 1..(Len(x) - 1) : x[i] = y[i],
           x[Len(x)] <= y[Len(x)]
    PROVE  Below(Smoothed(x, part, whole), Smoothed(y, part, whole))
  <1>1. Len(x) \in Nat /\ Len(x) \in 1..Len(x) /\ x[Len(x)] \in Nat /\ y[Len(x)] \in Nat
    BY LenProperties, ElementOfSeq
  <1>2. /\ Smoothed(x, part, whole) \in Fractions
        /\ Smoothed(y, part, whole) \in Fractions
    BY SmoothedIs
  <1>3. CASE Len(x) = 1
    <2>1. Smoothed(x, part, whole) = [num |-> x[1], den |-> 1]
      BY <1>3, OneAveraged
    <2>2. Smoothed(y, part, whole) = [num |-> y[1], den |-> 1]
      BY <1>3, OneAveraged
    <2> QED
      BY <1>1, <1>2, <1>3, <2>1, <2>2 DEF Below
  <1>4. CASE Len(x) > 1
    <2>0. x[Len(x)] \in Nat /\ y[Len(y)] \in Nat /\ x[Len(x)] <= y[Len(y)]
      BY <1>1
    <2>1. PICK before \in Fractions :
              /\ Smoothed(x, part, whole) = Averaged(before, x[Len(x)], part, whole)
              /\ Smoothed(y, part, whole) = Averaged(before, y[Len(y)], part, whole)
      <3>1. /\ x \in Seq(Nat) /\ y \in Seq(Nat) /\ Len(x) = Len(y) /\ Len(x) > 1
            /\ whole \in Nat \ {0} /\ part \in 0..whole
        BY <1>4
      <3>2. \A i \in 1..(Len(x) - 1) : x[i] = y[i]
        OBVIOUS
      <3> QED
        BY ONLY <3>1, <3>2, LastAveraged
    <2>2. Below(Averaged(before, x[Len(x)], part, whole), Averaged(before, y[Len(y)], part, whole))
      BY <2>0, HigherValue
    <2> QED
      BY <2>1, <2>2
  <1> QED
    BY <1>1, <1>3, <1>4

\* The bars with a higher last close.
LEMMA RaisedIs ==
    ASSUME NEW bars \in Seq(Bars), Len(bars) > 0, NEW price \in Nat, price > Last(bars).close
    PROVE  LET m == Len(bars)
               raised == Raised(bars, price)
           IN  /\ m \in Nat \ {0} /\ m \in 1..m
               /\ raised \in Seq(Bars) /\ Len(raised) = m
               /\ \A i \in 1..(m - 1) : raised[i] = bars[i]
               /\ raised[m].close = price /\ raised[m].low = bars[m].low
               /\ raised[m].high = Higher(bars[m].high, price)
               /\ Last(bars) = bars[m] /\ bars[m] \in Bars
  <1> DEFINE m == Len(bars)
             b == [bars[m] EXCEPT !.close = price, !.high = Higher(bars[m].high, price)]
  <1>1. m \in Nat \ {0} /\ m \in 1..m
    BY LenProperties
  <1>2. bars[m] \in Bars /\ Last(bars) = bars[m]
    BY <1>1, ElementOfSeq DEF Last
  <1>3. /\ b \in Bars /\ b.close = price /\ b.low = bars[m].low
        /\ b.high = Higher(bars[m].high, price)
    <2> DEFINE c == bars[m]
    <2>1. c \in Bars /\ price > c.close
      BY <1>2
    <2> HIDE DEF c
    <2>c. c \in [open : Nat, high : Nat, low : Nat, close : Nat, volume : Nat]
      BY <2>1 DEF Bars
    <2>d. Higher(c.high, price) \in Nat
      BY <2>c DEF Higher
    <2> DEFINE r == [c EXCEPT !.close = price, !.high = Higher(c.high, price)]
    <2>2. /\ r \in [open : Nat, high : Nat, low : Nat, close : Nat, volume : Nat]
          /\ r.close = price /\ r.high = Higher(c.high, price)
          /\ r.low = c.low /\ r.open = c.open
      BY <2>c, <2>d
    <2> HIDE DEF r
    <2>3. {r.open, r.close} \subseteq r.low..r.high
      BY <2>1, <2>2, <2>c, SMTT(30) DEF Bars, Higher
    <2>4. r \in Bars
      BY <2>2, <2>3 DEF Bars
    <2>5. b = r
      BY DEF r, c
    <2> HIDE DEF b
    <2> QED
      BY <2>2, <2>4, <2>5 DEF c
  <1>4. Raised(bars, price) = [bars EXCEPT ![m] = b]
    <2>1. bars \in [1..m -> Bars] /\ \A c \in Bars : c = [open |-> c.open, high |-> c.high,
                                       low |-> c.low, close |-> c.close, volume |-> c.volume]
      BY LenProperties DEF Bars
    <2> QED
      BY <1>1, <1>2, <2>1 DEF Raised
  <1> HIDE DEF b
  <1>5. /\ [bars EXCEPT ![m] = b] \in Seq(Bars)
        /\ Len([bars EXCEPT ![m] = b]) = Len(bars)
        /\ \A j \in 1..Len(bars) :
              [bars EXCEPT ![m] = b][j] = IF j = m THEN b ELSE bars[j]
    BY <1>1, <1>3, ExceptSeq
  <1>6. \A i \in 1..(m - 1) : i \in 1..m /\ i # m
    BY <1>1
  <1> QED
    BY <1>1, <1>2, <1>3, <1>4, <1>5, <1>6

\* The share of the gains.
Share(gain, loss) == IF loss = 0 THEN 1000 ELSE (1000 * gain) \div (gain + loss)

\* The gains' share grows with the gains and shrinks with the losses.
LEMMA LargerShare ==
    ASSUME NEW g \in Nat, NEW h \in Nat, NEW l \in Nat, NEW k \in Nat, g <= h, k <= l
    PROVE  Share(g, l) <= Share(h, k)
  <1>1. CASE l = 0
    BY <1>1 DEF Share
  <1>2. CASE l # 0
    <2>1. g + l \in Nat \ {0} /\ 1000 * g \in Nat
      BY <1>2
    <2>2. PICK q \in Nat : q = (1000 * g) \div (g + l) /\ q * (g + l) <= 1000 * g
      BY <2>1, QuotientBelow
    <2>3. q <= 1000
      <3> SUFFICES ASSUME q >= 1001 PROVE FALSE
        BY <2>2
      <3>1. 1001 * (g + l) <= q * (g + l) /\ q * (g + l) \in Nat
        BY <2>1, <2>2, LargerTimes
      <3> QED
        BY <1>2, <2>1, <2>2, <3>1
    <2>4. PICK p \in Nat : p = 1000 - q
      BY <2>2, <2>3
    <2>5. /\ q * k \in Nat /\ q * l \in Nat /\ q * k <= q * l
          /\ p * g \in Nat /\ p * h \in Nat /\ p * g <= p * h
      BY LargerTimes
    <2>6. q * l <= p * g
      <3>1. q * (g + l) = q * g + q * l /\ p * g = 1000 * g - q * g /\ q * g \in Nat
        BY <2>4
      <3> QED
        BY <2>2, <2>5, <3>1
    <2>7. q * (h + k) = q * h + q * k /\ p * h = 1000 * h - q * h /\ q * h \in Nat
      BY <2>4
    <2>8. q * (h + k) <= 1000 * h
      BY <2>5, <2>6, <2>7
    <2>9. CASE k = 0
      BY <1>2, <2>2, <2>3, <2>9 DEF Share
    <2>10. CASE k # 0
      <3>1. h + k \in Nat \ {0} /\ 1000 * h \in Nat
        BY <2>10
      <3>2. q <= (1000 * h) \div (h + k)
        BY <2>8, <3>1, QuotientAbove
      <3> QED
        BY <1>2, <2>2, <2>10, <3>2 DEF Share
    <2> QED
      BY <2>9, <2>10
  <1> QED
    BY <1>1, <1>2

\* What the closes gained and lost.
Moves(closes) == [i \in 1..(Len(closes) - 1) |-> closes[i + 1] - closes[i]]
Gains(closes) == [i \in DOMAIN Moves(closes) |-> AtLeast(Moves(closes)[i], 0)]
Losses(closes) == [i \in DOMAIN Moves(closes) |-> AtLeast(-Moves(closes)[i], 0)]

\* The gains and losses of a list, one for each move.
LEMMA MovesAre ==
    ASSUME NEW s \in Seq(Nat), Len(s) > 1
    PROVE  /\ Gains(s) \in Seq(Nat) /\ Len(Gains(s)) = Len(s) - 1
           /\ Losses(s) \in Seq(Nat) /\ Len(Losses(s)) = Len(s) - 1
           /\ \A i \in 1..(Len(s) - 1) : /\ Gains(s)[i] = AtLeast(s[i + 1] - s[i], 0)
                                         /\ Losses(s)[i] = AtLeast(-(s[i + 1] - s[i]), 0)
  <1> DEFINE n == Len(s) - 1
  <1>1. n \in Nat /\ \A i \in 1..n : s[i] \in Nat /\ s[i + 1] \in Nat
    <2>1. Len(s) \in Nat /\ \A i \in 1..Len(s) : s[i] \in Nat
      BY LenProperties, ElementOfSeq
    <2>2. \A i \in 1..n : i \in 1..Len(s) /\ i + 1 \in 1..Len(s)
      BY <2>1
    <2> QED
      BY <2>1, <2>2
  <1>2. \A i \in 1..n : /\ AtLeast(s[i + 1] - s[i], 0) \in Nat
                        /\ AtLeast(-(s[i + 1] - s[i]), 0) \in Nat
    BY <1>1 DEF AtLeast
  <1>3. /\ Gains(s) = [i \in 1..n |-> AtLeast(s[i + 1] - s[i], 0)]
        /\ Losses(s) = [i \in 1..n |-> AtLeast(-(s[i + 1] - s[i]), 0)]
    BY DEF Gains, Losses, Moves
  <1> DEFINE G(i) == AtLeast(s[i + 1] - s[i], 0)
             L(i) == AtLeast(-(s[i + 1] - s[i]), 0)
             g == [i \in 1..n |-> G(i)]
             l == [i \in 1..n |-> L(i)]
  <1>4. (\A i \in 1..n : G(i) \in Nat) /\ (\A i \in 1..n : L(i) \in Nat)
    BY <1>2
  <1>6. Gains(s) = g /\ Losses(s) = l
    BY <1>3
  <1> HIDE DEF G, L, n
  <1>5. g \in Seq(Nat) /\ Len(g) = n /\ l \in Seq(Nat) /\ Len(l) = n
    BY <1>1, <1>4
  <1>7. \A i \in 1..n : g[i] = G(i) /\ l[i] = L(i)
    OBVIOUS
  <1> QED
    BY <1>5, <1>6, <1>7 DEF G, L, n

\* A higher last close makes the last gain larger and the last loss smaller.
LEMMA HigherRsi ==
    ASSUME NEW s \in Seq(Nat), NEW t \in Seq(Nat), Len(s) = Len(t), Len(s) > 1,
           \A i \in 1..(Len(s) - 1) : s[i] = t[i],
           s[Len(s)] <= t[Len(s)]
    PROVE  calc_rsi(s) <= calc_rsi(t)
  <1>n. PICK n : n = Len(s) - 1
    OBVIOUS
  <1>1. /\ n \in Nat \ {0} /\ n \in 1..n /\ Len(s) = n + 1
        /\ \A i \in 1..(n - 1) : i \in 1..n /\ i + 1 \in 1..n
        /\ \A i \in 1..(n + 1) : s[i] \in Nat /\ t[i] \in Nat
    <2>1. Len(s) \in Nat /\ Len(s) > 1 /\ Len(t) = Len(s)
      BY LenProperties
    <2>2. /\ n \in Nat \ {0} /\ n \in 1..n /\ Len(s) = n + 1
          /\ \A i \in 1..(n - 1) : i \in 1..n /\ i + 1 \in 1..n
      BY ONLY <1>n, <2>1
    <2>3. \A i \in 1..Len(s) : s[i] \in Nat /\ t[i] \in Nat
      BY <2>1, ElementOfSeq
    <2> QED
      BY <2>2, <2>3
  <1>2. /\ Gains(s) \in Seq(Nat) /\ Len(Gains(s)) = n
        /\ Losses(s) \in Seq(Nat) /\ Len(Losses(s)) = n
        /\ \A i \in 1..n : /\ Gains(s)[i] = AtLeast(s[i + 1] - s[i], 0)
                           /\ Losses(s)[i] = AtLeast(-(s[i + 1] - s[i]), 0)
    BY <1>n, MovesAre
  <1>3. /\ Gains(t) \in Seq(Nat) /\ Len(Gains(t)) = n
        /\ Losses(t) \in Seq(Nat) /\ Len(Losses(t)) = n
        /\ \A i \in 1..n : /\ Gains(t)[i] = AtLeast(t[i + 1] - t[i], 0)
                           /\ Losses(t)[i] = AtLeast(-(t[i + 1] - t[i]), 0)
    BY <1>n, MovesAre
  <1>4. /\ \A i \in 1..(n - 1) : Gains(s)[i] = Gains(t)[i]
        /\ \A i \in 1..(n - 1) : Losses(t)[i] = Losses(s)[i]
    <2>1. \A i \in 1..(n - 1) : s[i] = t[i] /\ s[i + 1] = t[i + 1]
      <3>1. \A i \in 1..n : s[i] = t[i]
        BY <1>n
      <3> QED
        BY <1>1, <3>1
    <2>2. ASSUME NEW i \in 1..(n - 1) PROVE Gains(s)[i] = Gains(t)[i] /\ Losses(t)[i] = Losses(s)[i]
      <3>1. i \in 1..n /\ s[i] = t[i] /\ s[i + 1] = t[i + 1]
        BY <1>1, <2>1
      <3>2. /\ Gains(s)[i] = AtLeast(s[i + 1] - s[i], 0)
            /\ Losses(s)[i] = AtLeast(-(s[i + 1] - s[i]), 0)
        BY <1>2, <3>1
      <3>3. /\ Gains(t)[i] = AtLeast(t[i + 1] - t[i], 0)
            /\ Losses(t)[i] = AtLeast(-(t[i + 1] - t[i]), 0)
        BY <1>3, <3>1
      <3> QED
        BY ONLY <3>1, <3>2, <3>3
    <2> QED
      BY ONLY <2>2
  <1>5. Gains(s)[n] <= Gains(t)[n] /\ Losses(t)[n] <= Losses(s)[n]
    <2>1. n + 1 \in 1..(n + 1) /\ n \in 1..(n + 1) /\ s[n] = t[n] /\ s[n + 1] <= t[n + 1]
      BY <1>1
    <2>2. PICK a \in Nat : a = s[n]
      BY <1>1, <2>1
    <2>3. PICK b \in Nat : b = s[n + 1]
      BY <1>1, <2>1
    <2>4. PICK c \in Nat : c = t[n + 1]
      BY <1>1, <2>1
    <2>5. AtLeast(b - a, 0) <= AtLeast(c - a, 0) /\ AtLeast(-(c - a), 0) <= AtLeast(-(b - a), 0)
      <3>1. b <= c
        BY <2>1, <2>3, <2>4
      <3> QED
        BY ONLY <3>1, a \in Nat, b \in Nat, c \in Nat DEF AtLeast
    <2> QED
      BY <1>1, <1>2, <1>3, <2>1, <2>2, <2>3, <2>4, <2>5
  <1>6. RsiPeriod \in Nat \ {0} /\ 1 \in 0..RsiPeriod
    BY PeriodsAssumption
  <1>7. Below(Smoothed(Gains(s), 1, RsiPeriod), Smoothed(Gains(t), 1, RsiPeriod))
    <2>1. /\ Gains(s) \in Seq(Nat) /\ Gains(t) \in Seq(Nat) /\ Len(Gains(s)) = Len(Gains(t))
          /\ Len(Gains(s)) > 0
          /\ Gains(s)[Len(Gains(s))] <= Gains(t)[Len(Gains(s))]
      BY <1>1, <1>2, <1>3, <1>5
    <2>2. \A i \in 1..(Len(Gains(s)) - 1) : Gains(s)[i] = Gains(t)[i]
      BY <1>2, <1>4
    <2> QED
      BY ONLY <1>6, <2>1, <2>2, HigherAverage
  <1>8. Below(Smoothed(Losses(t), 1, RsiPeriod), Smoothed(Losses(s), 1, RsiPeriod))
    <2>1. /\ Losses(s) \in Seq(Nat) /\ Losses(t) \in Seq(Nat) /\ Len(Losses(t)) = Len(Losses(s))
          /\ Len(Losses(t)) > 0
          /\ Losses(t)[Len(Losses(t))] <= Losses(s)[Len(Losses(t))]
      BY <1>1, <1>2, <1>3, <1>5
    <2>2. \A i \in 1..(Len(Losses(t)) - 1) : Losses(t)[i] = Losses(s)[i]
      BY <1>3, <1>4
    <2> QED
      BY ONLY <1>6, <2>1, <2>2, HigherAverage
  <1>9. /\ calc_rsi(s) = Share(Smoothed(Gains(s), 1, RsiPeriod).num,
                               Smoothed(Losses(s), 1, RsiPeriod).num)
        /\ calc_rsi(t) = Share(Smoothed(Gains(t), 1, RsiPeriod).num,
                               Smoothed(Losses(t), 1, RsiPeriod).num)
    BY DEF calc_rsi, Share, Gains, Losses, Moves
  <1>10. ASSUME NEW a, NEW b, Below(a, b)
         PROVE  a.num \in Nat /\ b.num \in Nat /\ a.num <= b.num
    BY <1>10 DEF Below, Fractions
  <1> QED
    BY <1>7, <1>8, <1>9, <1>10, LargerShare

\* Two lists that differ at most in a last value that is higher.
LastHigher(x, y) ==
    /\ x \in Seq(Nat) /\ y \in Seq(Nat) /\ Len(x) = Len(y) /\ Len(x) > 0
    /\ \A i \in 1..(Len(x) - 1) : x[i] = y[i]
    /\ x[Len(x)] <= y[Len(x)]

\* Lists that differ in the last value only, which is higher in the second: so is
\* the average.
LEMMA HigherSmoothed ==
    ASSUME NEW x, NEW y, LastHigher(x, y), NEW whole \in Nat \ {0}, NEW part \in 0..whole
    PROVE  Below(Smoothed(x, part, whole), Smoothed(y, part, whole))
  <1>1. /\ x \in Seq(Nat) /\ y \in Seq(Nat) /\ Len(x) = Len(y) /\ Len(x) > 0
        /\ \A i \in 1..(Len(x) - 1) : x[i] = y[i]
        /\ x[Len(x)] <= y[Len(x)]
    BY DEF LastHigher
  <1> QED
    BY ONLY <1>1, whole \in Nat \ {0}, part \in 0..whole, HigherAverage

\* Raising the last close of bars raises the last of their closes only.
LEMMA HigherClose ==
    ASSUME NEW bars \in Seq(Bars), Len(bars) > 0, NEW price \in Nat, price > Last(bars).close
    PROVE  LET s == ClosesOf(bars)
               t == ClosesOf(Raised(bars, price))
           IN  /\ LastHigher(s, t) /\ Len(s) = Len(bars)
               /\ Last(s) = Last(bars).close /\ Last(t) = price
               /\ s[Len(s)] = Last(s) /\ t[Len(t)] = Last(t)
               /\ Last(bars).close \in Nat
  <1>m. PICK m : m = Len(bars)
    OBVIOUS
  <1>r. PICK r : r = Raised(bars, price)
    OBVIOUS
  <1>1. /\ m \in Nat \ {0} /\ m \in 1..m
        /\ r \in Seq(Bars) /\ Len(r) = m
        /\ \A i \in 1..(m - 1) : r[i] = bars[i]
        /\ r[m].close = price
        /\ Last(bars) = bars[m] /\ bars[m] \in Bars
    BY <1>m, <1>r, RaisedIs
  <1>2. ASSUME NEW b \in Seq(Bars), Len(b) = m
        PROVE  /\ ClosesOf(b) \in Seq(Nat) /\ Len(ClosesOf(b)) = m
               /\ \A i \in 1..m : ClosesOf(b)[i] = b[i].close
               /\ Last(ClosesOf(b)) = ClosesOf(b)[m]
    <2>1. \A i \in 1..m : b[i].close \in Nat
      <3>1. \A i \in 1..m : b[i] \in Bars
        BY <1>2, ElementOfSeq
      <3> QED
        BY <3>1 DEF Bars
    <2>2. DOMAIN b = 1..m
      BY <1>2, LenProperties
    <2> DEFINE C(i) == b[i].close
               c == [i \in 1..m |-> C(i)]
    <2>3. ClosesOf(b) = c
      BY <2>2 DEF ClosesOf
    <2>4. \A i \in 1..m : C(i) \in Nat
      BY <2>1
    <2> HIDE DEF C
    <2>a. m \in Nat
      BY <1>1
    <2>5. c \in Seq(Nat) /\ Len(c) = m
      BY ONLY <2>4, <2>a
    <2>6. \A i \in 1..m : c[i] = C(i)
      OBVIOUS
    <2> QED
      BY <2>3, <2>5, <2>6 DEF C, Last
  <1>s. PICK s : s = ClosesOf(bars)
    OBVIOUS
  <1>t. PICK t : t = ClosesOf(r)
    OBVIOUS
  <1>3. /\ s \in Seq(Nat) /\ Len(s) = m /\ (\A i \in 1..m : s[i] = bars[i].close) /\ Last(s) = s[m]
        /\ t \in Seq(Nat) /\ Len(t) = m /\ (\A i \in 1..m : t[i] = r[i].close) /\ Last(t) = t[m]
    BY <1>1, <1>2, <1>m, <1>s, <1>t
  <1>4. \A i \in 1..(m - 1) : s[i] = t[i]
    <2>1. \A i \in 1..(m - 1) : i \in 1..m
      BY <1>1
    <2> QED
      BY <1>1, <1>3, <2>1
  <1>5. s[m] = Last(bars).close /\ t[m] = price /\ s[m] \in Nat
    BY <1>1, <1>3, ElementOfSeq
  <1>6. LastHigher(s, t)
    <2>1. s[m] <= t[m] /\ Len(s) > 0
      BY <1>1, <1>3, <1>5
    <2> QED
      BY <1>3, <1>4, <2>1 DEF LastHigher
  <1> QED
    BY <1>1, <1>3, <1>5, <1>6, <1>m, <1>r, <1>s, <1>t

\* Without the last value the two lists are the same.
LEMMA SameBefore ==
    ASSUME NEW s, NEW t, LastHigher(s, t), Len(s) > 1
    PROVE  /\ Butlast(s) = Butlast(t) /\ Butlast(s) \in Seq(Nat)
           /\ Len(Butlast(s)) = Len(s) - 1 /\ Len(Butlast(s)) > 0
  <1>1. /\ s \in Seq(Nat) /\ t \in Seq(Nat) /\ Len(s) = Len(t) /\ Len(s) \in Nat
        /\ \A i \in 1..(Len(s) - 1) : s[i] = t[i]
    BY LenProperties DEF LastHigher
  <1>2. /\ Butlast(s) \in Seq(Nat) /\ Len(Butlast(s)) = Len(s) - 1
        /\ \A i \in 1..(Len(s) - 1) : Butlast(s)[i] = s[i]
    BY <1>1, ButlastIs
  <1>3. /\ Butlast(t) \in Seq(Nat) /\ Len(Butlast(t)) = Len(s) - 1
        /\ \A i \in 1..(Len(s) - 1) : Butlast(t)[i] = t[i]
    BY <1>1, ButlastIs
  <1>4. Butlast(s) = Butlast(t)
    BY <1>1, <1>2, <1>3, SeqEqual, ZenonT(30)
  <1> QED
    BY <1>1, <1>2, <1>4

\* The slope of an average is no lower when the last close is higher.
LEMMA HigherSlope ==
    ASSUME NEW s, NEW t, LastHigher(s, t), NEW period \in Nat \ {0}
    PROVE  Slope(s, period) \in Int /\ Slope(t, period) \in Int
           /\ Slope(s, period) <= Slope(t, period)
  <1>0. Len(s) = Len(t) /\ Len(s) \in Nat /\ s \in Seq(Nat)
    BY LenProperties DEF LastHigher
  <1>1. CASE Len(s) <= period
    BY <1>0, <1>1 DEF Slope
  <1>2. CASE Len(s) > period
    <2>1. Len(s) > 1 /\ period + 1 \in Nat \ {0} /\ 2 \in 0..(period + 1)
      BY <1>0, <1>2
    <2>2. Below(calc_ema(s, period), calc_ema(t, period))
      BY <2>1, HigherSmoothed DEF calc_ema
    <2>3. /\ Butlast(s) = Butlast(t) /\ Butlast(s) \in Seq(Nat) /\ Len(Butlast(s)) > 0
      BY <2>1, SameBefore
    <2>4. calc_ema(Butlast(s), period) \in Fractions
      BY <2>1, <2>3, SmoothedIs DEF calc_ema
    <2>5. PICK a \in Nat : a = calc_ema(s, period).num
      BY <2>2 DEF Below, Fractions
    <2>6. PICK b \in Nat : b = calc_ema(t, period).num
      BY <2>2 DEF Below, Fractions
    <2>7. PICK c \in Nat : c = calc_ema(Butlast(s), period).num
      BY <2>4 DEF Fractions
    <2>8. a <= b
      BY <2>2, <2>5, <2>6 DEF Below
    <2>9. Slope(s, period) = a - (period + 1) * c /\ Slope(t, period) = b - (period + 1) * c
      <3>1. ~(Len(s) <= period) /\ ~(Len(t) <= period)
        BY <1>0, <1>2
      <3> QED
        BY <2>3, <2>5, <2>6, <2>7, <3>1 DEF Slope
    <2>10. PICK d \in Nat : d = (period + 1) * c
      <3>1. (period + 1) * c \in Nat
        OBVIOUS
      <3> QED
        BY <3>1
    <2>11. a - d \in Int /\ b - d \in Int /\ a - d <= b - d
      BY <2>8
    <2> QED
      BY <2>9, <2>10, <2>11
  <1> QED
    BY <1>0, <1>1, <1>2

\* The places of every g-th bar.
LEMMA Multiples ==
    ASSUME NEW m \in Nat, NEW g \in Nat \ {0}
    PROVE  /\ m \div g \in Nat
           /\ \A i \in 1..(m \div g) : i * g \in 1..m
           /\ \A i \in 1..(m \div g - 1) : i * g \in 1..(m - 1)
  <1>1. PICK k \in Nat : k = m \div g /\ k * g <= m
    BY QuotientBelow
  <1>2. ASSUME NEW i \in 1..k PROVE i * g \in 1..m
    <2>1. i * g \in Nat /\ i * g <= k * g /\ 1 * g <= i * g /\ k * g \in Nat
      BY LargerTimes
    <2> QED
      BY <1>1, <2>1
  <1>3. ASSUME NEW i \in 1..(k - 1) PROVE i * g \in 1..(m - 1)
    <2>1. i \in 1..k /\ i + 1 \in 1..k
      OBVIOUS
    <2>2. i * g \in 1..m /\ (i + 1) * g \in 1..m
      BY <1>2, <2>1
    <2>3. (i + 1) * g = i * g + g
      BY <2>1
    <2> QED
      BY <2>2, <2>3
  <1> QED
    BY <1>1, <1>2, <1>3

\* The five-minute closes differ in the last one at most, which is higher.
LEMMA HigherFive ==
    ASSUME NEW s, NEW t, LastHigher(s, t), Len(s) \div Group > 0
    PROVE  /\ LastHigher(build_5min_closes(s), build_5min_closes(t))
           /\ Len(build_5min_closes(s)) = Len(s) \div Group
  <1>g. PICK g \in Nat \ {0} : g = Group
    BY PeriodsAssumption
  <1>m. PICK m \in Nat : m = Len(s) /\ m = Len(t)
    BY LenProperties DEF LastHigher
  <1>k. PICK k \in Nat : k = m \div g
    BY <1>m, Multiples
  <1>1. k > 0
    BY <1>g, <1>m, <1>k
  <1>2. /\ \A i \in 1..k : i * g \in 1..m
        /\ \A i \in 1..(k - 1) : i * g \in 1..(m - 1)
    BY <1>k, Multiples
  <1>3. /\ \A i \in 1..m : s[i] \in Nat /\ t[i] \in Nat
        /\ \A i \in 1..(m - 1) : s[i] = t[i]
        /\ s[m] <= t[m]
    BY <1>m, ElementOfSeq DEF LastHigher
  <1>4. \A i \in 1..m : s[i] <= t[i]
    <2> TAKE i \in 1..m
    <2>1. CASE i = m
      BY <1>3, <2>1
    <2>2. CASE i # m
      <3>1. i \in 1..(m - 1) /\ s[i] \in Nat
        BY <1>3, <2>2
      <3>2. s[i] = t[i]
        BY <1>3, <3>1
      <3> QED
        BY <3>1, <3>2
    <2> QED
      BY <2>1, <2>2
  <1>5. ASSUME NEW x, \A i \in 1..m : x[i] \in Nat, Len(x) = m
        PROVE  /\ build_5min_closes(x) \in Seq(Nat) /\ Len(build_5min_closes(x)) = k
               /\ \A i \in 1..k : build_5min_closes(x)[i] = x[i * g]
    <2> DEFINE C(i) == x[i * g]
               c == [i \in 1..k |-> C(i)]
    <2>1. build_5min_closes(x) = c
      BY <1>g, <1>k, <1>5 DEF build_5min_closes
    <2>2. \A i \in 1..k : C(i) \in Nat
      BY <1>2, <1>5
    <2> HIDE DEF C
    <2>3. c \in Seq(Nat) /\ Len(c) = k
      BY ONLY <2>2, k \in Nat
    <2>4. \A i \in 1..k : c[i] = C(i)
      OBVIOUS
    <2> QED
      BY <2>1, <2>3, <2>4 DEF C
  <1>a. PICK a : a = build_5min_closes(s)
    OBVIOUS
  <1>b. PICK b : b = build_5min_closes(t)
    OBVIOUS
  <1>6. /\ a \in Seq(Nat) /\ Len(a) = k /\ \A i \in 1..k : a[i] = s[i * g]
        /\ b \in Seq(Nat) /\ Len(b) = k /\ \A i \in 1..k : b[i] = t[i * g]
    <2>1. a \in Seq(Nat) /\ Len(a) = k /\ \A i \in 1..k : a[i] = s[i * g]
      BY <1>3, <1>5, <1>m, <1>a
    <2>2. b \in Seq(Nat) /\ Len(b) = k /\ \A i \in 1..k : b[i] = t[i * g]
      BY <1>3, <1>5, <1>m, <1>b
    <2> QED
      BY <2>1, <2>2
  <1>7. \A i \in 1..(k - 1) : a[i] = b[i]
    <2> TAKE i \in 1..(k - 1)
    <2>1. i \in 1..k /\ i * g \in 1..(m - 1)
      BY <1>2
    <2> QED
      BY <1>3, <1>6, <2>1
  <1>8. a[k] <= b[k]
    <2>1. k \in 1..k /\ k * g \in 1..m
      BY <1>1, <1>2
    <2> QED
      BY <1>4, <1>6, <2>1
  <1>9. Len(a) > 0 /\ Len(a) = k /\ Len(b) = k
    BY <1>1, <1>6
  <1>10. LastHigher(a, b)
    BY <1>6, <1>7, <1>8, <1>9 DEF LastHigher
  <1> QED
    BY <1>10, <1>6, <1>a, <1>b, <1>g, <1>m, <1>k

\* Their slope stays positive.
LEMMA HigherFiveSlope ==
    ASSUME NEW x, NEW y, LastHigher(x, y), Len(x) >= 3
    PROVE  FiveSlope(x) > 0 => FiveSlope(y) > 0
  <1>n. PICK n \in Nat : n = Len(x) /\ n = Len(y) /\ n >= 3
    BY LenProperties DEF LastHigher
  <1>p. PICK p \in Nat \ {0} : p = AtMost(SlopePeriod, n)
    BY PeriodsAssumption, <1>n DEF AtMost
  <1>q. PICK q \in Nat \ {0} : q = AtMost(SlopePeriod, n - 1)
    <2>1. SlopePeriod \in Nat \ {0} /\ n - 1 \in Nat \ {0}
      BY PeriodsAssumption, <1>n, SMTT(30)
    <2>2. AtMost(SlopePeriod, n - 1) \in Nat \ {0}
      BY <2>1 DEF AtMost
    <2> QED
      BY <2>2
  <1>1. Below(calc_ema(x, p), calc_ema(y, p))
    <2>1. p + 1 \in Nat \ {0} /\ 2 \in 0..(p + 1)
      OBVIOUS
    <2> QED
      BY <2>1, HigherSmoothed DEF calc_ema
  <1>2. Butlast(x) = Butlast(y) /\ calc_ema(Butlast(x), q) \in Fractions
    <2>1. q + 1 \in Nat \ {0} /\ 2 \in 0..(q + 1) /\ Len(x) > 1
      BY <1>n
    <2>2. Butlast(x) = Butlast(y) /\ Butlast(x) \in Seq(Nat) /\ Len(Butlast(x)) > 0
      BY <2>1, SameBefore
    <2> QED
      BY <2>1, <2>2, SmoothedIs DEF calc_ema
  <1>3. PICK a \in Nat, b \in Nat, d \in Nat \ {0} :
            /\ a = calc_ema(x, p).num /\ b = calc_ema(y, p).num /\ a <= b
            /\ d = calc_ema(x, p).den /\ d = calc_ema(y, p).den
    BY <1>1 DEF Below, Fractions
  <1>4. PICK c \in Nat, e \in Nat \ {0} :
            c = calc_ema(Butlast(x), q).num /\ e = calc_ema(Butlast(x), q).den
    BY <1>2 DEF Fractions
  <1>5. FiveSlope(x) = a * e - c * d /\ FiveSlope(y) = b * e - c * d
    BY <1>n, <1>p, <1>q, <1>2, <1>3, <1>4 DEF FiveSlope
  <1>6. a * e \in Nat /\ b * e \in Nat /\ a * e <= b * e
    BY <1>3, LargerTimes
  <1>7. c * d \in Nat
    OBVIOUS
  <1> QED
    BY <1>5, <1>6, <1>7

\* A trend of both periods is kept by a higher last close.
LEMMA HigherMtf ==
    ASSUME NEW bars \in Seq(Bars), Len(bars) > 0, NEW price \in Nat, price > Last(bars).close,
           get_mtf_trend(bars)
    PROVE  get_mtf_trend(Raised(bars, price))
  <1>r. PICK r : r = Raised(bars, price)
    OBVIOUS
  <1>s. PICK s : s = ClosesOf(bars)
    OBVIOUS
  <1>t. PICK t : t = ClosesOf(r)
    OBVIOUS
  <1>1. LastHigher(s, t) /\ Len(s) = Len(bars)
    BY <1>r, <1>s, <1>t, HigherClose
  <1>2. Len(r) = Len(bars)
    BY <1>r, RaisedIs
  <1>3. /\ Len(bars) >= SlopePeriod
        /\ Slope(s, SlopePeriod) > 0
        /\ Len(build_5min_closes(s)) >= 3 => FiveSlope(build_5min_closes(s)) > 0
    BY <1>s DEF get_mtf_trend
  <1>4. Slope(t, SlopePeriod) > 0
    <2>1. SlopePeriod \in Nat \ {0}
      BY PeriodsAssumption
    <2>2. Slope(s, SlopePeriod) \in Int /\ Slope(t, SlopePeriod) \in Int
          /\ Slope(s, SlopePeriod) <= Slope(t, SlopePeriod)
      BY <1>1, <2>1, HigherSlope
    <2> QED
      BY <1>3, <2>2
  <1>5. ASSUME Len(build_5min_closes(t)) >= 3 PROVE FiveSlope(build_5min_closes(t)) > 0
    <2>1. Len(s) \div Group \in Nat /\ Len(t) = Len(s)
      <3>1. Group \in Nat \ {0} /\ Len(s) \in Nat /\ Len(t) = Len(s)
        BY PeriodsAssumption, <1>1, LenProperties DEF LastHigher
      <3> QED
        BY <3>1, Multiples
    <2>2. Len(build_5min_closes(t)) = Len(s) \div Group
      <3> DEFINE C(i) == t[i * Group]
                 k == Len(s) \div Group
      <3>1. build_5min_closes(t) = [i \in 1..k |-> C(i)]
        BY <2>1 DEF build_5min_closes
      <3>2. k \in Nat
        BY <2>1
      <3> HIDE DEF C, k
      <3>3. Len([i \in 1..k |-> C(i)]) = k
        BY ONLY <3>2
      <3> QED
        BY <3>1, <3>3 DEF k
    <2>3. Len(s) \div Group > 0
      BY <1>5, <2>1, <2>2
    <2>4. /\ LastHigher(build_5min_closes(s), build_5min_closes(t))
          /\ Len(build_5min_closes(s)) = Len(s) \div Group
      BY <1>1, <2>3, HigherFive
    <2>5. Len(build_5min_closes(s)) >= 3
      BY <1>5, <2>2, <2>4
    <2> QED
      BY <1>3, <2>4, <2>5, HigherFiveSlope
  <1> QED
    BY <1>2, <1>3, <1>4, <1>5, <1>r, <1>t DEF get_mtf_trend

TrueRange(high, low, close) ==
    AtLeast(high - low, AtLeast(Abs(high - close), Abs(low - close)))
Ranges(bars) ==
    [i \in 1..(Len(bars) - 1) |-> TrueRange(bars[i + 1].high, bars[i + 1].low, bars[i].close)]

\* The true range grows by no more than the close rose.
LEMMA HigherTrueRange ==
    ASSUME NEW high \in Nat, NEW low \in 0..high, NEW close \in low..high, NEW before \in Nat,
           NEW rise \in Nat
    PROVE  LET a == TrueRange(high, low, before)
               b == TrueRange(Higher(high, close + rise), low, before)
           IN  a \in Nat /\ b \in Nat /\ a <= b /\ b <= a + rise
  <1>1. PICK top \in Nat : top = Higher(high, close + rise) /\ high <= top /\ top <= high + rise
    <2>1. close \in Nat /\ close <= high
      OBVIOUS
    <2>2. Higher(high, close + rise) \in Nat /\ high <= Higher(high, close + rise)
          /\ Higher(high, close + rise) <= high + rise
      BY <2>1 DEF Higher
    <2> QED
      BY <2>2
  <1>2. low \in Nat /\ low <= high
    OBVIOUS
  <1>3. LET a == TrueRange(high, low, before)
            b == TrueRange(top, low, before)
        IN  a \in Nat /\ b \in Nat /\ a <= b /\ b <= a + rise
    BY <1>1, <1>2 DEF TrueRange, AtLeast, Abs
  <1> QED
    BY <1>1, <1>3

\* The ranges of which the average true range is made.
LEMMA RangesAre ==
    ASSUME NEW bars \in Seq(Bars), NEW n \in Nat, Len(bars) = n + 1
    PROVE  /\ Ranges(bars) \in Seq(Nat) /\ Len(Ranges(bars)) = n
           /\ \A i \in 1..n : Ranges(bars)[i] = TrueRange(bars[i + 1].high, bars[i + 1].low,
                                                          bars[i].close)
           /\ calc_atr(bars) = Smoothed(Ranges(bars), 1, AtrPeriod)
  <1> DEFINE R(i) == TrueRange(bars[i + 1].high, bars[i + 1].low, bars[i].close)
             c == [i \in 1..n |-> R(i)]
  <1>1. \A i \in 1..n : R(i) \in Nat
    <2> TAKE i \in 1..n
    <2>1. bars[i] \in Bars /\ bars[i + 1] \in Bars
      BY ElementOfSeq
    <2>2. PICK h \in Nat, l \in Nat, p \in Nat :
              h = bars[i + 1].high /\ l = bars[i + 1].low /\ p = bars[i].close
              /\ l <= h
      BY <2>1, SMTT(30) DEF Bars
    <2>3. h \in Nat /\ l \in Nat /\ p \in Nat /\ l <= h
      BY <2>2
    <2>4. TrueRange(h, l, p) \in Nat
      BY ONLY <2>3 DEF TrueRange, AtLeast, Abs
    <2> QED
      BY <2>2, <2>4
  <1>2. Len(bars) - 1 = n
    OBVIOUS
  <1>3. Ranges(bars) = c
    BY <1>2 DEF Ranges
  <1>5. calc_atr(bars) = Smoothed(Ranges(bars), 1, AtrPeriod)
    BY DEF calc_atr, Ranges, TrueRange
  <1> HIDE DEF R
  <1>4. c \in Seq(Nat) /\ Len(c) = n
    BY ONLY <1>1, n \in Nat
  <1>6. \A i \in 1..n : c[i] = R(i)
    OBVIOUS
  <1> QED
    BY <1>3, <1>4, <1>5, <1>6 DEF R

\* The last true range grows by no more than the price.
LEMMA HigherRanges ==
    ASSUME NEW bars \in Seq(Bars), NEW n \in Nat \ {0}, Len(bars) = n + 1,
           NEW price \in Nat, NEW rise \in Nat \ {0}, price = Last(bars).close + rise
    PROVE  LET x == Ranges(bars)
               y == Ranges(Raised(bars, price))
           IN  LastHigher(x, y) /\ Len(x) = n /\ y[n] <= x[n] + rise
  <1>r. PICK r : r = Raised(bars, price)
    OBVIOUS
  <1>m. Len(bars) > 0 /\ n + 1 - 1 = n
    OBVIOUS
  <1>0. Last(bars) \in Bars /\ price > Last(bars).close
    <2>1. n + 1 \in 1..Len(bars)
      OBVIOUS
    <2>2. Last(bars) \in Bars
      BY <2>1, ElementOfSeq DEF Last
    <2>3. Last(bars).close \in Nat
      BY <2>2 DEF Bars
    <2> QED
      BY <2>2, <2>3
  <1>1. /\ r \in Seq(Bars) /\ Len(r) = n + 1
        /\ \A i \in 1..n : r[i] = bars[i]
        /\ r[n + 1].close = price /\ r[n + 1].low = bars[n + 1].low
        /\ r[n + 1].high = Higher(bars[n + 1].high, price)
        /\ Last(bars) = bars[n + 1] /\ bars[n + 1] \in Bars
    BY <1>m, <1>r, <1>0, RaisedIs
  <1>x. PICK x : x = Ranges(bars)
    OBVIOUS
  <1>y. PICK y : y = Ranges(r)
    OBVIOUS
  <1>2. /\ x \in Seq(Nat) /\ Len(x) = n
        /\ \A i \in 1..n : x[i] = TrueRange(bars[i + 1].high, bars[i + 1].low, bars[i].close)
    BY <1>x, RangesAre
  <1>3. /\ y \in Seq(Nat) /\ Len(y) = n
        /\ \A i \in 1..n : y[i] = TrueRange(r[i + 1].high, r[i + 1].low, r[i].close)
    BY <1>1, <1>y, RangesAre
  <1>4. \A i \in 1..(n - 1) : x[i] = y[i]
    <2> TAKE i \in 1..(n - 1)
    <2>1. i \in 1..n /\ i + 1 \in 1..n
      OBVIOUS
    <2>2. r[i] = bars[i] /\ r[i + 1] = bars[i + 1]
      BY <1>1, <2>1
    <2> QED
      BY <1>2, <1>3, <2>1, <2>2
  <1>5. x[n] <= y[n] /\ y[n] <= x[n] + rise
    <2>1. PICK b \in Bars : b = bars[n + 1] /\ price = b.close + rise
      BY <1>1
    <2>2. b.high \in Nat /\ b.low \in 0..b.high /\ b.close \in b.low..b.high
      BY DEF Bars
    <2>3. PICK c \in Nat : c = bars[n].close
      <3>1. n \in 1..Len(bars)
        OBVIOUS
      <3>2. bars[n] \in Bars
        BY <3>1, ElementOfSeq
      <3> QED
        BY <3>2 DEF Bars
    <2>4. PICK h \in Nat : h = b.high
      BY <2>2
    <2>5. PICK l \in 0..h : l = b.low
      BY <2>2, <2>4
    <2>6. PICK d \in l..h : d = b.close
      BY <2>2, <2>4, <2>5
    <2>7. n \in 1..n
      OBVIOUS
    <2>8. x[n] = TrueRange(h, l, c)
      BY <1>2, <2>1, <2>3, <2>4, <2>5, <2>7
    <2>9. y[n] = TrueRange(Higher(h, d + rise), l, c)
      <3>1. r[n] = bars[n] /\ r[n + 1].low = b.low /\ r[n + 1].high = Higher(b.high, price)
        BY <1>1, <2>1, <2>7
      <3>2. y[n] = TrueRange(r[n + 1].high, r[n + 1].low, r[n].close)
        BY <1>3, <2>7
      <3> QED
        BY <2>1, <2>3, <2>4, <2>5, <2>6, <3>1, <3>2
    <2>10. rise \in Nat
      OBVIOUS
    <2> QED
      <3>1. TrueRange(h, l, c) <= TrueRange(Higher(h, d + rise), l, c)
        BY ONLY <2>10, h \in Nat, l \in 0..h, d \in l..h, c \in Nat, HigherTrueRange
      <3>2. TrueRange(Higher(h, d + rise), l, c) <= TrueRange(h, l, c) + rise
        BY ONLY <2>10, h \in Nat, l \in 0..h, d \in l..h, c \in Nat, HigherTrueRange
      <3> QED
        BY ONLY <2>8, <2>9, <3>1, <3>2
  <1>6. Len(x) = n /\ Len(y) = n /\ n > 0
    BY <1>2, <1>3
  <1>7. LastHigher(x, y)
    BY <1>2, <1>3, <1>4, <1>5, <1>6 DEF LastHigher
  <1> QED
    BY <1>5, <1>6, <1>7, <1>r, <1>x, <1>y

\* An average in units of which it is a whole number of, and one that is larger
\* by no more than the price; the exponential average with its last value.
InUnits(a, whole, e) == [num |-> a, den |-> whole * e]
Grown(a, b, rise, e) == a <= b /\ b <= a + rise * e
EmaOf(k, e, close, p) == [num |-> (p - 1) * k + 2 * close * e, den |-> (p + 1) * e]

\* The ends of two lists, and a last value that is higher by no more than the price.
EndsWith(s, t, m, c, d) ==
    LastHigher(s, t) /\ Len(s) = m /\ m > 1 /\ s[m] = c /\ t[m] = d
LastGrown(x, y, n, rise) ==
    LastHigher(x, y) /\ Len(x) = n /\ n > 1 /\ y[n] <= x[n] + rise

\* The average true range, in whole numbers: it grows by at most the rise divided
\* by its period.
LEMMA AtrRises ==
    ASSUME NEW x, NEW y, NEW n \in Nat, NEW rise \in Nat, LastGrown(x, y, n, rise),
           NEW whole \in Nat \ {0}
    PROVE  \E a \in Nat, b \in Nat, e \in Nat \ {0} :
              /\ Smoothed(x, 1, whole) = InUnits(a, whole, e)
              /\ Smoothed(y, 1, whole) = InUnits(b, whole, e)
              /\ Grown(a, b, rise, e)
  <1>1. /\ x \in Seq(Nat) /\ y \in Seq(Nat) /\ Len(x) = Len(y) /\ Len(x) > 1
        /\ \A i \in 1..(Len(x) - 1) : x[i] = y[i]
        /\ x[n] <= y[n] /\ Len(x) = n /\ n > 1 /\ y[n] <= x[n] + rise
    BY DEF LastHigher, LastGrown
  <1>2. 1 \in 0..whole
    OBVIOUS
  <1>3. PICK before \in Fractions :
              /\ Smoothed(x, 1, whole) = Averaged(before, x[Len(x)], 1, whole)
              /\ Smoothed(y, 1, whole) = Averaged(before, y[Len(y)], 1, whole)
    BY ONLY <1>1, <1>2, whole \in Nat \ {0}, LastAveraged
  <1>4. PICK u \in Nat, v \in Nat : u = x[n] /\ v = y[n] /\ u <= v /\ v <= u + rise
    <2>1. n \in 1..Len(x) /\ n \in 1..Len(y)
      BY <1>1
    <2>2. x[n] \in Nat /\ y[n] \in Nat
      BY <1>1, <2>1, ElementOfSeq
    <2> QED
      BY <1>1, <2>2
  <1>5. PICK k \in Nat, e \in Nat \ {0} : before.num = k /\ before.den = e
    BY DEF Fractions
  <1>6. PICK rest \in Nat : rest = (whole - 1) * k
    <2>1. whole - 1 \in Nat
      OBVIOUS
    <2>2. (whole - 1) * k \in Nat
      BY ONLY <2>1, k \in Nat
    <2> QED
      BY <2>2
  <1>7. PICK q \in Nat, r \in Nat, w \in Nat :
            q = u * e /\ r = v * e /\ q <= r /\ w = rise * e /\ r <= q + w
    <2>1. u * e \in Nat /\ v * e \in Nat /\ rise * e \in Nat /\ u * e <= v * e
      BY <1>4, LargerTimes
    <2>2. v * e <= (u + rise) * e
      <3>1. u + rise \in Nat /\ e \in Nat
        OBVIOUS
      <3> QED
        BY <1>4, <3>1, LargerTimes
    <2>3. (u + rise) * e = u * e + rise * e
      OBVIOUS
    <2> QED
      BY <2>1, <2>2, <2>3
  <1>8. 1 * u * e = q /\ 1 * v * e = r
    BY <1>7
  <1>9. Averaged(before, u, 1, whole) = [num |-> rest + q, den |-> whole * e]
    BY <1>5, <1>6, <1>8 DEF Averaged
  <1>10. Averaged(before, v, 1, whole) = [num |-> rest + r, den |-> whole * e]
    BY <1>5, <1>6, <1>8 DEF Averaged
  <1>11. Len(x) = n /\ Len(y) = n
    BY <1>1
  <1>12. /\ Smoothed(x, 1, whole) = [num |-> rest + q, den |-> whole * e]
         /\ Smoothed(y, 1, whole) = [num |-> rest + r, den |-> whole * e]
    BY ONLY <1>3, <1>4, <1>9, <1>10, <1>11
  <1>13. /\ rest + q \in Nat /\ rest + r \in Nat /\ rest + q <= rest + r
         /\ rest + r <= (rest + q) + rise * e
    BY <1>7
  <1> QED
    BY <1>12, <1>13 DEF InUnits, Grown

\* The average of the closes, in whole numbers, with the last close apart.
LEMMA EmaRises ==
    ASSUME NEW s, NEW t, NEW m \in Nat, NEW c \in Nat, NEW d \in Nat, EndsWith(s, t, m, c, d),
           NEW p \in Nat \ {0}
    PROVE  \E k \in Nat, e \in Nat \ {0} :
              calc_ema(s, p) = EmaOf(k, e, c, p) /\ calc_ema(t, p) = EmaOf(k, e, d, p)
  <1>1. /\ s \in Seq(Nat) /\ t \in Seq(Nat) /\ Len(s) = Len(t) /\ Len(s) > 1
        /\ \A i \in 1..(Len(s) - 1) : s[i] = t[i]
        /\ Len(s) = m /\ s[m] = c /\ t[m] = d
    BY DEF LastHigher, EndsWith
  <1>2. 2 \in 0..(p + 1) /\ p + 1 \in Nat \ {0} /\ p + 1 - 2 = p - 1
    OBVIOUS
  <1>3. PICK before \in Fractions :
              /\ Smoothed(s, 2, p + 1) = Averaged(before, s[Len(s)], 2, p + 1)
              /\ Smoothed(t, 2, p + 1) = Averaged(before, t[Len(t)], 2, p + 1)
    BY ONLY <1>1, <1>2, LastAveraged
  <1>4. PICK k \in Nat, e \in Nat \ {0} : before.num = k /\ before.den = e
    BY DEF Fractions
  <1>5. Averaged(before, c, 2, p + 1) = EmaOf(k, e, c, p)
    BY <1>2, <1>4 DEF Averaged, EmaOf
  <1>6. Averaged(before, d, 2, p + 1) = EmaOf(k, e, d, p)
    BY <1>2, <1>4 DEF Averaged, EmaOf
  <1>7. Len(s) = m /\ Len(t) = m
    BY <1>1
  <1> QED
    BY <1>1, <1>3, <1>4, <1>5, <1>6, <1>7 DEF calc_ema

\* A price that is 0.3 average ranges above its average stays so when it rises: the
\* average range grows too, but by less.
LEMMA StillAbove ==
    ASSUME NEW c \in Nat, NEW rise \in Nat, NEW p \in Nat \ {0, 1}, NEW k \in Nat,
           NEW d \in Nat \ {0}, NEW whole \in Nat \ {0}, NEW e \in Nat \ {0},
           NEW a \in Nat, NEW b \in Nat, a <= b, b <= a + rise * e,
           NEW x, x = c * ((p + 1) * d) - ((p - 1) * k + 2 * c * d), x > 0,
           NEW y, y = (c + rise) * ((p + 1) * d) - ((p - 1) * k + 2 * (c + rise) * d),
           10 * (x * (whole * e)) >= 3 * (a * ((p + 1) * d))
    PROVE  y \in Nat /\ y > 0 /\ 10 * (y * (whole * e)) >= 3 * (b * ((p + 1) * d))
  <1>1. PICK q \in Nat \ {0} : q = p - 1
    <2>1. p - 1 \in Nat \ {0}
      OBVIOUS
    <2> QED
      BY <2>1
  <1>2. PICK v \in Nat : v = rise * d
    <2>1. rise * d \in Nat
      OBVIOUS
    <2> QED
      BY <2>1
  <1>3. PICK w \in Nat : w = v * e
    <2>1. v * e \in Nat
      OBVIOUS
    <2> QED
      BY <2>1
  <1>4. x = q * (c * d - k) /\ y = q * (c * d - k) + q * v
    <2>1. p = q + 1
      BY <1>1
    <2>2. c * ((p + 1) * d) - ((p - 1) * k + 2 * c * d) = q * (c * d - k)
      BY <1>1, <2>1
    <2>3. (c + rise) * ((p + 1) * d) - ((p - 1) * k + 2 * (c + rise) * d)
             = q * ((c + rise) * d - k)
      BY <1>1, <2>1
    <2>4. (c + rise) * d - k = (c * d - k) + v
      BY <1>2
    <2>5. q * ((c * d - k) + v) = q * (c * d - k) + q * v
      <3>1. c * d - k \in Int
        OBVIOUS
      <3> QED
        BY <3>1
    <2> QED
      BY <2>2, <2>3, <2>4, <2>5
  <1>5. x \in Nat
    <2>1. q * (c * d - k) \in Int
      OBVIOUS
    <2> QED
      BY <1>4, <2>1
  <1>6. q * v \in Nat
    OBVIOUS
  <1>7. y = x + q * v /\ y \in Nat /\ y > 0
    BY <1>4, <1>5, <1>6
  <1>8. PICK g \in Nat : g = q * whole /\ q <= g
    <2>1. 1 * q <= whole * q /\ whole * q \in Nat /\ whole * q = q * whole
      BY LargerTimes
    <2> QED
      BY <2>1
  <1>9. y * (whole * e) = x * (whole * e) + g * w
    <2>1. y * (whole * e) = x * (whole * e) + (q * v) * (whole * e)
      BY <1>5, <1>6, <1>7
    <2>2. (q * v) * (whole * e) = (q * whole) * (v * e)
      OBVIOUS
    <2> QED
      BY <1>3, <1>8, <2>1, <2>2
  <1>10. b * ((p + 1) * d) <= a * ((p + 1) * d) + (p + 1) * w
    <2>1. PICK z \in Nat : z = (p + 1) * d
      <3>1. (p + 1) * d \in Nat
        OBVIOUS
      <3> QED
        BY <3>1
    <2>2. rise * e \in Nat /\ a + rise * e \in Nat
      OBVIOUS
    <2>3. b * z <= (a + rise * e) * z
      BY <2>2, LargerTimes
    <2>4. (a + rise * e) * z = a * z + (rise * e) * z
      BY <2>2
    <2>5. (rise * e) * z = (p + 1) * w
      <3>1. (rise * e) * ((p + 1) * d) = (p + 1) * ((rise * d) * e)
        OBVIOUS
      <3> QED
        BY <1>2, <1>3, <2>1, <3>1
    <2> QED
      BY <2>1, <2>3, <2>4, <2>5
  <1>11. 3 * ((p + 1) * w) <= 10 * (g * w)
    <2>1. 3 * (p + 1) \in Nat /\ 10 * g \in Nat /\ 3 * (p + 1) <= 10 * g
      BY <1>1, <1>8
    <2>2. (3 * (p + 1)) * w <= (10 * g) * w
      BY <2>1, LargerTimes
    <2>3. (3 * (p + 1)) * w = 3 * ((p + 1) * w) /\ (10 * g) * w = 10 * (g * w)
      OBVIOUS
    <2> QED
      BY <2>2, <2>3
  <1>12. /\ x * (whole * e) \in Nat /\ g * w \in Nat /\ a * ((p + 1) * d) \in Nat
         /\ b * ((p + 1) * d) \in Nat /\ (p + 1) * w \in Nat
    <2>1. whole * e \in Nat /\ (p + 1) * d \in Nat
      OBVIOUS
    <2> QED
      BY <1>5, <2>1
  <1> DEFINE xx == x * (whole * e)
             yy == y * (whole * e)
             aa == a * ((p + 1) * d)
             bb == b * ((p + 1) * d)
             ww == (p + 1) * w
             gg == g * w
  <1>13. /\ xx \in Nat /\ gg \in Nat /\ aa \in Nat /\ bb \in Nat /\ ww \in Nat
         /\ yy = xx + gg /\ bb <= aa + ww /\ 3 * ww <= 10 * gg /\ 10 * xx >= 3 * aa
    BY <1>9, <1>10, <1>11, <1>12
  <1> HIDE DEF xx, yy, aa, bb, ww, gg
  <1>14. 10 * yy >= 3 * bb
    BY <1>13
  <1> QED
    BY <1>7, <1>14 DEF yy, bb

\* What a trend is made of, and when there is one.
Apart(x, c, d, e) == x = c * d - e
MadeOf(bars, n, e, d, a, w, c, x, slope) ==
    /\ n = Len(bars) /\ Apart(x, c, d, e)
    /\ calc_ema(ClosesOf(bars), EmaPeriod) = [num |-> e, den |-> d]
    /\ calc_atr(bars) = [num |-> a, den |-> w]
    /\ Last(ClosesOf(bars)) = c /\ Slope(ClosesOf(bars), EmaPeriod) = slope
Upward(n, x, slope, a, w, d) ==
    /\ ~(n < EmaPeriod + 2) /\ ~(n <= AtrPeriod)
    /\ a # 0 /\ x > 0 /\ slope > 0 /\ 10 * (x * w) >= 3 * (a * d)

\* When there is an upward trend, in whole numbers.
LEMMA TrendIs ==
    ASSUME NEW bars, NEW e \in Nat, NEW d \in Nat \ {0}, NEW a \in Nat, NEW w \in Nat \ {0},
           NEW c \in Nat, NEW x \in Int, NEW slope \in Int, NEW n \in Nat,
           MadeOf(bars, n, e, d, a, w, c, x, slope)
    PROVE  get_trend_status(bars) > 0 <=> Upward(n, x, slope, a, w, d)
  <1>x. x = c * d - e /\ n = Len(bars)
    BY DEF MadeOf, Apart
  <1>1. PICK u \in Int : u = x * w
    <2>1. x * w \in Int
      OBVIOUS
    <2> QED
      BY <2>1
  <1>2. PICK v \in Nat : v = a * d
    <2>1. a * d \in Nat
      OBVIOUS
    <2> QED
      BY <2>1
  <1>3. Distance(bars) = [num |-> u, den |-> v]
    BY <1>1, <1>2, <1>x DEF Distance, MadeOf
  <1> DEFINE few == Len(bars) < EmaPeriod + 2 \/ Len(bars) <= AtrPeriod
  <1>4. c * d <= e <=> ~(x > 0)
    <2>1. PICK z \in Nat : z = c * d
      <3>1. c * d \in Nat
        OBVIOUS
      <3> QED
        BY <3>1
    <2> QED
      BY <1>x, <2>1
  <1>5. get_trend_status(bars)
           = IF few \/ a = 0 \/ c * d <= e \/ slope <= 0 THEN 0
             ELSE IF 10 * u > 25 * v THEN 2 ELSE IF 10 * u >= 15 * v THEN 3
                  ELSE IF 10 * u >= 10 * v THEN 2 ELSE IF 10 * u >= 3 * v THEN 1 ELSE 0
    <2>1. get_trend_status(bars)
           = LET ema == calc_ema(ClosesOf(bars), EmaPeriod)
                 z == Distance(bars)
             IN  IF \/ few \/ calc_atr(bars).num = 0
                    \/ Last(ClosesOf(bars)) * ema.den <= ema.num
                    \/ Slope(ClosesOf(bars), EmaPeriod) <= 0
                 THEN 0
                 ELSE IF 10 * z.num > 25 * z.den THEN 2 ELSE IF 10 * z.num >= 15 * z.den THEN 3
                      ELSE IF 10 * z.num >= 10 * z.den THEN 2
                      ELSE IF 10 * z.num >= 3 * z.den THEN 1 ELSE 0
      BY Zenon DEF get_trend_status
    <2>2. /\ Distance(bars).num = u /\ Distance(bars).den = v
          /\ calc_atr(bars).num = a
          /\ calc_ema(ClosesOf(bars), EmaPeriod).num = e
          /\ calc_ema(ClosesOf(bars), EmaPeriod).den = d
      BY <1>3 DEF MadeOf
    <2>3. Last(ClosesOf(bars)) = c /\ Slope(ClosesOf(bars), EmaPeriod) = slope
      BY DEF MadeOf
    <2> HIDE DEF few
    <2> QED
      BY ONLY <2>1, <2>2, <2>3, Zenon
  <1> HIDE DEF few
  <1>6. get_trend_status(bars) > 0 <=> ~few /\ a # 0 /\ x > 0 /\ slope > 0 /\ 10 * u >= 3 * v
    BY <1>4, <1>5
  <1> QED
    BY <1>1, <1>2, <1>6, <1>x DEF few, Upward

\* A higher last close keeps an upward trend: the close gains more on the average
\* than the 0.3 true ranges it has to clear grow.
LEMMA TrendLasts ==
    ASSUME NEW bars \in Seq(Bars), Len(bars) > 0, NEW price \in Nat, price > Last(bars).close,
           get_trend_status(bars) > 0
    PROVE  get_trend_status(Raised(bars, price)) > 0
  <1>r. PICK r : r = Raised(bars, price)
    OBVIOUS
  <1>s. PICK s : s = ClosesOf(bars)
    OBVIOUS
  <1>t. PICK t : t = ClosesOf(r)
    OBVIOUS
  <1>m. PICK m \in Nat : m = Len(bars)
    BY LenProperties
  <1>p. EmaPeriod \in Nat \ {0, 1} /\ EmaPeriod \in Nat \ {0} /\ AtrPeriod \in Nat \ {0}
    BY PeriodsAssumption
  <1>1. ~(m < EmaPeriod + 2) /\ ~(m <= AtrPeriod)
    BY <1>m DEF get_trend_status
  <1>n. PICK n \in Nat \ {0} : n = m - 1 /\ m = n + 1 /\ n > 1 /\ m > 1
    <2>1. m - 1 \in Nat \ {0} /\ m = (m - 1) + 1 /\ m - 1 > 1 /\ m > 1
      BY <1>1, <1>p
    <2> QED
      BY <2>1
  <1>c. PICK c \in Nat : c = Last(bars).close
    BY HigherClose
  <1>h. PICK high \in Nat : high = price
    OBVIOUS
  <1>i. PICK rise \in Nat \ {0} : high = c + rise
    <2>1. high - c \in Nat \ {0} /\ high = c + (high - c)
      BY <1>c, <1>h
    <2> QED
      BY <2>1
  <1>2. /\ LastHigher(s, t) /\ Len(s) = m
        /\ Last(s) = c /\ Last(t) = high /\ s[m] = c /\ t[m] = high
    <2>1. /\ LastHigher(s, t) /\ Len(s) = Len(bars)
          /\ Last(s) = Last(bars).close /\ Last(t) = high
          /\ s[Len(s)] = Last(s) /\ t[Len(t)] = Last(t)
      BY <1>r, <1>s, <1>t, <1>h, HigherClose
    <2> QED
      BY <2>1, <1>m, <1>c DEF LastHigher
  <1>3. r \in Seq(Bars) /\ Len(r) = m
    BY <1>r, <1>m, <1>h, RaisedIs
  <1>4. PICK k \in Nat, d \in Nat \ {0} :
            /\ calc_ema(s, EmaPeriod) = EmaOf(k, d, c, EmaPeriod)
            /\ calc_ema(t, EmaPeriod) = EmaOf(k, d, high, EmaPeriod)
    <2>1. /\ EndsWith(s, t, m, c, high)
          /\ m \in Nat /\ c \in Nat /\ high \in Nat
      BY <1>2, <1>n DEF LastHigher, EndsWith
    <2>2. PICK p \in Nat \ {0} : p = EmaPeriod
      BY <1>p
    <2>3. \E k \in Nat, d \in Nat \ {0} :
              calc_ema(s, p) = EmaOf(k, d, c, p) /\ calc_ema(t, p) = EmaOf(k, d, high, p)
      BY ONLY <2>1, p \in Nat \ {0}, EmaRises
    <2> QED
      BY <2>2, <2>3
  <1>x. PICK x : x = Ranges(bars)
    OBVIOUS
  <1>y. PICK y : y = Ranges(r)
    OBVIOUS
  <1>5. LastHigher(x, y) /\ Len(x) = n /\ y[n] <= x[n] + rise
    BY <1>c, <1>i, <1>m, <1>n, <1>r, <1>h, <1>x, <1>y, HigherRanges
  <1>6. calc_atr(bars) = Smoothed(x, 1, AtrPeriod) /\ calc_atr(r) = Smoothed(y, 1, AtrPeriod)
    <2>1. Len(bars) = n + 1 /\ Len(r) = n + 1
      BY <1>m, <1>n, <1>3
    <2> QED
      BY <1>3, <1>x, <1>y, <2>1, RangesAre
  <1>7. PICK a \in Nat, b \in Nat, e \in Nat \ {0} :
            /\ calc_atr(bars) = InUnits(a, AtrPeriod, e)
            /\ calc_atr(r) = InUnits(b, AtrPeriod, e)
            /\ Grown(a, b, rise, e)
    <2>1. rise \in Nat /\ n \in Nat
      OBVIOUS
    <2>2. PICK p \in Nat \ {0} : p = AtrPeriod
      BY <1>p
    <2>3. LastGrown(x, y, n, rise)
      BY <1>5, <1>n DEF LastGrown
    <2>4. \E a \in Nat, b \in Nat, e \in Nat \ {0} :
              /\ Smoothed(x, 1, p) = InUnits(a, p, e)
              /\ Smoothed(y, 1, p) = InUnits(b, p, e)
              /\ Grown(a, b, rise, e)
      BY ONLY <2>1, <2>3, p \in Nat \ {0}, AtrRises
    <2> QED
      BY <1>6, <2>2, <2>4
  <1>8. /\ Slope(s, EmaPeriod) \in Int /\ Slope(t, EmaPeriod) \in Int
        /\ Slope(s, EmaPeriod) <= Slope(t, EmaPeriod)
    BY <1>2, <1>p, HigherSlope
  <1>d. PICK dd \in Nat \ {0} : dd = (EmaPeriod + 1) * d
    <2>1. 1 * d <= (EmaPeriod + 1) * d /\ (EmaPeriod + 1) * d \in Nat
      BY <1>p, LargerTimes
    <2> QED
      BY <2>1
  <1>w. PICK ww \in Nat \ {0} : ww = AtrPeriod * e
    <2>1. 1 * e <= AtrPeriod * e /\ AtrPeriod * e \in Nat
      BY <1>p, LargerTimes
    <2> QED
      BY <2>1
  <1>e. PICK e1 \in Nat, e2 \in Nat : /\ e1 = (EmaPeriod - 1) * k + 2 * c * d
                                      /\ e2 = (EmaPeriod - 1) * k + 2 * high * d
    <2>1. EmaPeriod - 1 \in Nat
      BY <1>p
    <2>2. (EmaPeriod - 1) * k \in Nat /\ 2 * c * d \in Nat /\ 2 * high * d \in Nat
      BY ONLY <2>1, k \in Nat, c \in Nat, high \in Nat, d \in Nat \ {0}
    <2> QED
      BY <2>2
  <1>u. PICK u \in Int, v \in Int : Apart(u, c, dd, e1) /\ Apart(v, high, dd, e2)
    <2>1. c * dd - e1 \in Int /\ high * dd - e2 \in Int
      BY ONLY c \in Nat, high \in Nat, dd \in Nat \ {0}, e1 \in Nat, e2 \in Nat
    <2> QED
      BY <2>1 DEF Apart
  <1>9. get_trend_status(bars) > 0 <=> Upward(m, u, Slope(s, EmaPeriod), a, ww, dd)
    <2>1. calc_ema(ClosesOf(bars), EmaPeriod) = [num |-> e1, den |-> dd]
      BY <1>4, <1>d, <1>e, <1>s DEF EmaOf
    <2>2. calc_atr(bars) = [num |-> a, den |-> ww]
      BY <1>7, <1>w DEF InUnits
    <2>3. Last(ClosesOf(bars)) = c
      BY <1>2, <1>s
    <2>4. PICK z \in Int : z = Slope(ClosesOf(bars), EmaPeriod) /\ z = Slope(s, EmaPeriod)
      BY <1>8, <1>s
    <2>5. MadeOf(bars, m, e1, dd, a, ww, c, u, z)
      BY <1>u, <1>m, <2>1, <2>2, <2>3, <2>4 DEF MadeOf
    <2> QED
      BY ONLY <2>4, <2>5, e1 \in Nat, dd \in Nat \ {0}, a \in Nat,
              ww \in Nat \ {0}, c \in Nat, m \in Nat, u \in Int, z \in Int, TrendIs
  <1>10. get_trend_status(r) > 0 <=> Upward(m, v, Slope(t, EmaPeriod), b, ww, dd)
    <2>1. calc_ema(ClosesOf(r), EmaPeriod) = [num |-> e2, den |-> dd]
      BY <1>4, <1>d, <1>e, <1>t DEF EmaOf
    <2>2. calc_atr(r) = [num |-> b, den |-> ww]
      BY <1>7, <1>w DEF InUnits
    <2>3. Last(ClosesOf(r)) = high
      BY <1>2, <1>t
    <2>4. PICK z \in Int : z = Slope(ClosesOf(r), EmaPeriod) /\ z = Slope(t, EmaPeriod)
      BY <1>8, <1>t
    <2>5. MadeOf(r, m, e2, dd, b, ww, high, v, z)
      BY <1>u, <1>3, <2>1, <2>2, <2>3, <2>4 DEF MadeOf
    <2> QED
      BY ONLY <2>4, <2>5, e2 \in Nat, dd \in Nat \ {0}, b \in Nat,
              ww \in Nat \ {0}, high \in Nat, m \in Nat, v \in Int, z \in Int, TrendIs
  <1>11. a # 0 /\ u > 0 /\ Slope(s, EmaPeriod) > 0 /\ 10 * (u * ww) >= 3 * (a * dd)
    BY <1>9 DEF Upward
  <1>12. v > 0 /\ 10 * (v * ww) >= 3 * (b * dd)
    <2>1. /\ u = c * ((EmaPeriod + 1) * d) - ((EmaPeriod - 1) * k + 2 * c * d)
          /\ v = (c + rise) * ((EmaPeriod + 1) * d)
                   - ((EmaPeriod - 1) * k + 2 * (c + rise) * d)
          /\ 10 * (u * (AtrPeriod * e)) >= 3 * (a * ((EmaPeriod + 1) * d))
      BY <1>11, <1>d, <1>w, <1>e, <1>u, <1>i DEF Apart
    <2>3. a <= b /\ b <= a + rise * e
      BY <1>7 DEF Grown
    <2>2. v > 0 /\ 10 * (v * (AtrPeriod * e)) >= 3 * (b * ((EmaPeriod + 1) * d))
      <3>1. rise \in Nat
        OBVIOUS
      <3> QED
        BY ONLY <1>11, <1>p, <2>1, <2>3, <3>1, c \in Nat, k \in Nat, d \in Nat \ {0},
                e \in Nat \ {0}, a \in Nat, b \in Nat, StillAbove
    <2> QED
      BY <1>d, <1>w, <2>2
  <1>13. b # 0 /\ Slope(t, EmaPeriod) > 0
    <2>1. a <= b
      BY <1>7 DEF Grown
    <2> QED
      BY <1>8, <1>11, <2>1
  <1> QED
    BY <1>1, <1>10, <1>12, <1>13, <1>r DEF Upward

\* The sum with one more value.
LEMMA TotalWithOne ==
    ASSUME NEW s \in Seq(Nat), NEW x \in Nat
    PROVE  Total(Append(s, x)) = Total(s) + x
  <1>n. PICK n \in Nat : n = Len(s)
    BY LenProperties
  <1>a. PICK a : a = Append(s, x)
    OBVIOUS
  <1>1. /\ a \in Seq(Nat) /\ Len(a) = n + 1 /\ a[n + 1] = x
        /\ \A i \in 1..n : a[i] = s[i]
    BY <1>n, <1>a, AppendProperties
  <1>2. s \in Seq(Int) /\ a \in Seq(Int)
    BY <1>1, SeqMonotonic
  <1>f. PICK f : f = PartialSums(s)
    OBVIOUS
  <1>g. PICK g : g = PartialSums(a)
    OBVIOUS
  <1>3. f[0] = 0 /\ \A k \in 1..n : f[k] = f[k - 1] + s[k]
    BY <1>2, <1>n, <1>f, SumsExist
  <1>4. g[0] = 0 /\ \A k \in 1..(n + 1) : g[k] = g[k - 1] + a[k]
    BY <1>1, <1>2, <1>g, SumsExist
  <1> DEFINE S == {k \in Nat : k <= n => g[k] = f[k]}
  <1>5. 0 \in S
    BY <1>3, <1>4
  <1>6. ASSUME NEW k \in 0..(n - 1), k \in S PROVE k + 1 \in S
    <2>1. k + 1 \in 1..n /\ k + 1 \in 1..(n + 1) /\ k + 1 - 1 = k /\ k <= n /\ k + 1 \in Nat
      OBVIOUS
    <2>2. g[k + 1] = g[k] + a[k + 1] /\ f[k + 1] = f[k] + s[k + 1] /\ a[k + 1] = s[k + 1]
      BY <1>1, <1>3, <1>4, <2>1, SMTT(30)
    <2>3. g[k] = f[k]
      BY <1>6, <2>1
    <2>4. g[k + 1] = f[k + 1]
      BY ONLY <2>2, <2>3
    <2> QED
      BY <2>1, <2>4
  <1>7. n \in S
    <2> HIDE DEF S
    <2>1. \A k \in 0..(n - 1) : k \in S => k + 1 \in S
      BY <1>6
    <2>2. n \in 0..n
      OBVIOUS
    <2> QED
      BY <1>5, <2>1, <2>2, UpTo
  <1>8. g[n + 1] = g[n] + x /\ g[n] = f[n]
    <2>1. n + 1 \in 1..(n + 1) /\ n + 1 - 1 = n
      OBVIOUS
    <2> QED
      BY <1>1, <1>4, <1>7, <2>1
  <1> QED
    BY <1>1, <1>8, <1>a, <1>f, <1>g, <1>n DEF Total

\* Today's price adds to the sum of the last closes.
LEMMA TodayAdds ==
    ASSUME NEW daily \in Seq(Nat), NEW n \in Nat \ {0}, n <= Len(daily)
    PROVE  \E rest \in Nat : \A price \in Nat :
              Total(Ending(Append(daily, price), n)) = rest + price
  <1>m. PICK m \in Nat : m = Len(daily) /\ n <= m
    BY LenProperties
  <1>k. PICK k \in 1..(m + 1) : k = m - n + 2
    <2>1. m - n + 2 \in 1..(m + 1)
      BY <1>m
    <2> QED
      BY <2>1
  <1>e. PICK e : e = SubSeq(daily, k, m)
    OBVIOUS
  <1>1. /\ e \in Seq(Nat) /\ Len(e) = n - 1
        /\ \A i \in 1..(n - 1) : e[i] = daily[k + i - 1]
    <2>1. k \in 1..(Len(daily) + 1) /\ m \in (k - 1)..Len(daily) /\ m - k + 1 = n - 1
      BY <1>m, <1>k
    <2>2. /\ SubSeq(daily, k, m) \in Seq(Nat) /\ Len(SubSeq(daily, k, m)) = m - k + 1
          /\ \A i \in 1..(m - k + 1) : SubSeq(daily, k, m)[i] = daily[k + i - 1]
      BY <2>1, PartOf
    <2> QED
      BY <1>e, <2>1, <2>2
  <1>2. ASSUME NEW price \in Nat
        PROVE  Ending(Append(daily, price), n) = Append(e, price)
    <2>a. PICK a : a = Append(daily, price)
      OBVIOUS
    <2>1. /\ a \in Seq(Nat) /\ Len(a) = m + 1 /\ a[m + 1] = price
          /\ \A i \in 1..m : a[i] = daily[i]
      BY <1>m, <2>a, AppendProperties
    <2>2. n \in 1..Len(a) /\ \A i \in 1..n : Len(a) - n + i = k + i - 1
      BY <1>m, <1>k, <2>1
    <2>3. /\ Ending(a, n) \in Seq(Nat) /\ Len(Ending(a, n)) = n
          /\ \A i \in 1..n : Ending(a, n)[i] = a[Len(a) - n + i]
      BY <2>1, <2>2, EndOf, SMTT(30)
    <2>b. PICK b : b = Append(e, price)
      OBVIOUS
    <2>4. /\ b \in Seq(Nat) /\ Len(b) = n /\ b[n] = price
          /\ \A i \in 1..(n - 1) : b[i] = e[i]
      <3>1. n - 1 + 1 = n
        OBVIOUS
      <3>2. /\ b \in Seq(Nat) /\ Len(b) = Len(e) + 1 /\ b[Len(e) + 1] = price
            /\ \A i \in 1..Len(e) : b[i] = e[i]
        BY <1>1, <2>b, AppendProperties
      <3> QED
        BY <1>1, <3>1, <3>2
    <2>5. ASSUME NEW i \in 1..n PROVE Ending(a, n)[i] = b[i]
      <3>1. Ending(a, n)[i] = a[k + i - 1]
        BY <2>2, <2>3
      <3>2. CASE i = n
        <4>1. k + i - 1 = m + 1
          BY <1>k, <1>m, <3>2
        <4> QED
          BY <2>1, <2>4, <3>1, <3>2, <4>1
      <3>3. CASE i # n
        <4>1. i \in 1..(n - 1) /\ k + i - 1 \in 1..m
          BY <1>k, <1>m, <3>3
        <4> QED
          BY <1>1, <2>1, <2>4, <3>1, <4>1
      <3> QED
        BY <3>2, <3>3
    <2>6. Ending(a, n) = b
      BY <2>3, <2>4, <2>5, SeqEqual
    <2> QED
      BY <2>6, <2>a, <2>b
  <1>3. Total(e) \in Nat
    BY <1>1, TotalBounded
  <1>4. ASSUME NEW price \in Nat
        PROVE  Total(Ending(Append(daily, price), n)) = Total(e) + price
    BY <1>1, <1>2, TotalWithOne
  <1> QED
    BY <1>3, <1>4

\* The shorter average gains more.
LEMMA MeansStay ==
    ASSUME NEW a \in Nat \ {0}, NEW b \in Nat \ {0}, a <= b, NEW r \in Nat, NEW s \in Nat,
           NEW low \in Nat, NEW high \in Nat, low <= high,
           (r + low) * b > (s + low) * a
    PROVE  (r + high) * b > (s + high) * a
  <1>d. PICK d \in Nat : high = low + d
    <2>1. high - low \in Nat /\ high = low + (high - low)
      OBVIOUS
    <2> QED
      BY <2>1
  <1>1. (r + high) * b = (r + low) * b + d * b /\ (s + high) * a = (s + low) * a + d * a
    BY <1>d
  <1>2. d * a \in Nat /\ d * b \in Nat /\ d * a <= d * b
    BY LargerTimes
  <1>3. (r + low) * b \in Nat /\ (s + low) * a \in Nat
    OBVIOUS
  <1> QED
    BY <1>1, <1>2, <1>3

\* The daily conditions hold for every price above one that meets them.
LEMMA HigherDaily ==
    ASSUME NEW daily \in Seq(Nat), NEW low \in Nat, NEW high \in Nat, low <= high
    PROVE  /\ check_daily_alignment(daily, low) => check_daily_alignment(daily, high)
           /\ NearHigh(daily, low) => NearHigh(daily, high)
           /\ AboveMean(daily, low) => AboveMean(daily, high)
  <1>m. PICK m \in Nat : m = Len(daily)
    BY LenProperties
  <1>p. /\ DailyPeriods[1] \in Nat \ {0} /\ DailyPeriods[2] \in Nat \ {0}
        /\ DailyPeriods[3] \in Nat \ {0}
        /\ DailyPeriods[1] <= DailyPeriods[2] /\ DailyPeriods[2] <= DailyPeriods[3]
    BY PeriodsAssumption
  <1>1. ASSUME check_daily_alignment(daily, low) PROVE check_daily_alignment(daily, high)
    <2>1. m >= DailyPeriods[3]
      BY <1>1, <1>m DEF check_daily_alignment
    <2>2. ASSUME NEW i \in {1, 2}
          PROVE  Above(Mean(Append(daily, high), DailyPeriods[i]),
                       Mean(Append(daily, high), DailyPeriods[i + 1]))
      <3>1. PICK a \in Nat \ {0} : a = DailyPeriods[i]
        BY <1>p
      <3>2. PICK b \in Nat \ {0} : b = DailyPeriods[i + 1]
        BY <1>p
      <3>3. a <= b /\ a <= m /\ b <= m
        <4>1. CASE i = 1
          BY <1>p, <2>1, <3>1, <3>2, <4>1
        <4>2. CASE i = 2
          BY <1>p, <2>1, <3>1, <3>2, <4>2
        <4> QED
          BY <4>1, <4>2
      <3>4. PICK r \in Nat : \A price \in Nat :
                Total(Ending(Append(daily, price), a)) = r + price
        BY <1>m, <3>3, TodayAdds
      <3>5. PICK s \in Nat : \A price \in Nat :
                Total(Ending(Append(daily, price), b)) = s + price
        BY <1>m, <3>3, TodayAdds
      <3>6. ASSUME NEW price \in Nat
            PROVE  Above(Mean(Append(daily, price), DailyPeriods[i]),
                         Mean(Append(daily, price), DailyPeriods[i + 1]))
                      <=> (r + price) * b > (s + price) * a
        <4>1. /\ Mean(Append(daily, price), a) = [num |-> r + price, den |-> a]
              /\ Mean(Append(daily, price), b) = [num |-> s + price, den |-> b]
          BY <3>4, <3>5 DEF Mean
        <4>2. Above([num |-> r + price, den |-> a], [num |-> s + price, den |-> b])
                 <=> (r + price) * b > (s + price) * a
          BY DEF Above
        <4> QED
          BY <3>1, <3>2, <4>1, <4>2
      <3>7. (r + low) * b > (s + low) * a
        <4>1. Above(Mean(Append(daily, low), DailyPeriods[i]),
                    Mean(Append(daily, low), DailyPeriods[i + 1]))
          BY <1>1 DEF check_daily_alignment
        <4> QED
          BY <3>6, <4>1
      <3>8. (r + high) * b > (s + high) * a
        BY <3>3, <3>7, MeansStay
      <3> QED
        BY <3>6, <3>8
    <2> QED
      BY <1>m, <2>1, <2>2 DEF check_daily_alignment
  <1>2. ASSUME NearHigh(daily, low) PROVE NearHigh(daily, high)
    <2>1. m >= DailyPeriods[3] /\ m >= 1
      BY <1>2, <1>m, <1>p DEF NearHigh
    <2>2. PICK n \in 1..m : n = AtMost(HighDays, m)
      <3>1. HighDays \in Nat \ {0}
        BY PeriodsAssumption
      <3>2. AtMost(HighDays, m) \in 1..m
        BY <2>1, <3>1 DEF AtMost
      <3> QED
        BY <3>2
    <2>3. PICK g \in Nat : g = Greatest(Ending(daily, n))
      <3>1. Ending(daily, n) \in Seq(Nat)
        BY <1>m, EndOf
      <3> QED
        BY <3>1, GreatestOf
    <2>4. 100 * low >= 97 * g
      BY <1>2, <1>m, <2>2, <2>3 DEF NearHigh
    <2>5. 100 * high >= 97 * g
      BY <2>4
    <2> QED
      BY <1>m, <2>1, <2>2, <2>3, <2>5 DEF NearHigh
  <1>3. ASSUME AboveMean(daily, low) PROVE AboveMean(daily, high)
    <2> SUFFICES ASSUME Len(daily) >= DailyPeriods[3]
                 PROVE  high * DailyPeriods[3] >= Mean(daily, DailyPeriods[3]).num
      BY DEF AboveMean
    <2>1. PICK n \in 1..m : n = DailyPeriods[3]
      BY <1>m, <1>p
    <2>2. PICK t \in Nat : t = Mean(daily, n).num
      <3>1. Ending(daily, n) \in Seq(Nat)
        BY <1>m, EndOf
      <3>2. Total(Ending(daily, n)) \in Nat
        BY <3>1, TotalBounded
      <3> QED
        BY <3>2 DEF Mean
    <2>3. low * n >= t
      BY <1>3, <2>1, <2>2 DEF AboveMean
    <2>4. low * n \in Nat /\ high * n \in Nat /\ low * n <= high * n
      <3>1. n \in Nat
        OBVIOUS
      <3> QED
        BY <3>1, LargerTimes
    <2>5. high * n >= t
      BY <2>3, <2>4
    <2> QED
      BY <2>1, <2>2, <2>5
  <1> QED
    BY <1>1, <1>2, <1>3

\* The property, from the types alone.
LEMMA RisesHelp == TypeOK => RiseHelps
  <1> SUFFICES ASSUME TypeOK PROVE RiseHelps
    OBVIOUS
  <1>b. PICK bars : bars = st.bars
    OBVIOUS
  <1>1. bars \in Seq(Bars)
    BY <1>b DEF TypeOK, Kept
  <1>2. \A level \in 0..2 : Dampened(st.trend, level)
    BY FallingTrend
  <1>3. ASSUME bars # <<>>, NEW u \in Trades, NEW price, price = u.price,
               price > Last(bars).close
        PROVE  /\ Len(bars) > RsiPeriod =>
                      calc_rsi(ClosesOf(Raised(bars, price))) >= calc_rsi(ClosesOf(bars))
               /\ get_trend_status(bars) > 0 => get_trend_status(Raised(bars, price)) > 0
               /\ get_mtf_trend(bars) => get_mtf_trend(Raised(bars, price))
               /\ \A daily \in DailyCloses :
                     /\ check_daily_alignment(daily, Last(bars).close) =>
                            check_daily_alignment(daily, price)
                     /\ NearHigh(daily, Last(bars).close) => NearHigh(daily, price)
                     /\ AboveMean(daily, Last(bars).close) => AboveMean(daily, price)
    <2>1. Len(bars) > 0 /\ Len(bars) \in Nat
      BY <1>1, <1>3, EmptySeq, LenProperties
    <2>2. price \in Nat
      BY <1>3, ConstantsAssumption
    <2>3. /\ LastHigher(ClosesOf(bars), ClosesOf(Raised(bars, price)))
          /\ Len(ClosesOf(bars)) = Len(bars)
          /\ Last(bars).close \in Nat
      BY <1>1, <1>3, <2>1, <2>2, HigherClose
    <2>4. ASSUME Len(bars) > RsiPeriod
          PROVE  calc_rsi(ClosesOf(Raised(bars, price))) >= calc_rsi(ClosesOf(bars))
      <3>1. Len(ClosesOf(bars)) > 1
        BY <2>1, <2>3, <2>4, PeriodsAssumption
      <3>2. calc_rsi(ClosesOf(bars)) <= calc_rsi(ClosesOf(Raised(bars, price)))
        BY <2>3, <3>1, HigherRsi DEF LastHigher
      <3> QED
        BY <3>2
    <2>5. get_trend_status(bars) > 0 => get_trend_status(Raised(bars, price)) > 0
      BY <1>1, <1>3, <2>1, <2>2, TrendLasts
    <2>6. get_mtf_trend(bars) => get_mtf_trend(Raised(bars, price))
      BY <1>1, <1>3, <2>1, <2>2, HigherMtf
    <2>7. ASSUME NEW daily \in DailyCloses
          PROVE  /\ check_daily_alignment(daily, Last(bars).close) =>
                            check_daily_alignment(daily, price)
                 /\ NearHigh(daily, Last(bars).close) => NearHigh(daily, price)
                 /\ AboveMean(daily, Last(bars).close) => AboveMean(daily, price)
      <3>1. daily \in Seq(Nat)
        BY DailyAssumption
      <3>2. Last(bars).close <= price
        BY <1>3, <2>2, <2>3
      <3> QED
        BY <2>2, <2>3, <3>1, <3>2, HigherDaily
    <2> QED
      BY <2>4, <2>5, <2>6, <2>7
  <1>4. ASSUME bars # <<>>, NEW price \in {t.price : t \in {u \in Trades : u.price > Last(bars).close}}
        PROVE  \E u \in Trades : price = u.price /\ price > Last(bars).close
    BY <1>4
  <1>5. bars # <<>> =>
           \A price \in {t.price : t \in {u \in Trades : u.price > Last(bars).close}} :
              /\ Len(bars) > RsiPeriod =>
                      calc_rsi(ClosesOf(Raised(bars, price))) >= calc_rsi(ClosesOf(bars))
              /\ get_trend_status(bars) > 0 => get_trend_status(Raised(bars, price)) > 0
              /\ get_mtf_trend(bars) => get_mtf_trend(Raised(bars, price))
              /\ \A daily \in DailyCloses :
                     /\ check_daily_alignment(daily, Last(bars).close) =>
                            check_daily_alignment(daily, price)
                     /\ NearHigh(daily, Last(bars).close) => NearHigh(daily, price)
                     /\ AboveMean(daily, Last(bars).close) => AboveMean(daily, price)
    BY <1>3, <1>4
  <1> QED
    BY <1>b, <1>2, <1>5 DEF RiseHelps

-----------------------------------------------------------------------------
\* Every step keeps the bars in order and equal to the ticks.
LEMMA FeedInvariant == Spec => []IInv
  BY InvInit, InvNext, PTL DEF Spec

\* Every bar made of ticks is the minute it stands for: opened by its first tick,
\* closed by its last, as high and low as they went, with the volume traded in it.
\* The minute is the hour and the minute alone: after a night that no load
\* interrupts, a tick at the minute of the last bar goes on with that bar, and one
\* at a later minute has the minutes between them filled with flat bars
\* (TickToCandleProcessor.process_tick, snapshot.py 32-109).
THEOREM BarsAreTheTicks == Spec => []BarsMatchTicks
  <1>1. IInv => BarsMatchTicks
    BY DEF IInv
  <1> QED
    BY <1>1, FeedInvariant, PTL

\* While no bid rose, no minute and no tick traded more than the one before, the
\* strength did not grow and no investor turned, the leading score is zero, unless
\* a strong index meets a wall of asks that fell by more than half
\* (get_leading_score, indicator_service.py 499-602).
THEOREM BuyersAreNeeded == Spec => []BuyersNeeded
  <1>1. IInv => BuyersNeeded
    BY NoBuyersNoScore, MatchIs DEF IInv
  <1> QED
    BY <1>1, FeedInvariant, PTL

\* A higher last price never lowers the RSI, ends an upward trend or a trend of
\* both periods, or costs a daily condition.  A level of the trend below the last
\* one never raises the momentum or the watch score above what the levels it joins
\* give, in a history that has room as in a full one; what a full history forgets
\* still can (indicator_service.py 20-280, 612-808).
THEOREM HigherPricesHelp == Spec => []RiseHelps
  <1>1. IInv => RiseHelps
    BY RisesHelp, MatchIs DEF IInv
  <1> QED
    BY <1>1, FeedInvariant, PTL
=============================================================================
