----------------------------- MODULE Connection -----------------------------
(***************************************************************************)
(* The broker connection: KiwoomManager's own view of it, LoginManager and *)
(* ConnectionWatchdog (auth/login_manager.py, app/connection_watchdog.py). *)
(* All of it runs on the main thread, but a login waits in a nested event  *)
(* loop, and then perhaps in a dialog until the user closes it; timers and *)
(* connection events are handled meanwhile, so that the watchdog's retry   *)
(* may log in inside a login, and the connection break inside a dialog.    *)
(***************************************************************************)
EXTENDS Naturals, Sequences

CONSTANTS
    None,
    Accounts,
    Lists,      \* answers to GetLoginInfo("ACCNO"): sequences of accounts
    MaxRetry,   \* MAX_RETRY
    MaxDrops    \* bound: connections lost

ASSUME ConnectionAssumption ==
    /\ None \notin Accounts /\ Lists \subseteq Seq(Accounts)
    /\ MaxRetry \in Nat \ {0} /\ MaxDrops \in Nat

VARIABLES
    connected,    \* KiwoomManager._is_connected
    gwAccount,    \* KiwoomManager._account: requests and orders name it
    account,      \* LoginManager.account
    saved,        \* params/last_account.txt
    realAsked,    \* _requested_use_real: the user chose the real server
    logins,       \* _connect calls in progress, the innermost last
    loop,         \* the call LoginManager._loop belongs to, 0 for None
    err,          \* LoginManager._err_code
    owed,         \* CommConnect calls the broker has not answered
    lost,         \* ConnectionWatchdog._is_lost
    retries,      \* _retry_count
    checkOn,      \* _check_timer runs
    retryOn,      \* _retry_timer runs
    drops

watchdogVars == <<lost, retries, checkOn, retryOn>>
loginVars    == <<logins, loop, err, owed>>
accountVars  == <<gwAccount, account, saved, realAsked>>
connectionVars == <<connected, accountVars, loginVars, watchdogVars, drops>>

\* Where a login is: in its event loop, or told to leave it ("over"), or in a
\* dialog: the choice of the server (before _connect), the choice of the
\* account, the warning that the server is a mock one.
Dialogs == {"server", "account", "warning"}
Logins == {l \in [by : {"user", "cache", "watchdog"}, preferred : Accounts \cup {None},
                  at : {"loop", "over"} \cup Dialogs] : l.at = "server" => l.by = "user"}

ConnectionTypeOK ==
    /\ connected \in BOOLEAN /\ err \in {"none", "ok", "failed"}
    /\ gwAccount \in Accounts \cup {None}
    /\ account \in Accounts \cup {None} /\ saved \in Accounts \cup {None}
    /\ realAsked \in BOOLEAN
    /\ logins \in Seq(Logins) /\ Len(logins) <= 2 /\ loop \in 0..Len(logins)
    /\ owed \in Nat
    /\ lost \in BOOLEAN /\ checkOn \in BOOLEAN /\ retryOn \in BOOLEAN
    /\ retries \in 0..MaxRetry /\ drops \in 0..MaxDrops

Login(by, preferred, at) == [by |-> by, preferred |-> preferred, at |-> at]

\* The window exists and the watchdog runs; show_and_login has just asked the
\* broker, for the saved account or at once after a change of the server, or
\* it asks the user for the server.
ConnectionInit ==
    /\ connected = FALSE /\ gwAccount = None
    /\ saved \in Accounts \cup {None} /\ account \in {None, saved} /\ realAsked = FALSE
    /\ \/ account # None /\ logins = <<Login("cache", account, "loop")>>
       \/ account = None /\ logins = <<Login("user", None, "loop")>>
       \/ saved = None /\ logins = <<Login("user", None, "server")>>
    /\ IF logins[1].at = "loop" THEN loop = 1 /\ owed = 1 ELSE loop = 0 /\ owed = 0
    /\ err = "none"
    /\ lost = FALSE /\ retries = 0 /\ checkOn = TRUE /\ retryOn = FALSE
    /\ drops = 0

----------------------------------------------------------------------------
(* Logging in *)

Innermost == logins[Len(logins)]
Becomes(login) == logins' = [logins EXCEPT ![Len(logins)] = login]
Reaches(at) == Becomes([Innermost EXCEPT !.at = at])

\* The innermost login is the one that goes on; those around it wait for it.
At(at) == logins # <<>> /\ Innermost.at = at
ByWatchdog == Innermost.by = "watchdog"

\* The first half of _connect, once the login is on the stack.
Asks == err' = "none" /\ owed' = owed + 1

\* A connection event reaches KiwoomManager first, then LoginManager, which
\* ends the loop it knows.
Notified(result) ==
    /\ connected' = (result = "ok")
    /\ err' = result
    /\ logins' = IF loop = 0 THEN logins ELSE [logins EXCEPT ![loop].at = "over"]
    /\ \E list \in Lists :
          gwAccount' = IF result = "ok" /\ list # <<>> THEN Head(list) ELSE gwAccount
    /\ UNCHANGED <<account, saved, realAsked, loop, watchdogVars>>

\* The broker answers a CommConnect, in time or long after.
Answer ==
    /\ owed > 0 /\ owed' = owed - 1
    /\ \E result \in {"ok", "failed"} : Notified(result)
    /\ UNCHANGED drops

\* The connection breaks.
Drop ==
    /\ connected /\ drops < MaxDrops /\ drops' = drops + 1
    /\ Notified("failed")
    /\ UNCHANGED owed

\* LOGIN_TIMEOUT: the loop of any call in progress may run out.
LoginTimeout(i) ==
    /\ i \in DOMAIN logins /\ logins[i].at = "loop"
    /\ logins' = [logins EXCEPT ![i].at = "over"]
    /\ UNCHANGED <<connected, accountVars, loop, err, owed, watchdogVars, drops>>

Returns == logins' = SubSeq(logins, 1, Len(logins) - 1)

startNot == UNCHANGED checkOn    \* mutated: the check timer stays off
start == checkOn' = TRUE

\* _on_retry, when the login it asked for returns True.
Recovered == lost' = FALSE /\ retries' = 0 /\ start /\ UNCHANGED retryOn

\* login_success: everyone gets the account, and _connect returns True.
Succeeds(a) ==
    /\ Returns /\ gwAccount' = a
    /\ IF ByWatchdog THEN Recovered ELSE UNCHANGED watchdogVars

\* The account is settled.  A user who asked for the real server and got the
\* mock one is told so first, by any login.
Settled(a) ==
    /\ account' = a
    /\ \/ Succeeds(a)
       \/ realAsked /\ Reaches("warning") /\ UNCHANGED <<gwAccount, watchdogVars>>

\* The account _connect finds without asking: the only one, the one used
\* before, or the saved one.
Found(accounts) ==
    IF Innermost.preferred \in accounts THEN {Innermost.preferred} ELSE accounts \cap {saved}

\* The loop has ended with a connection that gives accounts.
LoggedIn ==
    /\ At("over") /\ err = "ok" /\ loop' = 0
    /\ \E list \in Lists \ {<<>>} :
          LET accounts == {list[i] : i \in DOMAIN list} IN
          \/ Len(list) = 1 /\ Settled(list[1]) /\ saved' = list[1]
          \/ /\ Len(list) > 1 /\ UNCHANGED saved
             /\ \/ \E a \in Found(accounts) : Settled(a)
                \/ /\ Found(accounts) = {} /\ Reaches("account")
                   /\ UNCHANGED <<account, gwAccount, watchdogVars>>
    /\ UNCHANGED <<connected, realAsked, err, owed, drops>>

\* AccountSelectDialog is closed, at any time later, over an account of its list.
AccountSelected ==
    /\ At("account")
    /\ \E a \in Accounts : Settled(a) /\ saved' = a
    /\ UNCHANGED <<connected, realAsked, loop, err, owed, drops>>

\* The warning is closed; login_success names what is the account by then.
WarningClosed ==
    /\ At("warning") /\ Succeeds(account)
    /\ UNCHANGED <<connected, account, saved, realAsked, loop, err, owed, drops>>

NotLoggedIn ==
    /\ At("over") /\ loop' = 0
    /\ err # "ok" \/ <<>> \in Lists
    /\ UNCHANGED <<connected, gwAccount, account, realAsked, err, owed, drops>>

\* A failed login from the cache removes the cache and asks the user.
UserFailed ==
    /\ NotLoggedIn /\ ~ByWatchdog
    /\ IF Innermost.by = "cache" THEN saved' = None /\ Becomes(Login("user", None, "server"))
       ELSE Returns /\ UNCHANGED saved
    /\ UNCHANGED watchdogVars

\* LoginDialog is accepted or cancelled, at any time later.
ServerChosen ==
    /\ At("server") /\ Reaches("loop") /\ loop' = Len(logins)
    /\ realAsked' \in BOOLEAN /\ Asks
    /\ UNCHANGED <<connected, gwAccount, account, saved, watchdogVars, drops>>

LoginCancelled ==
    /\ At("server") /\ Returns
    /\ UNCHANGED <<connected, accountVars, loop, err, owed, watchdogVars, drops>>

----------------------------------------------------------------------------
(* The watchdog *)

_on_checkAlways ==    \* mutated: a standing connection is taken for lost
    /\ checkOn /\ ~lost
    /\ lost' = TRUE /\ retries' = 0
    /\ checkOn' = FALSE /\ retryOn' = TRUE
    /\ UNCHANGED <<connected, accountVars, loginVars, drops>>

_on_check ==
    /\ checkOn /\ ~lost /\ ~connected
    /\ lost' = TRUE /\ retries' = 0
    /\ checkOn' = FALSE /\ retryOn' = TRUE
    /\ UNCHANGED <<connected, accountVars, loginVars, drops>>

\* reconnect_silent: the account used before is preferred.
_on_retry ==
    /\ retryOn /\ retryOn' = FALSE
    /\ retries' = retries + 1
    /\ logins' = Append(logins, Login("watchdog", account, "loop"))
    /\ loop' = Len(logins) + 1 /\ Asks
    /\ UNCHANGED <<connected, accountVars, lost, checkOn, drops>>

_schedule_retryOnce == retryOn' = FALSE    \* mutated: a failed attempt ends it
_schedule_retry == retryOn' = (retries < MaxRetry)

RetryFailed ==
    /\ NotLoggedIn /\ ByWatchdog /\ Returns
    /\ _schedule_retry
    /\ UNCHANGED <<saved, lost, retries, checkOn>>

----------------------------------------------------------------------------
LoopEnds == LoggedIn \/ UserFailed \/ RetryFailed
DialogCloses == AccountSelected \/ WarningClosed \/ ServerChosen \/ LoginCancelled

ConnectionNext ==
    \/ Answer \/ Drop \/ \E i \in 1..2 : LoginTimeout(i)
    \/ LoopEnds \/ DialogCloses \/ _on_check \/ _on_retry

ConnectionSpec == ConnectionInit /\ [][ConnectionNext]_connectionVars

\* Timers fire and loops end.  Nothing is assumed of the broker, nor of the
\* user: a dialog may stay open for ever.
LiveSpec ==
    /\ ConnectionSpec
    /\ WF_connectionVars(_on_check) /\ WF_connectionVars(_on_retry)
    /\ \A i \in 1..2 : WF_connectionVars(LoginTimeout(i))
    /\ WF_connectionVars(LoopEnds)

----------------------------------------------------------------------------
(* Properties *)

\* The types, and: while the connection is known to be lost, an attempt is due,
\* under way, or all attempts are used up; otherwise the check timer runs
\* (connection_watchdog.py 98-145).
WatchdogAwake ==
    /\ ConnectionTypeOK
    /\ IF lost THEN ~checkOn /\ (retryOn \/ retries = MaxRetry
                              \/ \E i \in DOMAIN logins : logins[i].by = "watchdog")
            ELSE checkOn /\ ~retryOn

\* reconnect_failed has been emitted.
GivenUp == lost /\ ~retryOn /\ \A i \in DOMAIN logins : logins[i].by # "watchdog"

\* The watchdog's own login has come through and waits for the user
\* (login_manager.py 319-320, 338).
WaitsForUser == \E i \in DOMAIN logins : logins[i].by = "watchdog" /\ logins[i].at \in Dialogs

\* A lost connection is restored, or given up after MAX_RETRY attempts, or the
\* attempt in progress has opened a dialog that nobody may be there to close.
WatchdogDecides == lost ~> (~lost \/ WaitsForUser \/ (GivenUp /\ retries = MaxRetry))

\* The connection as LiveQuotes composes it.
Announced == INSTANCE Link

IsALink == Announced!LinkSpec
=============================================================================
