----------------------------- MODULE LiveQuotes -----------------------------
(***************************************************************************)
(* Which codes the broker sends live quotes of: PriorityWatchQueue         *)
(* (scanner/queue.py) with its worker thread, the callers of it in         *)
(* SmartScanner, TopVolumeManager, and the connection under them.          *)
(* The main thread and the worker interleave at every call into the OCX    *)
(* control and at every use of the queue's lock.                           *)
(***************************************************************************)
EXTENDS Link, Naturals, FiniteSets

CONSTANTS
    None,
    Codes,       \* codes as numbers: a smaller one has the larger trade amount
    Rankings,    \* the codes a scan may find
    MaxSubs,     \* realtime_sub_max
    MaxTrades,   \* bound: positions opened and closed
    MaxFaults,   \* bound: calls into the OCX that raise
    MaxDrops     \* bound: connections lost

ASSUME ConstantsAssumption ==
    /\ None \notin Codes /\ Codes \subseteq Nat /\ IsFiniteSet(Codes)
    /\ Rankings \subseteq SUBSET Codes \ {{}}
    /\ MaxSubs \in Nat \ {0} /\ {MaxTrades, MaxFaults, MaxDrops} \subseteq Nat

VARIABLES
    registered,   \* codes the broker sends quotes of (screen 9200)
    _subscribed, _pending_add, _pending_remove,
    worker,       \* the worker thread
    known,        \* codes TopVolumeManager has an amount of
    positions,    \* codes held
    entering,     \* the code a _sub is between registering and recording, or None
    trades, faults, drops

queueVars == <<registered, _subscribed, _pending_add, _pending_remove, worker>>
scanVars  == <<known, positions, entering, trades, faults, drops>>
quoteVars == <<queueVars, scanVars>>
vars == <<linkVars, quoteVars>>

\* pc: dead (no thread), asleep (between two rounds), else what it does next;
\* stop: _stop_worker; out, in: what this round took from the queue.
Workers == [pc : {"dead", "asleep", "removing", "discarding", "adding", "recording"},
            stop : BOOLEAN, out : SUBSET Codes, in : SUBSET Codes, code : Codes \cup {None}]
NoWorker == [pc |-> "dead", stop |-> FALSE, out |-> {}, in |-> {}, code |-> None]

Init ==
    /\ LinkInit
    /\ registered = {} /\ _subscribed = {} /\ _pending_add = {} /\ _pending_remove = {}
    /\ worker = NoWorker
    /\ known = {} /\ positions \in SUBSET Codes /\ entering = None
    /\ trades = 0 /\ faults = 0 /\ drops = 0

----------------------------------------------------------------------------
(* The queue *)

\* The n codes with the largest amounts; [: max_subs] of a list is its best.
Best(codes, n) == {c \in codes : Cardinality({d \in codes : d < c}) < n}
get_top_codes == known

Started == IF worker.pc = "dead" THEN [NoWorker EXCEPT !.pc = "asleep"] ELSE worker

\* refresh: a code that waits to be removed stays so when it is wanted again,
\* and the other way round.
refresh(target) ==
    /\ _pending_add' = _pending_add \cup (target \ _subscribed)
    /\ _pending_remove' = _pending_remove \cup (_subscribed \ target)
    /\ worker' = Started
    /\ UNCHANGED <<registered, _subscribed>>

_unsub(c) ==
    /\ _pending_remove' = _pending_remove \cup {c}
    /\ worker' = Started
    /\ UNCHANGED <<registered, _subscribed, _pending_add>>

\* A round: both sets are taken under the lock.  A thread told to stop ends.
WorkerTakes ==
    /\ worker.pc = "asleep"
    /\ IF worker.stop
       THEN worker' = NoWorker /\ UNCHANGED <<_pending_add, _pending_remove>>
       ELSE /\ _pending_remove \cup _pending_add # {}
            /\ worker' = [worker EXCEPT !.pc = "removing", !.out = _pending_remove, !.in = _pending_add]
            /\ _pending_add' = {} /\ _pending_remove' = {}
    /\ UNCHANGED <<linkVars, registered, _subscribed, scanVars>>

Fault == faults < MaxFaults /\ faults' = faults + 1

\* _unsub_impl, up to the lock.  A RuntimeError ends the removals and stops the
\* thread after this round; any other error loses this removal.
WorkerRemoves ==
    /\ worker.pc = "removing"
    /\ IF worker.out = {} \/ worker.stop
       THEN /\ worker' = [worker EXCEPT !.pc = "adding", !.out = {}]
            /\ UNCHANGED <<registered, faults>>
       ELSE \E c \in worker.out :
            \/ /\ registered' = registered \ {c}
               /\ worker' = [worker EXCEPT !.pc = "discarding", !.out = @ \ {c}, !.code = c]
               /\ UNCHANGED faults
            \/ /\ Fault /\ UNCHANGED registered
               /\ \E dead \in BOOLEAN :
                     worker' = [worker EXCEPT !.out = @ \ {c}, !.stop = dead]
    /\ UNCHANGED <<linkVars, _subscribed, _pending_add, _pending_remove,
                   known, positions, entering, trades, drops>>

Discarded(w) == [w EXCEPT !.pc = "removing", !.code = None]

WorkerDiscards ==
    /\ worker.pc = "discarding"
    /\ _subscribed' = _subscribed \ {worker.code}
    /\ worker' = Discarded(worker)
    /\ UNCHANGED <<linkVars, registered, _pending_add, _pending_remove, scanVars>>

\* Codes that cannot be registered wait in the queue again.
Requeued(codes) == _pending_add \cup codes

\* _setrealreg_batch registers chunk by chunk; without a connection the call
\* does nothing, and does not raise.
WorkerAdds ==
    /\ worker.pc = "adding"
    /\ \/ /\ registered' = IF connected THEN registered \cup worker.in ELSE registered
          /\ worker' = [worker EXCEPT !.pc = "recording"]
          /\ UNCHANGED <<_pending_add, faults>>
       \/ /\ worker.in # {} /\ Fault
          /\ \E done \in SUBSET worker.in :
                registered' = IF connected THEN registered \cup done ELSE registered
          /\ _pending_add' = Requeued(worker.in)
          /\ worker' = [worker EXCEPT !.pc = "asleep", !.in = {}]
    /\ UNCHANGED <<linkVars, _subscribed, _pending_remove, known, positions, entering, trades, drops>>

WorkerRecords ==
    /\ worker.pc = "recording"
    /\ _subscribed' = _subscribed \cup worker.in
    /\ worker' = [worker EXCEPT !.pc = "asleep", !.in = {}]
    /\ UNCHANGED <<linkVars, registered, _pending_add, _pending_remove, scanVars>>

----------------------------------------------------------------------------
(* The scanner *)

\* The main thread does nothing else between the two halves of _sub.
MainFree == entering = None

\* _sub: an error leaves the code unrecorded.
_sub(c) ==
    /\ entering' = c
    /\ registered' = IF connected THEN registered \cup {c} ELSE registered
    /\ UNCHANGED <<_subscribed, _pending_add, _pending_remove, worker>>

SubRecords ==
    /\ ~MainFree
    /\ _subscribed' = _subscribed \cup {entering} /\ entering' = None
    /\ UNCHANGED <<linkVars, registered, _pending_add, _pending_remove, worker,
                   known, positions, trades, faults, drops>>

\* on_position_opened and on_position_closed of OrderManager.
register_code_realtime(c) ==
    /\ MainFree /\ trades < MaxTrades /\ c \notin positions
    /\ positions' = positions \cup {c} /\ trades' = trades + 1
    /\ _sub(c)
    /\ UNCHANGED <<linkVars, known, faults, drops>>

unregister_code_realtime(c) ==
    /\ MainFree /\ trades < MaxTrades /\ c \in positions
    /\ positions' = positions \ {c} /\ trades' = trades + 1
    /\ IF c \in get_top_codes THEN UNCHANGED queueVars ELSE _unsub(c)
    /\ UNCHANGED <<linkVars, known, entering, faults, drops>>

\* What is held comes first in the list, then the best of the universe.
WatchedTop(held, top) == Best(top, MaxSubs)    \* mutated: what is held is left out
Watched(held, top) ==
    LET first == Best(held, MaxSubs) IN first \cup Best(top \ held, MaxSubs - Cardinality(first))

_refresh_realtime_watch(top) == refresh(Watched(positions, top))

\* A periodic scan that found rows; without a connection there is none.
run_periodic_scan(rows) ==
    /\ MainFree /\ connected
    /\ known' = rows
    /\ _refresh_realtime_watch(rows)
    /\ UNCHANGED <<linkVars, positions, entering, trades, faults, drops>>

\* The pre-filter at 09:00 refreshes with its own list.
_run_pre_filter(rows) ==
    /\ MainFree
    /\ known' = rows
    /\ refresh(Best(rows, MaxSubs))
    /\ UNCHANGED <<linkVars, positions, entering, trades, faults, drops>>

\* A tick gives its code an amount; every 30 s it refreshes with the ranking.
_on_receive_real_data(c) ==
    /\ MainFree /\ c \in registered
    /\ known' = known \cup {c}
    /\ refresh(Best(known', MaxSubs)) \/ UNCHANGED queueVars
    /\ UNCHANGED <<linkVars, positions, entering, trades, faults, drops>>

\* The broker forgets the registrations of a connection that breaks.
ConnectionBreaks ==
    /\ Breaks /\ MainFree /\ drops < MaxDrops /\ drops' = drops + 1
    /\ registered' = {}
    /\ UNCHANGED <<_subscribed, _pending_add, _pending_remove, worker,
                   known, positions, entering, trades, faults>>

\* _restore_subscriptions refreshes with what the queue takes as subscribed.
_restore_subscriptions ==
    IF _subscribed = {} /\ get_top_codes = {} THEN UNCHANGED queueVars
    ELSE refresh(Best(IF _subscribed # {} THEN _subscribed ELSE get_top_codes, MaxSubs))

ConnectionRecovers ==
    /\ Recovers /\ MainFree
    /\ _restore_subscriptions
    /\ UNCHANGED scanVars

ConnectionChanges == (ComesUp \/ Noticed) /\ MainFree /\ UNCHANGED quoteVars

----------------------------------------------------------------------------
Worker == WorkerTakes \/ WorkerRemoves \/ WorkerDiscards \/ WorkerAdds \/ WorkerRecords

Scan == \E rows \in Rankings : run_periodic_scan(rows)

Next ==
    \/ Worker \/ SubRecords \/ Scan
    \/ \E rows \in Rankings : _run_pre_filter(rows)
    \/ \E c \in Codes : register_code_realtime(c) \/ unregister_code_realtime(c)
                        \/ _on_receive_real_data(c)
    \/ ConnectionBreaks \/ ConnectionRecovers \/ ConnectionChanges

Spec == Init /\ [][Next]_vars

\* The thread runs, and the scan timer fires: of the rankings the scans find,
\* one comes up for ever.
LiveSpec ==
    /\ Spec /\ WF_vars(Worker) /\ WF_vars(SubRecords)
    /\ \E rows \in Rankings : WF_vars(run_periodic_scan(rows))

----------------------------------------------------------------------------
(* Properties *)

\* The two ways in which the queue comes to believe in a registration the
\* broker does not have: a connection that is lost with codes subscribed, or
\* made to look so by a call while it is down; and a removal by the worker
\* between the two halves of a _sub of the same code.
BookkeepingTrue ==
    /\ connected \/ (_subscribed = {} /\ MainFree /\ worker.pc # "recording")
    /\ ~MainFree => worker.code # entering

\* As long as neither happens, the broker sends quotes of a code that stays
\* held, or sends them again, whatever scans, ticks, fills and failing calls
\* dropped it in between (queue.py 64-173, smart_scanner.py 1860-1898).
HeldIsQuoted ==
    \A c \in Codes :
        /\ []BookkeepingTrue
        /\ <>[](connected /\ c \in positions /\ Cardinality(positions) <= MaxSubs)
        => []<>(c \in registered)
=============================================================================
