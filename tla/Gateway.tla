------------------------------ MODULE Gateway ------------------------------
(***************************************************************************)
(* The request side of the broker gateway, KiwoomManager in kiwoom_api.py. *)
(* A synchronous request occupies one slot (_tr_busy) and waits for its    *)
(* answer in a nested event loop, so other handlers run, and ask, inside   *)
(* it.  Answers are told apart by the request name alone; a request that   *)
(* timed out leaves an answer behind that may still come.                  *)
(*                                                                         *)
(* A step is one uninterrupted run of the main thread, an answer of the    *)
(* broker, or the daemon thread of the freeze watchdog.                    *)
(***************************************************************************)
EXTENDS Naturals, Sequences, FiniteSets

CONSTANTS
    None,           \* no request, no answer
    Requests,       \* records [tr, code] some caller may ask
    MaxDepth,       \* bound: requests inside requests
    MaxPending,     \* bound: answers the broker still owes
    MaxUnfreezes    \* bound: interventions of the freeze watchdog

(***************************************************************************)
(* The wrappers.  name: the request name; coded: it carries the code; shy: *)
(* the ban is looked at first, before anything is touched; careless:       *)
(* _tr_data is read whatever _comm_rq returned; key: the input written;    *)
(* reads: the kind of data taken out of the buffer.                        *)
(***************************************************************************)
Ranking(name) == [name |-> name, coded |-> FALSE, shy |-> TRUE, careless |-> FALSE,
                  key |-> name, reads |-> "rows"]
Unchecked(name, reads) == [Ranking(name) EXCEPT !.shy = FALSE, !.careless = TRUE,
                                               !.key = "stock", !.reads = reads]
Account(name, reads) == [Ranking(name) EXCEPT !.shy = FALSE, !.reads = reads]

fetch_opt10030         == Ranking("top_amount")
fetch_opt10004         == Ranking("top_amount")   \* the same name
fetch_opt10029         == Ranking("vol_surge")
fetch_opt10032         == Account("prev_volume", "rows")
get_stock_info         == Unchecked("stock_info", "price")
get_multiple_stock_info == Account("multi_stock_info", "rows")
get_min_candles        == Unchecked("min_candle", "rows")
get_daily_candles      == Unchecked("daily_candle", "rows")
get_investor_trend     == [Unchecked("investor", "rows") EXCEPT !.coded = TRUE]
get_balance            == Account("balance", "balance")
get_today_realized_pnl == Account("daily_realized", "daily")
get_index_info         == [Account("index_info", "price") EXCEPT !.key = "sector"]
get_holdings           == Account("holdings", "rows")

Wrapper == [opt10001 |-> get_stock_info,    kw       |-> get_multiple_stock_info,
            opt10080 |-> get_min_candles,   opt10081 |-> get_daily_candles,
            opt10059 |-> get_investor_trend, opt20001 |-> get_index_info,
            opw00001 |-> get_balance,       opw00018 |-> get_holdings,
            opt10074 |-> get_today_realized_pnl, opt10032 |-> fetch_opt10032,
            opt10030 |-> fetch_opt10030,    opt10004 |-> fetch_opt10004,
            opt10029 |-> fetch_opt10029]

Trs == DOMAIN Wrapper

ASSUME ConstantsAssumption ==
    /\ Requests # {} /\ None \notin Requests
    /\ \A r \in Requests : r = [tr |-> r.tr, code |-> r.code] /\ r.tr \in Trs
    /\ MaxDepth \in Nat \ {0} /\ MaxPending \in Nat /\ MaxUnfreezes \in Nat

Codes == {r.code : r \in Requests}

Of(r) == Wrapper[r.tr]
Name(r) == IF Of(r).coded THEN <<Of(r).name, r.code>> ELSE <<Of(r).name>>
CarriesName(a, r) == a.name = Name(r)
NoName  == <<>>
Names   == {Name(r) : r \in Requests}

NoAnswer == None
Answers  == [name : Names, code : Codes \cup {None}]

\* SetInputValue keeps one value per key, whoever writes it.
InputKeys == {Wrapper[t].key : t \in Trs}

VARIABLES
    stack,     \* requests in progress, the innermost last
    busy,      \* _tr_busy
    current,   \* _tr_current_rq
    data,      \* _tr_data
    loop,      \* the frame whose loop _tr_loop is, 0 for None
    inputs,    \* values set by SetInputValue
    bans,      \* TRs in _tr_bans that are still blocked
    pending,   \* answers the broker owes
    given,     \* what the step gave to a caller, and which
    unfrozen   \* how often force_unfreeze ran

vars == <<stack, busy, current, data, loop, inputs, bans, pending, given, unfrozen>>

Frames == [req : Requests, pc : {"acquire", "exec", "quit"}, armed : BOOLEAN, cut : BOOLEAN]

NoResult == [req |-> None, ans |-> NoAnswer, kept |-> FALSE]

TypeOK ==
    /\ stack \in Seq(Frames) /\ Len(stack) <= MaxDepth
    /\ busy \in BOOLEAN
    /\ current \in Names \cup {NoName}
    /\ data \in Answers \cup {NoAnswer}
    /\ loop \in 0..MaxDepth
    /\ inputs \in [InputKeys -> Codes \cup {None}]
    /\ bans \subseteq Trs
    /\ pending \subseteq Answers
    /\ given \in [req : Requests \cup {None}, ans : Answers \cup {NoAnswer}, kept : BOOLEAN]
    /\ unfrozen \in 0..MaxUnfreezes

Init ==
    /\ stack = <<>> /\ busy = FALSE /\ current = NoName
    /\ data = NoAnswer /\ loop = 0
    /\ inputs = [k \in InputKeys |-> None]
    /\ bans = {} /\ pending = {} /\ given = NoResult /\ unfrozen = 0

----------------------------------------------------------------------------
(* Helpers *)

Top  == stack[Len(stack)]
Pop  == SubSeq(stack, 1, Len(stack) - 1)
IsKw(r) == r.tr = "kw"

\* The frames under one that ends lose their timeout timer with it.
Unwound == [i \in DOMAIN Pop |-> [Pop[i] EXCEPT !.cut = TRUE]]

\* quit() on the loop _tr_loop refers to, if it is running.
LoopQuit == IF loop \in DOMAIN stack /\ stack[loop].pc = "exec"
            THEN [stack EXCEPT ![loop].pc = "quit"] ELSE stack

\* What a wrapper makes of the buffer: a price wrapper takes whatever has a
\* price, a row wrapper whatever has rows; the others find none of their fields.
Kind(name) == (CHOOSE w \in {Wrapper[t] : t \in Trs} : w.name = name[1]).reads
Readable(r, d) == d # NoAnswer /\ Kind(d.name) = Of(r).reads
Read(r, d) == IF Readable(r, d) THEN d ELSE NoAnswer

Ended(r, d, k) == [req |-> r, ans |-> d, kept |-> k]

----------------------------------------------------------------------------
(* Asking *)

\* A shy wrapper returns before it has touched anything.
AskShy(r) ==
    /\ Of(r).shy /\ r.tr \in bans
    /\ given' = Ended(r, NoAnswer, FALSE)
    /\ UNCHANGED <<stack, busy, current, data, loop, inputs, bans, pending, unfrozen>>

\* The inputs are written before the request learns that the slot is taken.
AskRefused(r) ==
    /\ ~(Of(r).shy /\ r.tr \in bans)
    /\ busy
    /\ inputs' = [inputs EXCEPT ![Of(r).key] = r.code]
    /\ given' = Ended(r, IF Of(r).careless THEN Read(r, data) ELSE NoAnswer, FALSE)
    /\ UNCHANGED <<stack, busy, current, data, loop, bans, pending, unfrozen>>

AskBanned(r) ==
    /\ ~Of(r).shy /\ ~IsKw(r)
    /\ ~busy /\ r.tr \in bans
    /\ inputs' = [inputs EXCEPT ![Of(r).key] = r.code]
    /\ data' = NoAnswer
    /\ given' = Ended(r, NoAnswer, FALSE)
    /\ UNCHANGED <<stack, busy, current, loop, bans, pending, unfrozen>>

Admits(r) == ~busy /\ (r.tr \notin bans \/ IsKw(r))

AskAccepted(r) ==
    /\ Admits(r)
    /\ Len(stack) < MaxDepth
    /\ inputs' = [inputs EXCEPT ![Of(r).key] = r.code]
    /\ data' = NoAnswer
    /\ busy' = TRUE /\ current' = Name(r)
    /\ stack' = Append(stack, [req |-> r, pc |-> "acquire", armed |-> FALSE, cut |-> FALSE])
    /\ given' = NoResult
    /\ UNCHANGED <<loop, bans, pending, unfrozen>>

Ask(r) == AskShy(r) \/ AskRefused(r) \/ AskBanned(r) \/ AskAccepted(r)

----------------------------------------------------------------------------
(* The request in progress *)

\* The rate limiter has let it through: it is sent with the inputs as they
\* are by now, and the nested loop starts.
Send ==
    /\ stack # <<>> /\ Top.pc = "acquire"
    /\ Cardinality(pending) < MaxPending
    /\ pending' = pending \cup
         {[name |-> Name(Top.req), code |-> inputs[Of(Top.req).key]]}
    /\ stack' = [stack EXCEPT ![Len(stack)].pc = "exec", ![Len(stack)].armed = TRUE]
    /\ loop' = Len(stack)
    /\ given' = NoResult
    /\ UNCHANGED <<busy, current, data, inputs, bans, unfrozen>>

\* The name a request leaves behind: the plural request does not clear it.
NameKept(r)  == current                         \* mutated: nobody clears it
NameAfter(r) == IF IsKw(r) THEN current ELSE NoName

BanByName(r) == {Of(r).name}                  \* mutated: filed under the request name
BanOf(r) == IF IsKw(r) THEN {} ELSE {r.tr}

\* CommRqData does not take it; -200 bans the TR for 15 minutes.
SendFails ==
    /\ stack # <<>> /\ Top.pc = "acquire"
    /\ bans' \in {bans, bans \cup BanOf(Top.req)}
    /\ busy' = FALSE
    /\ current' = NameAfter(Top.req)
    /\ stack' = Pop
    /\ given' = Ended(Top.req,
                  IF Of(Top.req).careless THEN Read(Top.req, data) ELSE NoAnswer, TRUE)
    /\ UNCHANGED <<data, loop, inputs, pending, unfrozen>>

MatchesAny(p) == current # NoName               \* mutated: names are not compared
Matches(p) == current # NoName /\ p.name = current

\* OnReceiveTrData: an answer with the name of the current request fills the buffer
\* (empty if its parser raises) and ends the loop.
Deliver(p) ==
    /\ p \in pending
    /\ pending' = pending \ {p}
    /\ IF Matches(p)
       THEN /\ data' \in {p, NoAnswer}
            /\ stack' = LoopQuit
       ELSE UNCHANGED <<data, stack>>
    /\ given' = NoResult
    /\ UNCHANGED <<busy, current, loop, inputs, bans, unfrozen>>

NeverAnswered(p) ==
    /\ p \in pending
    /\ pending' = pending \ {p}
    /\ given' = NoResult
    /\ UNCHANGED <<stack, busy, current, data, loop, inputs, bans, unfrozen>>

NoLoop(i) == 0                                  \* mutated: quits nothing
LoopOf(i) == IF IsKw(stack[i].req) THEN i ELSE loop

\* The timeout of frame i fires.  The handler of _comm_rq quits whatever loop
\* _tr_loop refers to by then, that of _comm_kw_rq its own.
TimedOut(i) ==
    /\ i \in DOMAIN stack /\ stack[i].armed /\ stack[i].pc = "exec"
    /\ IsKw(stack[i].req) \/ loop # 0
    /\ stack' = [k \in DOMAIN stack |->
                   [stack[k] EXCEPT !.armed = @ /\ k # i,
                                    !.pc = IF k = LoopOf(i) /\ @ = "exec" THEN "quit" ELSE @]]
    /\ given' = NoResult
    /\ UNCHANGED <<busy, current, data, loop, inputs, bans, pending, unfrozen>>

\* With _tr_loop gone the handler raises, which ends the process; watchdog.py
\* starts it again.
TimeoutRaises(i) ==
    /\ i \in DOMAIN stack /\ stack[i].armed /\ stack[i].pc = "exec"
    /\ ~IsKw(stack[i].req) /\ loop = 0
    /\ stack' = <<>> /\ busy' = FALSE /\ current' = NoName
    /\ data' = NoAnswer /\ bans' = {} /\ pending' = {}
    /\ given' = NoResult
    /\ UNCHANGED <<loop, inputs, unfrozen>>

\* The innermost loop has been told to quit and does; the wrapper reads.
Return ==
    /\ stack # <<>> /\ Top.pc = "quit"
    /\ stack' = Unwound
    /\ busy' = FALSE
    /\ current' = NameAfter(Top.req)
    /\ loop' = (IF IsKw(Top.req) \/ Top.cut THEN loop ELSE 0)
    /\ given' = Ended(Top.req, IF Top.cut THEN NoAnswer ELSE Read(Top.req, data), TRUE)
    /\ UNCHANGED <<data, inputs, bans, pending, unfrozen>>

----------------------------------------------------------------------------
(* Around it *)

\* force_unfreeze, from a thread of its own: at any point of the main thread.
ForceUnfreeze ==
    /\ unfrozen < MaxUnfreezes
    /\ unfrozen' = unfrozen + 1
    /\ stack' = LoopQuit
    /\ busy' = FALSE /\ current' = NoName
    /\ given' = NoResult
    /\ UNCHANGED <<data, loop, inputs, bans, pending>>

BanEnds(tr) ==
    /\ tr \in bans
    /\ bans' = bans \ {tr}
    /\ given' = NoResult
    /\ UNCHANGED <<stack, busy, current, data, loop, inputs, pending, unfrozen>>

\* The user unlocks or reloads the settings.
ResetBans ==
    /\ bans # {}
    /\ bans' = {}
    /\ given' = NoResult
    /\ UNCHANGED <<stack, busy, current, data, loop, inputs, pending, unfrozen>>

Next ==
    \/ \E r \in Requests : Ask(r)
    \/ Send \/ SendFails \/ Return
    \/ \E p \in pending : Deliver(p) \/ NeverAnswered(p)
    \/ \E i \in DOMAIN stack : TimedOut(i) \/ TimeoutRaises(i)
    \/ ForceUnfreeze \/ ResetBans
    \/ \E tr \in bans : BanEnds(tr)

Spec == Init /\ [][Next]_vars

\* The timer of a running loop fires, a loop told to quit unwinds, and the
\* limiter waits a second at most.
Fairness == /\ WF_vars(Return) /\ WF_vars(Send \/ SendFails)
            /\ \A i \in 1..MaxDepth : WF_vars(TimedOut(i))

LiveSpec == Spec /\ Fairness

----------------------------------------------------------------------------
(* Properties *)

\* The gateway keeps the promises of RequestSlot: the outermost request has
\* the slot, and what it is given carries its name (_comm_rq 1100-1102 and
\* _on_receive_tr_data 1297-1308).
Slot == INSTANCE RequestSlot WITH
            NoRequest <- None,
            SameName  <- CarriesName,
            Careless  <- {r \in Requests : Of(r).careless},
            owner     <- IF stack = <<>> THEN None ELSE stack[1].req,
            given     <- given.ans,
            sound     <- unfrozen = 0

KeepsSlotPromise == Slot!Spec

\* The slot is never left taken: with no request in progress the flag is
\* down, and no name but that of a plural request waits for an answer
\* (the finally blocks of _comm_rq and _comm_kw_rq).
SlotFreed ==
    stack = <<>> => ~busy /\ current \in {NoName, <<Wrapper["kw"].name>>}

\* Each intervention of the freeze watchdog lets in at most one request
\* beside those in progress (force_unfreeze 1258-1259).
OneInsideAnother == Len(stack) <= 1 + unfrozen

\* A TR the broker has banned is not sent while the ban lasts, unless the
\* watchdog tore a request loose (_comm_rq 1119-1125).
BannedNotSent ==
    [][unfrozen = 0 => \A tr \in bans \ {"kw"} :
          ~(Send /\ Top.req.tr = tr)]_vars

\* Every request ends, answered or not, as long as the watchdog keeps out.
RequestsEnd == [](unfrozen = 0) => (stack # <<>> ~> stack = <<>>)
=============================================================================
