-------------------------- MODULE Gateway_proofs --------------------------
(***************************************************************************)
(* Proofs about Gateway, for every set of requests and all bounds.         *)
(***************************************************************************)
EXTENDS Gateway, SequenceTheorems, TLAPS

KwName == <<Wrapper["kw"].name>>

\* The frame of a request that is being asked, and what is in the slot.
Fresh(r) == [req |-> r, pc |-> "acquire", armed |-> FALSE, cut |-> FALSE]

\* t has the frames of stack: later stages perhaps, but the same requests.
SameFrames(t) ==
    /\ t \in Seq(Frames) /\ Len(t) = Len(stack)
    /\ \A i \in 1..Len(stack) : /\ t[i].req = stack[i].req
                                /\ t[i].cut = stack[i].cut
                                /\ t[i].pc = "acquire" => stack[i].pc = "acquire"

\* A frame that is not under another holds the flag; the name that waits is
\* that of the innermost request, or one a plural request left.
SlotHeld ==
    /\ stack = <<>> => ~busy
    /\ current \in {NoName, KwName} \/ (stack # <<>> /\ current = Name(Top.req))

Nesting == busy \/ Len(stack) <= unfrozen

\* Without an intervention the one frame owns flag, name and buffer.
Calm ==
    unfrozen = 0 /\ stack # <<>> =>
        /\ busy /\ current = Name(stack[1].req) /\ ~stack[1].cut
        /\ data = NoAnswer \/ data.name = current
        /\ stack[1].pc = "acquire" => stack[1].req.tr \notin bans \/ IsKw(stack[1].req)

IInv == TypeOK /\ SlotHeld /\ Nesting /\ OneInsideAnother /\ Calm

----------------------------------------------------------------------------
(* Values *)

\* What is known of a request and of its name.
LEMMA RequestType ==
    ASSUME NEW r \in Requests
    PROVE  /\ r.tr \in Trs /\ r.code \in Codes /\ Name(r) \in Names /\ Name(r) # NoName
           /\ IsKw(r) => Name(r) = KwName
<1>1. r.tr \in Trs
  BY ConstantsAssumption DEF ConstantsAssumption
<1>2. r.code \in Codes /\ Name(r) \in Names
  BY DEF Codes, Names
<1>3. Name(r) # NoName
  BY SMT DEF Name, NoName
<1>4. IsKw(r) => ~Of(r).coded /\ Of(r).name = Wrapper["kw"].name
  <2>1. Wrapper["kw"] = get_multiple_stock_info
    BY DEF Wrapper
  <2>2. \A n, k, x, y : [[name |-> n, coded |-> FALSE, shy |-> TRUE, careless |-> FALSE, key |-> k, reads |-> x]
                           EXCEPT !.shy = FALSE, !.reads = y].coded = FALSE
    OBVIOUS
  <2>3. get_multiple_stock_info.coded = FALSE
    BY <2>2 DEF get_multiple_stock_info, Account, Ranking
  <2>4. QED
    BY <2>1, <2>3 DEF IsKw, Of
<1>5. QED
  BY <1>1, <1>2, <1>3, <1>4 DEF Name, KwName

\* Asking writes one input.
LEMMA InputType ==
    ASSUME TypeOK, NEW r \in Requests
    PROVE  [inputs EXCEPT ![Of(r).key] = r.code] \in [InputKeys -> Codes \cup {None}]
BY RequestType DEF TypeOK, InputKeys, Of

\* The innermost request and the frames under it.
LEMMA TopType ==
    ASSUME TypeOK, stack # <<>>
    PROVE  /\ Len(stack) \in Nat \ {0} /\ Top \in Frames /\ Top.req \in Requests
           /\ Top = stack[Len(stack)]
<1>1. stack \in Seq(Frames)
  BY DEF TypeOK
<1>2. Len(stack) \in Nat \ {0}
  BY <1>1, EmptySeq
<1>3. Len(stack) \in 1..Len(stack)
  BY <1>2
<1>4. stack[Len(stack)] \in Frames
  BY <1>1, <1>3, ElementOfSeq
<1>5. QED
  BY <1>2, <1>4 DEF Top, Frames

LEMMA PopType ==
    ASSUME TypeOK, stack # <<>>
    PROVE  /\ Pop \in Seq(Frames) /\ Len(Pop) = Len(stack) - 1
           /\ \A i \in 1..Len(Pop) : Pop[i] = stack[i]
<1>1. Len(stack) \in Nat \ {0}
  BY TopType
<1>2. \A i \in 1..(Len(stack) - 1) : stack[i] \in Frames
  BY <1>1 DEF TypeOK
<1>3. QED
  <2> DEFINE n == Len(stack) - 1
  <2>1. n \in Nat /\ n - 1 + 1 = n /\ \A i \in 1..n : 1 + i - 1 = i
    BY <1>1
  <2> HIDE DEF n
  <2>2. /\ SubSeq(stack, 1, n) \in Seq(Frames)
        /\ Len(SubSeq(stack, 1, n)) = IF 1 <= n THEN n - 1 + 1 ELSE 0
        /\ \A i \in 1..(n - 1 + 1) : SubSeq(stack, 1, n)[i] = stack[1 + i - 1]
    BY <1>2, <2>1, SubSeqProperties DEF n
  <2>3. Len(SubSeq(stack, 1, n)) = n
    BY <2>1, <2>2
  <2>4. \A i \in 1..n : SubSeq(stack, 1, n)[i] = stack[i]
    BY <2>1, <2>2
  <2>5. QED
    BY <2>2, <2>3, <2>4 DEF Pop, n

LEMMA UnwoundType ==
    ASSUME TypeOK, stack # <<>>
    PROVE  /\ Unwound \in Seq(Frames) /\ Len(Unwound) = Len(stack) - 1
           /\ \A i \in 1..Len(Unwound) : Unwound[i].req = stack[i].req
<1>1. /\ Pop \in Seq(Frames) /\ Len(Pop) = Len(stack) - 1 /\ Len(stack) \in Nat \ {0}
      /\ \A i \in 1..Len(Pop) : Pop[i] = stack[i]
  BY PopType, TopType
<1>2. \A f \in Frames : /\ [f EXCEPT !.cut = TRUE] \in Frames
                        /\ [f EXCEPT !.cut = TRUE].req = f.req
  BY DEF Frames
<1>3. \A i \in 1..Len(Pop) : Pop[i] \in Frames
  BY <1>1
<1>4. Unwound = [i \in 1..Len(Pop) |-> [Pop[i] EXCEPT !.cut = TRUE]]
  BY <1>1 DEF Unwound
<1>5. Unwound \in [1..Len(Pop) -> Frames]
  BY <1>2, <1>3, <1>4
<1>6. Unwound \in Seq(Frames) /\ Len(Unwound) = Len(Pop)
  BY <1>1, <1>5
<1>7. QED
  BY <1>1, <1>2, <1>3, <1>4, <1>6

\* An accepted request becomes the innermost frame.
LEMMA PushType ==
    ASSUME TypeOK, NEW r \in Requests
    PROVE  /\ Append(stack, Fresh(r)) \in Seq(Frames)
           /\ Len(Append(stack, Fresh(r))) = Len(stack) + 1
           /\ Append(stack, Fresh(r))[Len(stack) + 1] = Fresh(r)
           /\ Append(stack, Fresh(r)) # <<>>
<1>1. Fresh(r) \in Frames
  BY DEF Fresh, Frames
<1>2. QED
  BY <1>1, AppendProperties DEF TypeOK

\* The stages a frame passes leave its request alone.
LEMMA QuitSame ==
    ASSUME TypeOK
    PROVE  SameFrames(LoopQuit)
<1>1. \A f \in Frames : /\ [f EXCEPT !.pc = "quit"] \in Frames
                        /\ [f EXCEPT !.pc = "quit"].req = f.req
                        /\ [f EXCEPT !.pc = "quit"].cut = f.cut
                        /\ [f EXCEPT !.pc = "quit"].pc = "quit"
  BY DEF Frames
<1>2. CASE LoopQuit = stack
  BY <1>2 DEF SameFrames, TypeOK
<1>3. CASE loop \in DOMAIN stack /\ LoopQuit = [stack EXCEPT ![loop] = [stack[loop] EXCEPT !.pc = "quit"]]
  <2>1. stack \in Seq(Frames) /\ loop \in 1..Len(stack) /\ stack[loop] \in Frames
    BY <1>3 DEF TypeOK
  <2>2. LoopQuit \in Seq(Frames) /\ Len(LoopQuit) = Len(stack)
    BY <1>1, <1>3, <2>1
  <2>3. \A i \in 1..Len(stack) : LoopQuit[i] = IF i = loop THEN [stack[loop] EXCEPT !.pc = "quit"] ELSE stack[i]
    BY <1>3, <2>1
  <2>4. QED
    BY <1>1, <2>1, <2>2, <2>3 DEF SameFrames
<1>4. QED
  BY <1>2, <1>3 DEF LoopQuit

LEMMA SentSame ==
    ASSUME TypeOK, stack # <<>>, Top.pc = "acquire"
    PROVE  SameFrames([stack EXCEPT ![Len(stack)].pc = "exec", ![Len(stack)].armed = TRUE])
<1> DEFINE Sent(f) == [[f EXCEPT !.pc = "exec"] EXCEPT !.armed = TRUE]
           T == [stack EXCEPT ![Len(stack)].pc = "exec", ![Len(stack)].armed = TRUE]
<1>1. \A f \in Frames : Sent(f) \in Frames /\ Sent(f).req = f.req /\ Sent(f).cut = f.cut /\ Sent(f).pc = "exec"
  BY DEF Frames
<1>2. stack \in Seq(Frames) /\ Len(stack) \in 1..Len(stack) /\ stack[Len(stack)] \in Frames
  BY TopType DEF TypeOK, Top
<1>3. T = [stack EXCEPT ![Len(stack)] = Sent(stack[Len(stack)])]
  BY <1>2
<1> HIDE DEF Sent, T
<1>a. Sent(stack[Len(stack)]) \in Frames
  BY <1>1, <1>2
<1>4. T \in Seq(Frames) /\ Len(T) = Len(stack)
  BY <1>a, <1>2, <1>3, ExceptSeq
<1>5. \A i \in 1..Len(stack) : T[i] = IF i = Len(stack) THEN Sent(stack[i]) ELSE stack[i]
  BY <1>a, <1>2, <1>3, ExceptSeq
<1>6. SameFrames(T)
  BY <1>1, <1>2, <1>4, <1>5 DEF SameFrames
<1>7. QED
  BY <1>6 DEF T

LEMMA TimedSame ==
    ASSUME TypeOK, NEW i \in DOMAIN stack, TimedOut(i)
    PROVE  SameFrames(stack')
<1> DEFINE Past(f, k) == [f EXCEPT !.armed = @ /\ k # i,
                                   !.pc = IF k = LoopOf(i) /\ @ = "exec" THEN "quit" ELSE @]
<1>1. \A f \in Frames, k \in Nat : /\ Past(f, k) \in Frames /\ Past(f, k).req = f.req
                                   /\ Past(f, k).cut = f.cut
                                   /\ Past(f, k).pc = "acquire" => f.pc = "acquire"
  <2> TAKE f \in Frames, k \in Nat
  <2> DEFINE b == f.armed /\ k # i
             q == IF k = LoopOf(i) /\ f.pc = "exec" THEN "quit" ELSE f.pc
  <2>1. b \in BOOLEAN /\ q \in {"acquire", "exec", "quit"} /\ (q = "acquire" => f.pc = "acquire")
    BY DEF Frames
  <2>2. Past(f, k) = [f EXCEPT !.armed = b, !.pc = q]
    BY DEF Frames
  <2> HIDE DEF b, q, Past
  <2>3. ASSUME NEW b0 \in BOOLEAN, NEW q0 \in {"acquire", "exec", "quit"}
        PROVE  /\ [f EXCEPT !.armed = b0, !.pc = q0] \in Frames
               /\ [f EXCEPT !.armed = b0, !.pc = q0].req = f.req
               /\ [f EXCEPT !.armed = b0, !.pc = q0].cut = f.cut
               /\ [f EXCEPT !.armed = b0, !.pc = q0].pc = q0
    BY DEF Frames
  <2>4. /\ [f EXCEPT !.armed = b, !.pc = q] \in Frames
        /\ [f EXCEPT !.armed = b, !.pc = q].req = f.req
        /\ [f EXCEPT !.armed = b, !.pc = q].cut = f.cut
        /\ [f EXCEPT !.armed = b, !.pc = q].pc = q
    BY <2>1, <2>3
  <2>5. QED
    BY <2>1, <2>2, <2>4
<1>2. stack' = [k \in DOMAIN stack |-> Past(stack[k], k)]
  BY DEF TimedOut
<1> HIDE DEF Past
<1>3. stack \in Seq(Frames) /\ DOMAIN stack = 1..Len(stack) /\ Len(stack) \in Nat
  BY DEF TypeOK
<1>4. \A k \in 1..Len(stack) : stack[k] \in Frames /\ k \in Nat
  BY <1>3
<1>5. stack' \in [1..Len(stack) -> Frames]
  BY <1>1, <1>2, <1>3, <1>4
<1>6. stack' \in Seq(Frames) /\ Len(stack') = Len(stack)
  BY <1>3, <1>5
<1>7. QED
  BY <1>1, <1>2, <1>3, <1>4, <1>6 DEF SameFrames

\* What a wrapper reads is the buffer, or nothing.
LEMMA ReadType ==
    ASSUME TypeOK, NEW r \in Requests
    PROVE  Read(r, data) \in Answers \cup {NoAnswer} /\ Read(r, data) \in {data, NoAnswer}
BY DEF Read, TypeOK

LEMMA EndedType ==
    ASSUME NEW r \in Requests \cup {None}, NEW d \in Answers \cup {NoAnswer}, NEW k \in BOOLEAN
    PROVE  /\ Ended(r, d, k) \in [req : Requests \cup {None}, ans : Answers \cup {NoAnswer}, kept : BOOLEAN]
           /\ Ended(r, d, k).ans = d
BY DEF Ended

LEMMA NoResultType ==
    /\ NoResult \in [req : Requests \cup {None}, ans : Answers \cup {NoAnswer}, kept : BOOLEAN]
    /\ NoResult.ans = NoAnswer
BY DEF NoResult

----------------------------------------------------------------------------
(* The inductive invariant *)

LEMMA StartOK == Init => IInv
<1> SUFFICES ASSUME Init PROVE IInv
  OBVIOUS
<1>1. <<>> \in Seq(Frames) /\ Len(<<>>) = 0
  BY EmptySeq
<1>2. MaxDepth \in Nat \ {0} /\ MaxUnfreezes \in Nat
  BY ConstantsAssumption DEF ConstantsAssumption
<1>3. stack \in Seq(Frames) /\ Len(stack) <= MaxDepth
  BY <1>1, <1>2 DEF Init
<1>4. inputs \in [InputKeys -> Codes \cup {None}]
  BY DEF Init
<1>5. loop \in 0..MaxDepth /\ unfrozen \in 0..MaxUnfreezes
  BY <1>2 DEF Init
<1>6. TypeOK
  BY <1>3, <1>4, <1>5, NoResultType DEF Init, TypeOK
<1>7. QED
  BY <1>1, <1>6 DEF Init, IInv, SlotHeld, Nesting, OneInsideAnother, Calm

\* A step that neither takes nor frees the slot.
LEMMA KeptSlot ==
    ASSUME IInv, SameFrames(stack'), busy' = busy, current' = current,
           bans' \subseteq bans, unfrozen' = unfrozen,
           data' = data \/ data' = NoAnswer \/ data'.name = current
    PROVE  SlotHeld' /\ Nesting' /\ OneInsideAnother' /\ Calm'
<1>1. /\ stack \in Seq(Frames) /\ stack' \in Seq(Frames) /\ Len(stack') = Len(stack)
      /\ Len(stack) \in Nat
  BY DEF IInv, TypeOK, SameFrames
<1>2. /\ stack = <<>> => Len(stack) = 0
      /\ stack # <<>> => Len(stack) \in Nat \ {0}
      /\ stack' = <<>> => Len(stack') = 0
      /\ stack' # <<>> => Len(stack') \in Nat \ {0}
  BY <1>1, EmptySeq
<1>3. stack = <<>> <=> stack' = <<>>
  BY <1>1, <1>2
<1>4. stack # <<>> => /\ Top'.req = Top.req /\ stack'[1].req = stack[1].req
                      /\ stack'[1].cut = stack[1].cut
                      /\ stack'[1].pc = "acquire" => stack[1].pc = "acquire"
  <2>1. stack # <<>> => 1 \in 1..Len(stack) /\ Len(stack) \in 1..Len(stack)
    BY <1>2
  <2>2. Top'.req = stack'[Len(stack')].req /\ Top.req = stack[Len(stack)].req
    BY DEF Top
  <2>3. QED
    BY <1>1, <2>1, <2>2 DEF SameFrames
<1>5. SlotHeld'
  <2>1. stack' = <<>> => ~busy'
    BY <1>3 DEF IInv, SlotHeld
  <2>2. stack # <<>> => Name(Top'.req) = Name(Top.req)
    BY <1>4
  <2>3. Name(Top.req)' = Name(Top'.req)
    BY DEF Name, Of
  <2>4. QED
    BY <1>3, <2>1, <2>2, <2>3 DEF IInv, SlotHeld, KwName
<1>6. Nesting' /\ OneInsideAnother'
  BY <1>1 DEF IInv, Nesting, OneInsideAnother
<1>7. Calm'
  <2> SUFFICES ASSUME unfrozen' = 0, stack' # <<>>
               PROVE  /\ busy' /\ current' = Name(stack'[1].req) /\ ~stack'[1].cut
                      /\ data' = NoAnswer \/ data'.name = current'
                      /\ stack'[1].pc = "acquire" =>
                            stack'[1].req.tr \notin bans' \/ IsKw(stack'[1].req)
    BY DEF Calm, Name, Of, IsKw
  <2>1. /\ busy /\ current = Name(stack[1].req) /\ ~stack[1].cut
        /\ data = NoAnswer \/ data.name = current
        /\ stack[1].pc = "acquire" => stack[1].req.tr \notin bans \/ IsKw(stack[1].req)
    BY <1>3 DEF IInv, Calm
  <2>2. QED
    BY <1>3, <1>4, <2>1
<1>8. QED
  BY <1>5, <1>6, <1>7

\* The innermost request ends.
LEMMA FreedSlot ==
    ASSUME IInv, stack # <<>>, stack' \in Seq(Frames), Len(stack') = Len(stack) - 1,
           busy' = FALSE, current' = NameAfter(Top.req), unfrozen' = unfrozen
    PROVE  SlotHeld' /\ Nesting' /\ OneInsideAnother' /\ Calm'
<1>1. Len(stack) \in Nat \ {0} /\ unfrozen \in Nat /\ Top.req \in Requests
  BY TopType, ConstantsAssumption DEF IInv, TypeOK, ConstantsAssumption
<1>2. stack' # <<>> => Len(stack') \in Nat \ {0}
  BY EmptySeq
<1>3. Len(stack') <= unfrozen
  BY <1>1 DEF IInv, OneInsideAnother
<1>4. current' \in {NoName, KwName}
  BY <1>1, RequestType DEF IInv, SlotHeld, NameAfter
<1>5. SlotHeld'
  BY <1>4 DEF SlotHeld, NoName, KwName
<1>6. Nesting' /\ OneInsideAnother'
  BY <1>1, <1>3 DEF Nesting, OneInsideAnother
<1>7. Calm'
  BY <1>1, <1>2, <1>3 DEF Calm
<1>8. QED
  BY <1>5, <1>6, <1>7

LEMMA KeptType ==
    ASSUME TypeOK
    PROVE  SameFrames(stack)
BY DEF TypeOK, SameFrames

LEMMA AskKeeps ==
    ASSUME IInv, NEW r \in Requests, Ask(r)
    PROVE  IInv'
<1>1. TypeOK /\ SameFrames(stack)
  BY KeptType DEF IInv
<1>2. [inputs EXCEPT ![Of(r).key] = r.code] \in [InputKeys -> Codes \cup {None}]
  BY <1>1, InputType
<1>3. \A d \in Answers \cup {NoAnswer} :
         Ended(r, d, FALSE) \in [req : Requests \cup {None}, ans : Answers \cup {NoAnswer}, kept : BOOLEAN]
  BY EndedType
<1>4. Read(r, data) \in Answers \cup {NoAnswer}
  BY <1>1, ReadType
<1>5. CASE AskShy(r)
  <2>1. SameFrames(stack') /\ TypeOK'
    BY <1>1, <1>3, <1>5 DEF AskShy, TypeOK, SameFrames
  <2>2. QED
    BY <1>5, <2>1, KeptSlot DEF AskShy, IInv
<1>6. CASE AskRefused(r)
  <2>1. SameFrames(stack') /\ TypeOK'
    BY <1>1, <1>2, <1>3, <1>4, <1>6 DEF AskRefused, TypeOK, SameFrames
  <2>2. QED
    BY <1>6, <2>1, KeptSlot DEF AskRefused, IInv
<1>7. CASE AskBanned(r)
  <2>1. SameFrames(stack') /\ TypeOK'
    BY <1>1, <1>2, <1>3, <1>7 DEF AskBanned, TypeOK, SameFrames
  <2>2. QED
    BY <1>7, <2>1, KeptSlot DEF AskBanned, IInv
<1>8. CASE AskAccepted(r)
  <2> DEFINE T == Append(stack, Fresh(r))
  <2>1. /\ stack' = T /\ busy' = TRUE /\ current' = Name(r) /\ data' = NoAnswer
        /\ UNCHANGED <<loop, bans, pending, unfrozen>> /\ given' = NoResult
        /\ inputs' = [inputs EXCEPT ![Of(r).key] = r.code]
        /\ ~busy /\ Len(stack) < MaxDepth /\ (r.tr \notin bans \/ IsKw(r))
    BY <1>8 DEF AskAccepted, Admits, Fresh
  <2>2. /\ T \in Seq(Frames) /\ Len(T) = Len(stack) + 1 /\ T[Len(stack) + 1] = Fresh(r)
        /\ T # <<>>
    BY <1>1, PushType
  <2> HIDE DEF T
  <2>3. Len(stack) \in Nat /\ unfrozen \in Nat /\ MaxDepth \in Nat /\ unfrozen <= MaxUnfreezes
    BY <1>1, ConstantsAssumption DEF TypeOK, ConstantsAssumption
  <2>4. TypeOK'
    <3>1. Len(T) <= MaxDepth
      BY <2>1, <2>2, <2>3
    <3>2. QED
      BY <1>1, <1>2, <2>1, <2>2, <3>1, RequestType, NoResultType DEF TypeOK
  <2>5. T[Len(T)] = Fresh(r)
    BY <2>2
  <2>6. SlotHeld'
    <3>1. Top'.req = r
      BY <2>1, <2>5 DEF Top, Fresh
    <3>2. Name(Top.req)' = Name(r)
      BY <3>1 DEF Name, Of
    <3>3. QED
      BY <2>1, <2>2, <3>2 DEF SlotHeld
  <2>7. Len(stack) <= unfrozen
    BY <2>1 DEF IInv, Nesting
  <2>8. Nesting' /\ OneInsideAnother'
    BY <2>1, <2>2, <2>3, <2>7 DEF Nesting, OneInsideAnother
  <2>9. Calm'
    <3> SUFFICES ASSUME unfrozen' = 0 PROVE Calm'
      BY DEF Calm
    <3>1. Len(stack) = 0
      BY <2>1, <2>3, <2>7
    <3>2. T[1] = Fresh(r)
      BY <2>2, <3>1
    <3>3. stack'[1].req = r /\ ~stack'[1].cut
      BY <2>1, <3>2 DEF Fresh
    <3>4. QED
      BY <2>1, <3>3 DEF Calm, Name, Of, IsKw
  <2>10. QED
    BY <2>4, <2>6, <2>8, <2>9 DEF IInv
<1>9. QED
  BY <1>5, <1>6, <1>7, <1>8 DEF Ask

LEMMA SendKeeps == IInv /\ Send => IInv'
<1> SUFFICES ASSUME IInv, Send PROVE IInv'
  OBVIOUS
<1>1. TypeOK /\ stack # <<>> /\ Top.pc = "acquire"
  BY DEF IInv, Send
<1>2. SameFrames(stack')
  BY <1>1, SentSame DEF Send
<1>3. Len(stack) \in Nat \ {0} /\ Top.req \in Requests
  BY <1>1, TopType
<1>4. [name |-> Name(Top.req), code |-> inputs[Of(Top.req).key]] \in Answers
  <2>1. Of(Top.req).key \in InputKeys /\ Name(Top.req) \in Names
    BY <1>3, RequestType DEF InputKeys, Of
  <2>2. inputs[Of(Top.req).key] \in Codes \cup {None}
    BY <1>1, <2>1 DEF TypeOK
  <2>3. QED
    BY <2>1, <2>2 DEF Answers
<1>5. pending' \subseteq Answers
  BY <1>1, <1>4 DEF Send, TypeOK
<1>6. stack' \in Seq(Frames) /\ Len(stack') = Len(stack)
  BY <1>2 DEF SameFrames
<1>7. loop' \in 0..MaxDepth
  BY <1>1, <1>3, ConstantsAssumption DEF Send, TypeOK, ConstantsAssumption
<1>8. UNCHANGED <<busy, current, data, inputs, bans, unfrozen>> /\ given' = NoResult
  BY DEF Send
<1>9. TypeOK'
  BY <1>1, <1>5, <1>6, <1>7, <1>8, NoResultType DEF TypeOK
<1>10. QED
  BY <1>2, <1>8, <1>9, KeptSlot DEF IInv

LEMMA SendFailsKeeps == IInv /\ SendFails => IInv'
<1> SUFFICES ASSUME IInv, SendFails PROVE IInv'
  OBVIOUS
<1>1. TypeOK /\ stack # <<>> /\ Top.req \in Requests /\ Len(stack) \in Nat \ {0}
  BY TopType DEF IInv, SendFails
<1>2. stack' \in Seq(Frames) /\ Len(stack') = Len(stack) - 1
  BY <1>1, PopType DEF SendFails
<1>3. bans' \subseteq Trs
  BY <1>1, RequestType DEF SendFails, BanOf, TypeOK
<1>4. Read(Top.req, data) \in Answers \cup {NoAnswer}
  BY <1>1, ReadType
<1>5. given' \in [req : Requests \cup {None}, ans : Answers \cup {NoAnswer}, kept : BOOLEAN]
  BY <1>1, <1>4, EndedType DEF SendFails
<1>6. current' \in Names \cup {NoName}
  BY <1>1 DEF SendFails, NameAfter, TypeOK
<1>7. /\ busy' = FALSE /\ current' = NameAfter(Top.req)
      /\ UNCHANGED <<data, loop, inputs, pending, unfrozen>>
  BY DEF SendFails
<1>8. Len(stack') <= MaxDepth
  BY <1>1, <1>2, ConstantsAssumption DEF TypeOK, ConstantsAssumption
<1>9. TypeOK'
  BY <1>1, <1>2, <1>3, <1>5, <1>6, <1>7, <1>8 DEF TypeOK
<1>10. QED
  BY <1>1, <1>2, <1>7, <1>9, FreedSlot DEF IInv

LEMMA ReturnKeeps == IInv /\ Return => IInv'
<1> SUFFICES ASSUME IInv, Return PROVE IInv'
  OBVIOUS
<1>1. TypeOK /\ stack # <<>> /\ Top.req \in Requests /\ Len(stack) \in Nat \ {0}
  BY TopType DEF IInv, Return
<1>2. stack' \in Seq(Frames) /\ Len(stack') = Len(stack) - 1
  BY <1>1, UnwoundType DEF Return
<1>3. Read(Top.req, data) \in Answers \cup {NoAnswer}
  BY <1>1, ReadType
<1>4. given' \in [req : Requests \cup {None}, ans : Answers \cup {NoAnswer}, kept : BOOLEAN]
  BY <1>1, <1>3, EndedType DEF Return
<1>5. current' \in Names \cup {NoName}
  BY <1>1 DEF Return, NameAfter, TypeOK
<1>6. loop' \in 0..MaxDepth
  BY <1>1, ConstantsAssumption DEF Return, TypeOK, ConstantsAssumption
<1>7. /\ busy' = FALSE /\ current' = NameAfter(Top.req)
      /\ UNCHANGED <<data, inputs, bans, pending, unfrozen>>
  BY DEF Return
<1>8. Len(stack') <= MaxDepth
  BY <1>1, <1>2, ConstantsAssumption DEF TypeOK, ConstantsAssumption
<1>9. TypeOK'
  BY <1>1, <1>2, <1>4, <1>5, <1>6, <1>7, <1>8 DEF TypeOK
<1>10. QED
  BY <1>1, <1>2, <1>7, <1>9, FreedSlot DEF IInv

LEMMA DeliverKeeps ==
    ASSUME IInv, NEW p \in pending, Deliver(p) \/ NeverAnswered(p)
    PROVE  IInv'
<1>1. TypeOK /\ p \in Answers
  BY DEF IInv, TypeOK
<1>2. SameFrames(LoopQuit) /\ SameFrames(stack)
  BY <1>1, QuitSame, KeptType
<1>3. SameFrames(stack')
  <2>1. stack' = LoopQuit \/ stack' = stack
    BY DEF Deliver, NeverAnswered
  <2>2. QED
    BY <1>2, <2>1
<1>4. /\ data' \in Answers \cup {NoAnswer}
      /\ data' = data \/ data' = NoAnswer \/ data'.name = current
  BY <1>1 DEF Deliver, NeverAnswered, Matches, TypeOK
<1>5. UNCHANGED <<busy, current, loop, inputs, bans, unfrozen>> /\ given' = NoResult
      /\ pending' \subseteq pending
  BY DEF Deliver, NeverAnswered
<1>6. TypeOK'
  BY <1>1, <1>3, <1>4, <1>5, NoResultType DEF TypeOK, SameFrames
<1>7. QED
  BY <1>3, <1>4, <1>5, <1>6, KeptSlot DEF IInv

LEMMA TimeoutKeeps ==
    ASSUME IInv, NEW i \in DOMAIN stack, TimedOut(i) \/ TimeoutRaises(i)
    PROVE  IInv'
<1>1. TypeOK
  BY DEF IInv
<1>2. CASE TimedOut(i)
  <2>1. SameFrames(stack')
    BY <1>1, <1>2, TimedSame
  <2>2. UNCHANGED <<busy, current, data, loop, inputs, bans, pending, unfrozen>> /\ given' = NoResult
    BY <1>2 DEF TimedOut
  <2>3. TypeOK'
    BY <1>1, <2>1, <2>2, NoResultType DEF TypeOK, SameFrames
  <2>4. QED
    BY <2>1, <2>2, <2>3, KeptSlot DEF IInv
<1>3. CASE TimeoutRaises(i)
  <2>1. /\ stack' = <<>> /\ busy' = FALSE /\ current' = NoName /\ data' = NoAnswer
        /\ bans' = {} /\ pending' = {} /\ given' = NoResult /\ UNCHANGED <<loop, inputs, unfrozen>>
    BY <1>3 DEF TimeoutRaises
  <2>2. stack' \in Seq(Frames) /\ Len(stack') = 0
    BY <2>1, EmptySeq
  <2>3. MaxDepth \in Nat /\ unfrozen \in Nat
    BY <1>1, ConstantsAssumption DEF TypeOK, ConstantsAssumption
  <2>4. TypeOK'
    <3>1. Len(stack') <= MaxDepth
      BY <2>2, <2>3
    <3>2. bans' \subseteq Trs /\ pending' \subseteq Answers
      BY <2>1
    <3>3. QED
      BY <1>1, <2>1, <2>2, <3>1, <3>2, NoResultType DEF TypeOK
  <2>5. QED
    BY <2>1, <2>2, <2>3, <2>4 DEF IInv, SlotHeld, Nesting, OneInsideAnother, Calm
<1>4. QED
  BY <1>2, <1>3

LEMMA AroundKeeps ==
    ASSUME IInv, ForceUnfreeze \/ ResetBans \/ \E tr \in bans : BanEnds(tr)
    PROVE  IInv'
<1>1. TypeOK /\ SameFrames(stack) /\ SameFrames(LoopQuit)
  BY KeptType, QuitSame DEF IInv
<1>2. CASE ForceUnfreeze
  <2>1. /\ stack' = LoopQuit /\ busy' = FALSE /\ current' = NoName /\ given' = NoResult
        /\ unfrozen' = unfrozen + 1 /\ unfrozen < MaxUnfreezes
        /\ UNCHANGED <<data, loop, inputs, bans, pending>>
    BY <1>2 DEF ForceUnfreeze
  <2>2. stack' \in Seq(Frames) /\ Len(stack') = Len(stack) /\ Len(stack) \in Nat
    BY <1>1, <2>1 DEF SameFrames, TypeOK
  <2>3. unfrozen \in Nat /\ MaxUnfreezes \in Nat
    BY <1>1, ConstantsAssumption DEF TypeOK, ConstantsAssumption
  <2>4. TypeOK'
    <3>1. unfrozen' \in 0..MaxUnfreezes
      BY <2>1, <2>3
    <3>2. Len(stack') <= MaxDepth
      BY <1>1, <2>2 DEF TypeOK
    <3>3. QED
      BY <1>1, <2>1, <2>2, <3>1, <3>2, NoResultType DEF TypeOK
  <2>5. SlotHeld'
    BY <2>1 DEF SlotHeld, KwName
  <2>6. Nesting' /\ OneInsideAnother' /\ Calm'
    BY <2>1, <2>2, <2>3 DEF IInv, Nesting, OneInsideAnother, Calm
  <2>7. QED
    BY <2>4, <2>5, <2>6 DEF IInv
<1>3. CASE ResetBans \/ \E tr \in bans : BanEnds(tr)
  <2>1. /\ bans' \subseteq bans /\ given' = NoResult
        /\ UNCHANGED <<stack, busy, current, data, loop, inputs, pending, unfrozen>>
    BY <1>3 DEF ResetBans, BanEnds
  <2>2. SameFrames(stack')
    BY <1>1, <2>1 DEF SameFrames
  <2>3. TypeOK'
    BY <1>1, <2>1, NoResultType DEF TypeOK
  <2>4. QED
    BY <2>1, <2>2, <2>3, KeptSlot DEF IInv
<1>4. QED
  BY <1>2, <1>3

LEMMA StepKeeps == IInv /\ [Next]_vars => IInv'
<1> SUFFICES ASSUME IInv, [Next]_vars PROVE IInv'
  OBVIOUS
<1>1. CASE UNCHANGED vars
  <2>1. SameFrames(stack') /\ TypeOK'
    BY <1>1, KeptType DEF IInv, vars, TypeOK, SameFrames
  <2>2. QED
    BY <1>1, <2>1, KeptSlot DEF IInv, vars
<1>2. CASE Next
  BY <1>2, AskKeeps, SendKeeps, SendFailsKeeps, ReturnKeeps, DeliverKeeps, TimeoutKeeps, AroundKeeps
     DEF Next
<1>3. QED
  BY <1>1, <1>2

THEOREM Invariant == Spec => []IInv
BY StartOK, StepKeeps, PTL DEF Spec

----------------------------------------------------------------------------
(* What the runs check *)

\* Every variable keeps its type (kiwoom_api.py, _comm_rq and its callers).
THEOREM TypeCorrect == Spec => []TypeOK
<1>1. IInv => TypeOK
  BY DEF IInv
<1>2. QED
  BY <1>1, Invariant, PTL

\* The slot is never left taken (the finally blocks of _comm_rq and
\* _comm_kw_rq).
THEOREM AlwaysFreed == Spec => []SlotFreed
<1>1. IInv => SlotFreed
  BY DEF IInv, SlotHeld, SlotFreed, KwName
<1>2. QED
  BY <1>1, Invariant, PTL

\* Requests are nested no deeper than the freeze watchdog intervened
\* (force_unfreeze).
THEOREM NestedAtMost == Spec => []OneInsideAnother
<1>1. IInv => OneInsideAnother
  BY DEF IInv
<1>2. QED
  BY <1>1, Invariant, PTL

\* A banned TR is not sent (the ban check of _comm_rq).
THEOREM BansKept == Spec => BannedNotSent
<1>1. IInv => ~(unfrozen = 0 /\ \E tr \in bans \ {"kw"} : Send /\ Top.req.tr = tr)
  <2> SUFFICES ASSUME IInv, unfrozen = 0, NEW tr \in bans \ {"kw"}, Send, Top.req.tr = tr
               PROVE  FALSE
    OBVIOUS
  <2>1. stack # <<>> /\ Top.pc = "acquire" /\ TypeOK
    BY DEF IInv, Send
  <2>2. Len(stack) \in Nat \ {0} /\ Top = stack[Len(stack)]
    BY <2>1, TopType
  <2>3. Len(stack) = 1
    <3>1. Len(stack) <= 1 + unfrozen
      BY DEF IInv, OneInsideAnother
    <3>2. 1 + unfrozen = 1 /\ Len(stack) \in Nat \ {0}
      BY <2>2
    <3>3. \A n \in Nat \ {0} : n <= 1 => n = 1
      OBVIOUS
    <3>4. QED
      BY <3>1, <3>2, <3>3
  <2>4. stack[1].req.tr \notin bans \/ IsKw(stack[1].req)
    BY <2>1, <2>2, <2>3 DEF IInv, Calm
  <2>5. QED
    BY <2>2, <2>3, <2>4 DEF IsKw
<1>2. IInv => [unfrozen = 0 => \A tr \in bans \ {"kw"} : ~(Send /\ Top.req.tr = tr)]_vars
  BY <1>1
<1>3. QED
  BY <1>2, Invariant, PTL DEF BannedNotSent

----------------------------------------------------------------------------
(* The gateway implements RequestSlot *)

Owner == IF stack = <<>> THEN None ELSE stack[1].req

\* A step that keeps the frames waits, or turns a request away.
LEMMA OwnerKept ==
    ASSUME IInv, SameFrames(stack')
    PROVE  Owner' = Owner
<1>1. /\ stack \in Seq(Frames) /\ stack' \in Seq(Frames) /\ Len(stack') = Len(stack)
      /\ \A i \in 1..Len(stack) : stack'[i].req = stack[i].req
  BY DEF IInv, TypeOK, SameFrames
<1>2. /\ stack = <<>> => Len(stack) = 0
      /\ stack # <<>> => Len(stack) \in Nat \ {0}
      /\ stack' = <<>> => Len(stack') = 0
      /\ stack' # <<>> => Len(stack') \in Nat \ {0}
  BY <1>1, EmptySeq
<1>3. stack = <<>> <=> stack' = <<>>
  BY <1>1, <1>2
<1>4. stack # <<>> => 1 \in 1..Len(stack)
  BY <1>2
<1>5. QED
  BY <1>1, <1>3, <1>4 DEF Owner

\* Without an intervention the request that ends is the owner, and what it
\* reads carries its name.
LEMMA OwnerEnds ==
    ASSUME IInv, unfrozen = 0, stack # <<>>
    PROVE  /\ Owner # None /\ Owner = Top.req /\ Len(stack) = 1 /\ ~Top.cut
           /\ \A d \in {data, NoAnswer} : d \in Slot!Given(Owner)
<1>1. Len(stack) \in Nat \ {0} /\ Top = stack[Len(stack)] /\ Top.req \in Requests
  BY TopType DEF IInv
<1>2. Len(stack) <= 1 + unfrozen
  BY DEF IInv, OneInsideAnother
<1>3. \A n \in Nat \ {0} : n <= 1 + 0 => n = 1
  OBVIOUS
<1>4. Len(stack) = 1
  BY <1>1, <1>2, <1>3
<1>5. Owner = Top.req /\ Owner # None
  BY <1>1, <1>4, ConstantsAssumption DEF Owner, ConstantsAssumption
<1>6. /\ current = Name(Owner) /\ ~stack[1].cut
      /\ data = NoAnswer \/ data.name = current
  BY <1>5, <1>1, <1>4 DEF IInv, Calm
<1>7. data \in Answers \cup {NoAnswer}
  BY DEF IInv, TypeOK
<1>8. \A d \in {data, NoAnswer} : d \in Slot!Given(Owner)
  BY <1>6, <1>7 DEF Slot!Given, CarriesName
<1>9. QED
  BY <1>1, <1>4, <1>5, <1>6, <1>8

LEMMA RefineStart == Init => Slot!Init
BY DEF Init, Slot!Init, NoResult

LEMMA RefineStep ==
    ASSUME IInv, IInv', Next
    PROVE  Slot!Next
<1> USE DEF Owner
<1>1. CASE unfrozen' # 0
  BY <1>1 DEF Slot!Next, Slot!TornLoose
<1>2. CASE unfrozen' = 0
  <2>1. unfrozen = 0
    <3>1. unfrozen \in Nat
      BY ConstantsAssumption DEF IInv, TypeOK, ConstantsAssumption
    <3>a. CASE ForceUnfreeze
      BY <1>2, <3>1, <3>a DEF ForceUnfreeze
    <3>b. CASE ~ForceUnfreeze
      <4>1. unfrozen' = unfrozen
        BY <3>b DEF Next, Ask, AskShy, AskRefused, AskBanned, AskAccepted, Send, SendFails,
           Return, Deliver, NeverAnswered, TimedOut, TimeoutRaises, ResetBans, BanEnds
      <4>2. QED
        BY <1>2, <4>1
    <3>2. QED
      BY <3>a, <3>b
  <2>2. ASSUME SameFrames(stack'), given' = NoResult
        PROVE  Slot!Next
    BY <1>2, <2>1, <2>2, OwnerKept DEF Slot!Next, Slot!Wait, NoResult
  <2>3. SameFrames(stack)
    BY KeptType DEF IInv
  <2>4. ASSUME NEW r \in Requests, Ask(r)
        PROVE  Slot!Next
    <3>1. CASE AskShy(r) \/ AskRefused(r) \/ AskBanned(r)
      <4>1. stack' = stack
        BY <3>1 DEF AskShy, AskRefused, AskBanned
      <4>2. given'.ans = (IF AskRefused(r) /\ Of(r).careless THEN Read(r, data) ELSE NoAnswer)
            \/ given'.ans = NoAnswer
        BY <3>1 DEF AskShy, AskRefused, AskBanned, Ended
      <4>3. Read(r, data) \in Answers \cup {NoAnswer}
        BY ReadType DEF IInv
      <4>4. Slot!TurnAway(r)
        BY <4>1, <4>2, <4>3 DEF Slot!TurnAway
      <4>5. QED
        BY <1>2, <2>1, <4>4 DEF Slot!Next
    <3>2. CASE AskAccepted(r)
      <4>1. ~busy /\ stack' = Append(stack, Fresh(r)) /\ given' = NoResult
        BY <3>2 DEF AskAccepted, Admits, Fresh
      <4>2. stack = <<>>
        BY <2>1, <4>1 DEF IInv, Calm
      <4>3. stack' # <<>> /\ stack'[1] = Fresh(r)
        BY <4>1, <4>2, PushType, EmptySeq DEF IInv
      <4>4. Slot!Take(r)
        BY <4>1, <4>2, <4>3 DEF Slot!Take, NoResult, Fresh
      <4>5. QED
        BY <1>2, <2>1, <4>4 DEF Slot!Next
    <3>3. QED
      BY <2>4, <3>1, <3>2 DEF Ask
  <2>5. CASE SendFails \/ Return
    <3>1. stack # <<>> /\ Top.req \in Requests
      BY <2>5, TopType DEF IInv, SendFails, Return
    <3>a. stack' \in Seq(Frames) /\ Len(stack') = Len(stack) - 1
      BY <2>5, <3>1, PopType, UnwoundType DEF IInv, SendFails, Return
    <3>b. Len(stack) = 1
      BY <2>1, <3>1, OwnerEnds
    <3>2. Len(stack') = 0 /\ stack' \in Seq(Frames)
      BY <3>a, <3>b
    <3>3. stack' = <<>>
      BY <3>2, EmptySeq
    <3>4. given'.ans \in {data, NoAnswer}
      BY <2>1, <2>5, <3>1, ReadType DEF IInv, SendFails, Return, Ended
    <3>5. Slot!Finish
      BY <2>1, <3>1, <3>3, <3>4, OwnerEnds DEF Slot!Finish
    <3>6. QED
      BY <1>2, <2>1, <3>5 DEF Slot!Next
  <2>6. CASE Send
    BY <2>2, <2>6, SentSame DEF Send, IInv
  <2>7. ASSUME NEW p \in pending, Deliver(p) \/ NeverAnswered(p)
        PROVE  Slot!Next
    BY <2>2, <2>3, <2>7, QuitSame DEF Deliver, NeverAnswered, IInv
  <2>8. ASSUME NEW i \in DOMAIN stack, TimedOut(i)
        PROVE  Slot!Next
    BY <2>2, <2>8, TimedSame DEF TimedOut, IInv
  <2>9. ASSUME NEW i \in DOMAIN stack, TimeoutRaises(i)
        PROVE  Slot!Next
    <3>1. stack # <<>>
      BY <2>9
    <3>2. stack' = <<>> /\ given' = NoResult
      BY <2>9 DEF TimeoutRaises
    <3>3. Slot!Finish
      BY <2>1, <3>1, <3>2, OwnerEnds DEF Slot!Finish, NoResult
    <3>4. QED
      BY <1>2, <2>1, <3>3 DEF Slot!Next
  <2>10. CASE ResetBans \/ \E tr \in bans : BanEnds(tr)
    BY <2>2, <2>3, <2>10 DEF ResetBans, BanEnds
  <2>11. CASE ForceUnfreeze
    BY <1>2, <2>1, <2>11 DEF ForceUnfreeze
  <2>12. QED
    BY <2>4, <2>5, <2>6, <2>7, <2>8, <2>9, <2>10, <2>11 DEF Next
<1>3. QED
  BY <1>1, <1>2

\* As long as the freeze watchdog keeps out, the gateway serves one request
\* at a time and gives it its own answer or none (_comm_rq 1100-1102,
\* _on_receive_tr_data 1297-1308).
THEOREM ServesOneAtATime == Spec => KeepsSlotPromise
<1>1. IInv /\ IInv' /\ [Next]_vars =>
        [Slot!Next]_<<IF stack = <<>> THEN None ELSE stack[1].req, given.ans, unfrozen = 0>>
  BY RefineStep DEF vars
<1>2. QED
  BY <1>1, RefineStart, Invariant, PTL DEF KeepsSlotPromise, Slot!Spec, Spec
=============================================================================
