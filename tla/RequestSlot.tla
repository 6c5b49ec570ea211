---------------------------- MODULE RequestSlot ----------------------------
(***************************************************************************)
(* What the broker gateway promises its callers: one request at a time has *)
(* the slot; the one that has it ends with nothing or with an answer of    *)
(* its own request name; one that is turned away gets nothing, unless its  *)
(* wrapper reads the shared buffer without looking at the return value.    *)
(* After the freeze watchdog has torn a request loose nothing is promised. *)
(***************************************************************************)
CONSTANTS Requests, Answers, NoRequest, NoAnswer,
          SameName(_, _),   \* does an answer carry the name of a request?
          Careless          \* requests whose wrapper ignores a refusal

VARIABLES
    owner,   \* the request that has the slot, or NoRequest
    given,   \* what the step gave to a caller
    sound    \* no request has been torn loose

Given(r) == {NoAnswer} \cup {a \in Answers : SameName(a, r)}

Init == owner = NoRequest /\ given = NoAnswer /\ sound = TRUE

Take(r) == owner = NoRequest /\ owner' = r /\ given' = NoAnswer

Wait == UNCHANGED owner /\ given' = NoAnswer

Finish == /\ owner # NoRequest
          /\ owner' = NoRequest
          /\ given' \in Given(owner)

TurnAway(r) == /\ UNCHANGED owner
               /\ given' \in (IF r \in Careless THEN {NoAnswer} \cup Answers ELSE {NoAnswer})

TornLoose == sound' = FALSE

Next == \/ /\ sound /\ sound' = sound
           /\ Wait \/ Finish \/ \E r \in Requests : Take(r) \/ TurnAway(r)
        \/ TornLoose

Spec == Init /\ [][Next]_<<owner, given, sound>>
=============================================================================
