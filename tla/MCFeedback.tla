----------------------------- MODULE MCFeedback -----------------------------
(***************************************************************************)
(* An instance of Feedback: five parameters with the values of the         *)
(* repository's params/adaptive_params.json, and days that tighten each of *)
(* them, some by two strategies.                                           *)
(***************************************************************************)
EXTENDS Feedback

MCParams == {Surge, "min_chejan_strength", ChejanOf["OPENING"],
             VolumeOf["MIDDAY"], "entry_end_time"}

\* Their bounds, and what they are when the file does not hold them.
MCLow  == [p \in MCParams |-> CASE p = Surge -> 3000
                                [] p = VolumeOf["MIDDAY"] -> 1000
                                [] p = "entry_end_time" -> 600000
                                [] OTHER -> 100000]
MCHigh == [p \in MCParams |-> CASE p = Surge -> 15000
                                [] p = VolumeOf["MIDDAY"] -> 5000
                                [] p = "entry_end_time" -> 870000
                                [] p = "min_chejan_strength" -> 500000
                                [] OTHER -> 400000]
MCAssumed ==
    [p \in MCParams |-> CASE p = Surge -> 7000
                          [] p = VolumeOf["MIDDAY"] -> 1500
                          [] p = "entry_end_time" -> 870000
                          [] OTHER -> 120000]
MCRelaxDefault ==
    [MCAssumed EXCEPT ![VolumeOf["MIDDAY"]] = 1200, ![ChejanOf["OPENING"]] = 110000]

\* entry_open_surge_max_opening 6.3, min_chejan_strength 110.0 and
\* volume_surge_mult_midday 0.8 are in the file, the last below its bound.
MCShipped ==
    [p \in MCParams |-> CASE p = Surge -> 6300
                          [] p = "min_chejan_strength" -> 110000
                          [] p = VolumeOf["MIDDAY"] -> 800
                          [] OTHER -> 0]

MCShippedLast ==
    [p \in MCParams |-> CASE p = Surge -> "down"
                          [] p = "min_chejan_strength" -> "up"
                          [] p = VolumeOf["MIDDAY"] -> "down"
                          [] OTHER -> "none"]

LossesOf(signal) == [signal |-> signal, noise |-> 0, change |-> 0,
                     trail |-> FALSE, early |-> FALSE, stops |-> 0]

Chased  == [LossesOf("BREAKOUT") EXCEPT !.noise = 4, !.change = 9000]
Stopped == [LossesOf("JDM_ENTRY") EXCEPT !.noise = 1, !.stops = 7]

Ordinary == [profit |-> TRUE, danger |-> {}, losses |-> <<>>, peak |-> 60000]
Losing   == [Ordinary EXCEPT !.profit = FALSE, !.peak = 0]

MCDays ==
    {Ordinary, Losing,
     [Ordinary EXCEPT !.danger = {"OPENING"}],
     [Losing EXCEPT !.danger = {"MIDDAY"}],
     [Losing EXCEPT !.danger = {"MIDDAY", "AFTERNOON"}],
     [Losing EXCEPT !.losses = <<Chased>>],
     [Losing EXCEPT !.losses = <<Stopped, Chased>>, !.danger = {"OPENING"}]}
=============================================================================
