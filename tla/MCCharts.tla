------------------------------ MODULE MCCharts ------------------------------
EXTENDS Charts

row(c, e, chg, amt, vol) ==
    [code |-> c, equity |-> e, change |-> chg, amount |-> amt, volume |-> vol]

MCPrevVolume == [c \in AllCodes |-> CASE c = "a" -> 40 [] c = "b" -> 30 [] OTHER -> 10]

\* A fund on top and a share that is beaten; a falling share.
MCListings ==
    { << row("x", FALSE, 10, 9, 9), row("a", TRUE, 50, 8, 80),
         row("b", TRUE, 30, 6, 60), row("d", TRUE, 20, 5, 20) >>,
      << row("a", TRUE, 40, 7, 30), row("b", TRUE, -10, 6, 30) >> }
=============================================================================
