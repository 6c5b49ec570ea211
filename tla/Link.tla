-------------------------------- MODULE Link --------------------------------
(***************************************************************************)
(* What the rest of the program sees of the broker connection: whether     *)
(* KiwoomManager takes it to stand, and whether the watchdog knows it was  *)
(* lost.  Connection says how the two come about, and implements this.     *)
(***************************************************************************)
VARIABLES connected, lost

linkVars == <<connected, lost>>

LinkInit == connected = FALSE /\ lost = FALSE

\* It breaks.  It comes up, perhaps unnoticed by the watchdog.
Breaks == connected /\ connected' = FALSE /\ UNCHANGED lost
ComesUp == ~connected /\ connected' = TRUE /\ UNCHANGED lost

\* The watchdog sees the loss when it happens to look.
Noticed == ~connected /\ ~lost /\ lost' = TRUE /\ UNCHANGED connected

\* The watchdog announces a recovery.  The connection may have broken again
\* meanwhile, while the login waited in a dialog.
Recovers == lost /\ lost' = FALSE /\ UNCHANGED connected

LinkNext == Breaks \/ ComesUp \/ Noticed \/ Recovers

LinkSpec == LinkInit /\ [][LinkNext]_linkVars
=============================================================================
