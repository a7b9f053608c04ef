--------------------------- MODULE RestartControl ---------------------------
(***************************************************************************)
(* What the pair of nodes is for when boards may restart: as PedalControl, *)
(* except that the motor stops whenever its board restarts.  It still      *)
(* never goes back to a sample older than one it has followed.             *)
(***************************************************************************)
EXTENDS PedalControl

Restart ==
    /\ duty' = 0
    /\ UNCHANGED <<samples, current>>

RestartSpec == Init /\ [][Next \/ Restart]_vars

=============================================================================
