----------------------------- MODULE MCTimerMap ------------------------------
(* TimerMap on small sets. *)
EXTENDS TimerMap

=============================================================================
