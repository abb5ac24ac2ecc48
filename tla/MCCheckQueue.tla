---------------------------- MODULE MCCheckQueue ----------------------------
(* CheckQueue on a small instance: two workers, two masters that compete    *)
(* for the queue, and two checks of which one fails (MCCheckQueue.cfg).     *)
EXTENDS CheckQueue
=============================================================================
