--------------------------- MODULE MCCallbackQueue ---------------------------
(* CallbackQueue with two scheduler threads and three callbacks.           *)
EXTENDS CallbackQueue
=============================================================================
