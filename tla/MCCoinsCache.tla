----------------------------- MODULE MCCoinsCache -----------------------------
(***************************************************************************)
(* Two outpoints and two coins: a coin can be replaced by another one.     *)
(***************************************************************************)
EXTENDS CoinsCache
=============================================================================
