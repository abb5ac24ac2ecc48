----------------------------- MODULE MCCoinsFlush -----------------------------
(***************************************************************************)
(* Two branches above a common block.  The transaction that spends o1 is   *)
(* in both, at different heights, and in one of them a transaction spends  *)
(* an output of the same block.                                            *)
(***************************************************************************)
EXTENDS CoinsFlush

CONSTANTS o1, o2, o3, o4

Tree == {<<>>, <<1>>, <<1, 1>>, <<1, 1, 1>>, <<1, 2>>, <<1, 2, 1>>}
Work == [b \in Tree |-> Len(b)]
Outpoints == {o1, o2, o3, o4}

Tx(s, c) == [spends |-> s, creates |-> c]

Contents == [b \in Tree |->
    CASE b = <<>> -> <<>>
      [] b = <<1>> -> <<Tx({}, {o1, o2})>>
      [] b = <<1, 1>> -> <<Tx({o1}, {o3}), Tx({o3}, {o4})>>
      [] b = <<1, 1, 1>> -> <<Tx({o2, o4}, {})>>
      [] b = <<1, 2>> -> <<Tx({o2}, {})>>
      [] b = <<1, 2, 1>> -> <<Tx({o1}, {o3})>>]
=============================================================================
