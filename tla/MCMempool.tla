------------------------------ MODULE MCMempool ------------------------------
(***************************************************************************)
(* Two branches.  The first has a and b, on which c depends in two ways    *)
(* and g in one, and a coinbase that e spends; the second has d, which     *)
(* conflicts with a.  Both have n, non-standard, on which f depends.       *)
(* Only g has a lock time.  Coinbases that nothing spends are left out.    *)
(***************************************************************************)
EXTENDS Mempool

Tree == {<<>>, <<1>>, <<1, 1>>, <<2>>, <<2, 1>>}
Work == [b \in Tree |-> Len(b)]

Txs == {"cb", "a", "b", "c", "d", "e", "n", "f", "g"}
Inputs == [t \in Txs |->
    CASE t = "cb" -> {}
      [] t = "a" -> {<<"base", 0>>}
      [] t = "b" -> {<<"a", 0>>}
      [] t = "c" -> {<<"b", 0>>, <<"a", 1>>}
      [] t = "d" -> {<<"base", 0>>}
      [] t = "e" -> {<<"cb", 0>>}
      [] t = "n" -> {<<"base", 1>>}
      [] t = "f" -> {<<"n", 0>>}
      [] t = "g" -> {<<"b", 1>>}]
Base == {<<"base", 0>>, <<"base", 1>>}
Fees == [t \in Txs |->
    CASE t = "cb" -> 0 [] t = "a" -> 1 [] t = "b" -> 2 [] t = "c" -> 4
      [] t = "d" -> 8 [] t = "e" -> 16 [] t = "n" -> 32 [] t = "f" -> 64
      [] t = "g" -> 128]
LockTimes == [t \in Txs |-> IF t = "g" THEN 2 ELSE 0]
Contents == [b \in Tree |->
    CASE b = <<1>> -> <<"cb", "a">>
      [] b = <<1, 1>> -> <<"b", "n">>
      [] b = <<2>> -> <<"d">>
      [] b = <<2, 1>> -> <<"n">>
      [] OTHER -> <<>>]
=============================================================================
