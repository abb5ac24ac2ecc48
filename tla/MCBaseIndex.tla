----------------------------- MODULE MCBaseIndex -----------------------------
(***************************************************************************)
(* Two branches above the genesis block.  Each block has a transaction of  *)
(* its own; one transaction is in both branches.                           *)
(***************************************************************************)
EXTENDS BaseIndex

Tree == {<<>>, <<1>>, <<1, 1>>, <<2>>, <<2, 1>>}
Work == [b \in Tree |-> Len(b)]

Contents == [b \in Tree |->
    {b} \cup (IF b \in {<<1, 1>>, <<2>>} THEN {<<0>>} ELSE {})]

Txs == UNION {Contents[b] : b \in Tree}
=============================================================================
