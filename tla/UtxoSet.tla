-------------------------------- MODULE UtxoSet --------------------------------
(***************************************************************************)
(* What a CCoinsView promises (coins.h): the set of unspent outputs as a   *)
(* map from outpoints to coins.  A block is applied to a working copy,     *)
(* which is committed to the chain's set as a whole or dropped, and the    *)
(* chain's set reaches the disk as a whole.                                *)
(***************************************************************************)
CONSTANTS
    Outpoint,  \* COutPoint
    Coin,      \* unspent outputs
    Spent      \* the cleared Coin, for which IsSpent() holds

VARIABLES
    disk,   \* the coins in the database
    chain,  \* the coins as of the active tip
    work,   \* the coins as the block being applied sees them
    op      \* the last call, with the coin it returned

vars == <<disk, chain, work, op>>

Init ==
    /\ disk = [o \in Outpoint |-> Spent]
    /\ chain = disk /\ work = disk
    /\ op = <<>>

GetCoin(o) == op' = <<"get", o, work[o]>> /\ UNCHANGED <<disk, chain, work>>

\* A coin that may exist is replaced only by a caller that says so.
AddCoin(o, c, possible_overwrite) ==
    /\ possible_overwrite \/ work[o] = Spent
    /\ work' = [work EXCEPT ![o] = c]
    /\ op' = <<"add", o, c>>
    /\ UNCHANGED <<disk, chain>>

SpendCoin(o) ==
    /\ work' = [work EXCEPT ![o] = Spent]
    /\ op' = <<"spend", o, work[o]>>
    /\ UNCHANGED <<disk, chain>>

Commit == chain' = work /\ op' = <<"commit">> /\ UNCHANGED <<disk, work>>

Drop == work' = chain /\ op' = <<"drop">> /\ UNCHANGED <<disk, chain>>

Sync == disk' = chain /\ op' = <<"sync">> /\ UNCHANGED <<chain, work>>

Next ==
    \/ \E o \in Outpoint : GetCoin(o) \/ SpendCoin(o) \/ \E c \in Coin, w \in BOOLEAN : AddCoin(o, c, w)
    \/ Commit \/ Drop \/ Sync

Spec == Init /\ [][Next]_vars
=============================================================================
