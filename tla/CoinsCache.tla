------------------------------ MODULE CoinsCache ------------------------------
(***************************************************************************)
(* The stack of coins views (coins.cpp): pcoinsTip caches the database,    *)
(* and a CCoinsViewCache on top of it takes the changes of one block until *)
(* they are flushed into pcoinsTip or dropped.  An entry is DIRTY when it  *)
(* may differ from the view below and FRESH when the view below has no     *)
(* unspent coin there.  Both flags save work, and both lose coins when     *)
(* they are wrong.                                                         *)
(*                                                                         *)
(* Everything runs under cs_main.  pcoinsTip is not written while a view   *)
(* on top of it is in use; a lookup in the view may load an entry into it. *)
(* Unspendable outputs never enter a view and are left out, and so is the  *)
(* account of the memory in use.                                           *)
(***************************************************************************)
CONSTANTS Outpoint, Coin, Spent,
    NoEntry  \* cacheCoins.end()

\* CCoinsCacheEntry
Entry == [coin : Coin \cup {Spent}, flags : SUBSET {"DIRTY", "FRESH"}]

ASSUME CoinsAssumption == Spent \notin Coin /\ NoEntry \notin Entry

VARIABLES
    db,     \* the coin of each outpoint in the database
    cache,  \* pcoinsTip's cacheCoins
    view,   \* cacheCoins of the view on top
    inUse,  \* there is a view on top
    op      \* the last call, with the coin it returned

vars == <<db, cache, view, inUse, op>>

None == [o \in Outpoint |-> NoEntry]

Init ==
    /\ db = [o \in Outpoint |-> Spent]
    /\ cache = None /\ view = None
    /\ inUse = FALSE
    /\ op = <<>>

-----------------------------------------------------------------------------
(* Lookups.                                                                *)

\* The coin a cache entry e shows, the view below having the coin c.
Shown(e, c) == IF e = NoEntry THEN c ELSE e.coin

\* What GetCoin returns from pcoinsTip and from the view on top of it.
Chain == [o \in Outpoint |-> Shown(cache[o], db[o])]
Work == [o \in Outpoint |-> Shown(view[o], Chain[o])]

\* FetchCoin: the entry after the view below was asked for its coin c.
Fetched(e, c) ==
    IF e = NoEntry /\ c # Spent THEN [coin |-> c, flags |-> {}] ELSE e

\* The coin a caller gets from the fetched entry e.
Found(e) == IF e = NoEntry THEN Spent ELSE e.coin

\* FetchCoin in the view on top asks pcoinsTip, which asks the database.
CacheAfterFetch(o) ==
    IF view[o] = NoEntry THEN [cache EXCEPT ![o] = Fetched(cache[o], db[o])] ELSE cache

\* GetCoin, HaveCoin and AccessCoin on pcoinsTip.
GetCoin(o) ==
    /\ ~inUse
    /\ cache' = [cache EXCEPT ![o] = Fetched(cache[o], db[o])]
    /\ op' = <<"get", o, Found(cache'[o])>>
    /\ UNCHANGED <<db, view, inUse>>

\* The same on the view on top.
GetCoinInView(o) ==
    /\ inUse
    /\ view' = [view EXCEPT ![o] = Fetched(view[o], Chain[o])]
    /\ cache' = CacheAfterFetch(o)
    /\ op' = <<"get", o, Found(view'[o])>>
    /\ UNCHANGED <<db, inUse>>

Uncache(o) ==
    /\ ~inUse /\ cache[o] # NoEntry /\ cache[o].flags = {}
    /\ cache' = [cache EXCEPT ![o] = NoEntry]
    /\ UNCHANGED <<db, view, inUse, op>>

-----------------------------------------------------------------------------
(* Applying a block.                                                       *)

\* ConnectTip and DisconnectTip create a view.
OpenView ==
    /\ ~inUse
    /\ view' = None /\ inUse' = TRUE
    /\ UNCHANGED <<db, cache, op>>

\* Fault: an entry whose removal the view below must learn of becomes FRESH.
Added_FreshIfSpent(e, c, possible_overwrite) ==
    [coin |-> c, flags |-> {"DIRTY"} \cup IF possible_overwrite THEN {} ELSE {"FRESH"}]

\* The entry after AddCoin.  It becomes FRESH when the caller knows that there
\* is no unspent coin and the entry does not hold a removal of its own.
Added(e, c, possible_overwrite) ==
    LET flags == IF e = NoEntry THEN {} ELSE e.flags
        fresh == ~possible_overwrite /\ "DIRTY" \notin flags
    IN  [coin |-> c, flags |-> flags \cup {"DIRTY"} \cup IF fresh THEN {"FRESH"} ELSE {}]

\* The callers, AddCoins and ApplyTxInUndo, allow an overwrite unless HaveCoin
\* or the rule against duplicate transactions (BIP30) excludes an unspent coin.
AddCoin(o, c, possible_overwrite) ==
    /\ inUse
    /\ possible_overwrite \/ Work[o] = Spent
    /\ view' = [view EXCEPT ![o] = Added(view[o], c, possible_overwrite)]
    /\ op' = <<"add", o, c>>
    /\ UNCHANGED <<db, cache, inUse>>

\* Fault: the entry is erased although the view below has the coin.
SpentEntry_Erased(e) == NoEntry

\* The entry after SpendCoin: a FRESH one is erased, another keeps the removal.
SpentEntry(e) ==
    IF e = NoEntry \/ "FRESH" \in e.flags THEN NoEntry
    ELSE [coin |-> Spent, flags |-> e.flags \cup {"DIRTY"}]

SpendCoin(o) ==
    /\ inUse
    /\ view' = [view EXCEPT ![o] = SpentEntry(Fetched(view[o], Chain[o]))]
    /\ op' = <<"spend", o, Found(Fetched(view[o], Chain[o]))>>
    /\ cache' = CacheAfterFetch(o)
    /\ UNCHANGED <<db, inUse>>

\* Fault: the FRESH flag of the child is copied over a removal.
Merged_CopyFresh(child, ours) ==
    IF child = NoEntry \/ "DIRTY" \notin child.flags THEN ours
    ELSE IF ours # NoEntry /\ "FRESH" \in ours.flags /\ child.coin = Spent THEN NoEntry
    ELSE [coin |-> child.coin, flags |-> {"DIRTY"} \cup (child.flags \cap {"FRESH"})]

\* BatchWrite of a CCoinsViewCache: our entry after the child's was merged.
Merged(child, ours) ==
    IF child = NoEntry \/ "DIRTY" \notin child.flags THEN ours
    ELSE IF ours = NoEntry
         THEN IF "FRESH" \in child.flags /\ child.coin = Spent THEN NoEntry
              ELSE [coin |-> child.coin, flags |-> {"DIRTY"} \cup (child.flags \cap {"FRESH"})]
    ELSE IF "FRESH" \in ours.flags /\ child.coin = Spent THEN NoEntry
    ELSE [coin |-> child.coin, flags |-> ours.flags \cup {"DIRTY"}]

\* Flush of the view on top, which is then destroyed.
FlushView ==
    /\ inUse
    /\ cache' = [o \in Outpoint |-> Merged(view[o], cache[o])]
    /\ view' = None /\ inUse' = FALSE
    /\ op' = <<"commit">>
    /\ UNCHANGED db

\* ConnectBlock or DisconnectBlock failed: the view is destroyed.
DropView ==
    /\ inUse
    /\ view' = None /\ inUse' = FALSE
    /\ op' = <<"drop">>
    /\ UNCHANGED <<db, cache>>

\* FlushStateToDisk: pcoinsTip->Flush(), with CCoinsViewDB::BatchWrite.
Flush ==
    /\ ~inUse
    /\ db' = [o \in Outpoint |->
                 IF cache[o] # NoEntry /\ "DIRTY" \in cache[o].flags THEN cache[o].coin ELSE db[o]]
    /\ cache' = None
    /\ op' = <<"sync">>
    /\ UNCHANGED <<view, inUse>>

Next ==
    \/ \E o \in Outpoint :
          \/ GetCoin(o) \/ GetCoinInView(o) \/ Uncache(o) \/ SpendCoin(o)
          \/ \E c \in Coin, w \in BOOLEAN : AddCoin(o, c, w)
    \/ OpenView \/ FlushView \/ DropView \/ Flush

Spec == Init /\ [][Next]_vars

-----------------------------------------------------------------------------
(* Properties.                                                             *)

\* Entries are as the map stores them, and there is none on top without a view.
TypeOK ==
    /\ db \in [Outpoint -> Coin \cup {Spent}]
    /\ cache \in [Outpoint -> Entry \cup {NoEntry}]
    /\ view \in [Outpoint -> Entry \cup {NoEntry}]
    /\ inUse \in BOOLEAN /\ (~inUse => view = None)

\* An entry e of a cache whose base has the coin c may be erased without a
\* trace if it is FRESH, and dropped if it is not DIRTY.
FlagsRight(e, c) ==
    e # NoEntry => /\ "FRESH" \in e.flags => "DIRTY" \in e.flags /\ c = Spent /\ e.coin # Spent
                   /\ "DIRTY" \notin e.flags => e.coin = c

\* The meaning coins.h gives to FRESH and DIRTY holds in both caches, after
\* any history of loads, overwrites, spends, flushes and drops.
FlagsMeanWhatTheySay ==
    \A o \in Outpoint : FlagsRight(cache[o], db[o]) /\ FlagsRight(view[o], Chain[o])

\* BatchWrite never finds the FRESH flag misapplied, for which it throws: no
\* FRESH entry of the view has an unspent coin below it in pcoinsTip.
NeverThrows ==
    \A o \in Outpoint :
        ~ /\ view[o] # NoEntry /\ {"DIRTY", "FRESH"} \subseteq view[o].flags
          /\ cache[o] # NoEntry /\ cache[o].coin # Spent

\* What pcoinsTip, the view on top and the database show, as the abstract map.
Abstract == INSTANCE UtxoSet WITH disk <- db, chain <- Chain, work <- Work

\* The stack of caches behaves as a plain map of coins with a working copy:
\* every call returns the coin and has the effect it has on the map, and
\* nothing is lost, resurrected or leaked by the flags, a drop or a flush.
Refines == Abstract!Spec
=============================================================================
