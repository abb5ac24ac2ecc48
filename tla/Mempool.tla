------------------------------- MODULE Mempool -------------------------------
(***************************************************************************)
(* The transaction memory pool (txmempool.cpp) and what validation.cpp     *)
(* does to it: acceptance with replacement, blocks connected and           *)
(* disconnected, the repair after a chain switch, expiry and size limit.   *)
(*                                                                         *)
(* All of this happens under cs_main, but in several critical sections of  *)
(* mempool.cs.  Between two of them LoadMempool, on the import thread,     *)
(* may call PrioritiseTransaction, and links, counts and fees are not yet  *)
(* what they will be: each critical section is a step.                     *)
(*                                                                         *)
(* Every transaction has size one.  Fees can be chosen so that a sum tells *)
(* its terms, which makes the fee totals stand for the size totals, too.   *)
(***************************************************************************)
EXTENDS BlockTree, SequencesExt

CONSTANTS
    Tx,
    vin,              \* the outpoints each transaction spends: <<transaction, n>>
    Funded,           \* outpoints that were there before the genesis block
    Coinbase,         \* the coinbase transactions
    NonStandard,      \* the transactions that policy refuses
    Replaceable,      \* the transactions that signal replacement
    fee,              \* nFee of each transaction
    nLockTime,        \* the height below which it is not final
    vtx,              \* the transactions of each block, in order
    None,
    COINBASE_MATURITY,
    LimitAncestors, LimitDescendants,  \* -limitancestorcount, -limitdescendantcount
    MaxPool,          \* -maxmempool, in transactions
    MaxDisconnected,  \* MAX_DISCONNECTED_TX_POOL_SIZE, in transactions
    Delta,            \* what PrioritiseTransaction adds
    MaxPrioritise     \* bound on its calls

Outpoint == UNION {vin[t] : t \in Tx}

ASSUME MempoolAssumption ==
    /\ \A t \in Tx : vin[t] = {} <=> t \in Coinbase
    /\ \A o \in Outpoint : o \in Funded \/ o[1] \in Tx
    /\ NonStandard \cup Replaceable \cup Coinbase \subseteq Tx
    /\ fee \in [Tx -> Nat]
    /\ nLockTime \in [Tx -> Nat]
    /\ vtx \in [Block -> Seq(Tx)]
    /\ \A b \in Block \ {Genesis} : vtx[b] # <<>>
    /\ None \notin Tx

VARIABLES
    pool,            \* mapTx with mapLinks, mapNextTx, mapDeltas
    tip,             \* chainActive.Tip(); pcoinsTip holds the coins of this block
    pc,              \* what the holder of cs_main does next
    target,          \* the block it is moving to
    disconnectpool,  \* queuedTx in insertion order
    vHashUpdate,     \* the transactions added back so far
    fAddToMempool,
    left, lost,      \* history: taken out of the chain; dropped or refused by a limit
    prioritised      \* number of calls of PrioritiseTransaction

vars == <<pool, tip, pc, target, disconnectpool, vHashUpdate, fAddToMempool, left, lost, prioritised>>

-----------------------------------------------------------------------------
(* The chain.                                                              *)

ToSetOf(s) == {s[i] : i \in DOMAIN s}
Confirmed(b) == UNION {ToSetOf(vtx[a]) : a \in Branch(b)}

SpentIn(o, b) == \E t \in Confirmed(b) : o \in vin[t]

\* CCoinsViewCache::HaveCoin of pcoinsTip.
HaveCoin(o, b) == (o \in Funded \/ o[1] \in Confirmed(b)) /\ ~SpentIn(o, b)

\* The height of the block that has t.
HeightOf(t, b) == nHeight(CHOOSE a \in Branch(b) : t \in ToSetOf(vtx[a]))

\* A coinbase output that the block after b may not spend yet.
Immature(o, b) ==
    /\ o \notin Funded
    /\ o[1] \in Coinbase \cap Confirmed(b)
    /\ nHeight(b) + 1 - HeightOf(o[1], b) < COINBASE_MATURITY

\* CheckFinalTx: t may be in the block after b.
CheckFinalTx(t, b) == nLockTime[t] < nHeight(b) + 1

FindFork(a, b) ==
    CHOOSE f \in Branch(a) \cap Branch(b) :
        \A g \in Branch(a) \cap Branch(b) : nHeight(g) <= nHeight(f)

-----------------------------------------------------------------------------
(* Walks over the links.  m is a value of mapTx.                           *)

\* Everything reached from S by link.
Reach(S, link(_)) ==
    LET walk[n \in 0 .. Cardinality(Tx)] ==
            IF n = 0 THEN S ELSE walk[n - 1] \cup UNION {link(t) : t \in walk[n - 1]}
    IN  walk[Cardinality(Tx)]

GetModifiedFee(m, t) == fee[t] + m[t].feeDelta
FeesOf(m, S) == MapThenSumSet(LAMBDA t : GetModifiedFee(m, t), S)

\* CalculateMemPoolAncestors from given parents; the limits are in WithinLimits.
CalculateMemPoolAncestors(m, parents) == Reach(parents, LAMBDA t : m[t].parents)

\* CalculateDescendants of every member of S, S included.
CalculateDescendants(m, S) == Reach(S, LAMBDA t : m[t].children)

\* fSearchForParents: the transactions in the pool that t spends from.
SearchParents(m, t) == {o[1] : o \in vin[t] \ Funded} \cap DOMAIN m

WithinLimits(m, t) ==
    LET ancestors == CalculateMemPoolAncestors(m, SearchParents(m, t))
    IN  /\ Cardinality(ancestors) + 1 <= LimitAncestors
        /\ \A a \in ancestors : m[a].nDescendants + 1 <= LimitDescendants

-----------------------------------------------------------------------------
(* CTxMemPool: entries come and go.                                        *)

\* addUnchecked, UpdateAncestorsOf and UpdateEntryForAncestors.
addUnchecked(p, t, ancestors) ==
    LET m == p.mapTx
        parents == SearchParents(m, t)
        delta == p.mapDeltas[t]
        entry == [parents |-> parents, children |-> {}, feeDelta |-> delta,
                  nDescendants |-> 1, feeDescendants |-> fee[t] + delta,
                  nAncestors |-> Cardinality(ancestors) + 1,
                  feeAncestors |-> FeesOf(m, ancestors) + fee[t] + delta]
        above(x) == [m[x] EXCEPT
            !.children = IF x \in parents THEN @ \cup {t} ELSE @,
            !.nDescendants = IF x \in ancestors THEN @ + 1 ELSE @,
            !.feeDescendants = IF x \in ancestors THEN @ + fee[t] + delta ELSE @]
    IN  [p EXCEPT !.mapTx = [x \in DOMAIN m \cup {t} |-> IF x = t THEN entry ELSE above(x)],
                  !.mapNextTx = [o \in Outpoint |->
                      IF o \in vin[t] /\ @[o] = None THEN t ELSE @[o]]]

\* UpdateForRemoveFromMempool, for what stays: by links, not by inputs.
UpdateForRemoveFromMempool(m, S, updateDescendants) ==
    LET gone(x) == {s \in S : x \in CalculateMemPoolAncestors(m, m[s].parents)}
        above(x) == IF updateDescendants
                    THEN {s \in S : x \in CalculateDescendants(m, {s})} ELSE {}
    IN  [x \in DOMAIN m \ S |-> [m[x] EXCEPT
            !.parents = @ \ S, !.children = @ \ S,
            !.nDescendants = @ - Cardinality(gone(x)),
            !.feeDescendants = @ - FeesOf(m, gone(x)),
            !.nAncestors = @ - Cardinality(above(x)),
            !.feeAncestors = @ - FeesOf(m, above(x))]]

\* RemoveStaged with removeUnchecked.
RemoveStaged(p, S, updateDescendants) ==
    [p EXCEPT !.mapTx = UpdateForRemoveFromMempool(@, S, updateDescendants),
              !.mapNextTx = [o \in Outpoint |->
                  IF \E s \in S : o \in vin[s] THEN None ELSE @[o]]]

\* Fault: only a transaction that is in the pool has something to remove.
removeRecursive_InPool(p, t) ==
    RemoveStaged(p, CalculateDescendants(p.mapTx, {t} \cap DOMAIN p.mapTx), FALSE)

\* t and what depends on it, or, when t is not in the pool, its spenders.
removeRecursive(p, t) ==
    LET spenders == {p.mapNextTx[o] : o \in {q \in Outpoint \ Funded : q[1] = t}} \ {None}
        txToRemove == IF t \in DOMAIN p.mapTx THEN {t} ELSE spenders
    IN  RemoveStaged(p, CalculateDescendants(p.mapTx, txToRemove), FALSE)

ClearPrioritisation(p, t) == [p EXCEPT !.mapDeltas[t] = 0]

removeConflicts(p, t) ==
    LET remove(o, q) ==
            IF q.mapNextTx[o] \in {None, t} THEN q
            ELSE removeRecursive(ClearPrioritisation(q, q.mapNextTx[o]), q.mapNextTx[o])
    IN  FoldSet(remove, p, vin[t])

removeForBlock(p, txs) ==
    LET remove(q, t) ==
            LET r == IF t \in DOMAIN q.mapTx THEN RemoveStaged(q, {t}, TRUE) ELSE q
            IN  ClearPrioritisation(removeConflicts(r, t), t)
    IN  FoldLeft(remove, p, txs)

-----------------------------------------------------------------------------
(* AcceptToMemoryPoolWorker.                                               *)

ModifiedFees(t) == fee[t] + pool.mapDeltas[t]
Conflicts(t) == {pool.mapNextTx[o] : o \in vin[t]} \ {None}
AllConflicting(t) == CalculateDescendants(pool.mapTx, Conflicts(t))

\* view.HaveCoin over CCoinsViewMemPool, and CheckTxInputs.
InputsAvailable(t) ==
    \A o \in vin[t] :
        \/ o \notin Funded /\ o[1] \in DOMAIN pool.mapTx
        \/ HaveCoin(o, tip) /\ ~Immature(o, tip)

\* The rules for a transaction that takes the place of others; the smallest fee
\* unit stands for incrementalRelayFee.
MayReplace(t) ==
    /\ Conflicts(t) \subseteq Replaceable
    /\ Conflicts(t) \cap CalculateMemPoolAncestors(pool.mapTx, SearchParents(pool.mapTx, t)) = {}
    /\ \A c \in Conflicts(t) : ModifiedFees(t) > GetModifiedFee(pool.mapTx, c)
    /\ \A o \in vin[t] :
          o \notin Funded /\ o[1] \in DOMAIN pool.mapTx =>
              \E c \in Conflicts(t) : \E q \in vin[c] : q[1] = o[1]
    /\ ModifiedFees(t) > FeesOf(pool.mapTx, AllConflicting(t))

Acceptable(t) ==
    /\ t \notin Coinbase \cup NonStandard
    /\ CheckFinalTx(t, tip)
    /\ t \notin DOMAIN pool.mapTx
    /\ InputsAvailable(t)
    /\ WithinLimits(pool.mapTx, t)
    /\ Conflicts(t) # {} => MayReplace(t)

\* The ancestors were computed before the replaced transactions are removed.
Accept(t) ==
    LET ancestors == CalculateMemPoolAncestors(pool.mapTx, SearchParents(pool.mapTx, t))
    IN  addUnchecked(RemoveStaged(pool, AllConflicting(t), FALSE), t, ancestors)

\* A refusal leaves everything as it is.  mempool.cs is kept for LimitMempoolSize.
AcceptToMemoryPool(t) ==
    /\ pc = "free"
    /\ Acceptable(t)
    /\ pool' = Accept(t)
    /\ pc' = "limit locked"
    /\ UNCHANGED <<tip, target, disconnectpool, vHashUpdate, fAddToMempool, left, lost, prioritised>>

\* LimitMempoolSize: Expire removes what is too old, then TrimToSize begins.
Expire(old) ==
    /\ pc \in {"limit", "limit locked"}
    /\ pool' = RemoveStaged(pool, CalculateDescendants(pool.mapTx, old), FALSE)
    /\ pc' = "trim"
    /\ UNCHANGED <<tip, target, disconnectpool, vHashUpdate, fAddToMempool, left, lost, prioritised>>

\* CompareTxMemPoolEntryByDescendantScore: a is evicted before b.
Score(m, t) ==
    IF m[t].feeDescendants > GetModifiedFee(m, t) * m[t].nDescendants
    THEN <<m[t].feeDescendants, m[t].nDescendants>>
    ELSE <<GetModifiedFee(m, t), 1>>

EvictedBefore(m, a, b) == Score(m, a)[1] * Score(m, b)[2] <= Score(m, b)[1] * Score(m, a)[2]

\* One turn of TrimToSize; equal scores are told apart by time, which is left open.
TrimToSize ==
    /\ pc = "trim"
    /\ Cardinality(DOMAIN pool.mapTx) > MaxPool
    /\ \E t \in DOMAIN pool.mapTx :
          /\ \A x \in DOMAIN pool.mapTx : EvictedBefore(pool.mapTx, t, x)
          /\ pool' = RemoveStaged(pool, CalculateDescendants(pool.mapTx, {t}), FALSE)
    /\ UNCHANGED <<tip, pc, target, disconnectpool, vHashUpdate, fAddToMempool, left, lost, prioritised>>

TrimEnds ==
    /\ pc = "trim"
    /\ Cardinality(DOMAIN pool.mapTx) <= MaxPool
    /\ pc' = "free"
    /\ left' = {} /\ lost' = {}
    /\ UNCHANGED <<pool, tip, target, disconnectpool, vHashUpdate, fAddToMempool, prioritised>>

-----------------------------------------------------------------------------
(* PrioritiseTransaction, which takes mempool.cs alone.                    *)

\* UpdateFeeDelta of the entry, then the totals above and below it, by links.
Prioritised(p, t) ==
    LET m == p.mapTx
        ancestors == CalculateMemPoolAncestors(m, m[t].parents)
        descendants == CalculateDescendants(m, {t})
    IN  [x \in DOMAIN m |-> [m[x] EXCEPT
            !.feeDelta = IF x = t THEN @ + Delta ELSE @,
            !.feeDescendants = IF x \in ancestors \cup {t} THEN @ + Delta ELSE @,
            !.feeAncestors = IF x \in descendants THEN @ + Delta ELSE @]]

PrioritiseTransaction(t) ==
    /\ pc \notin {"limit locked", "trim"}
    /\ prioritised < MaxPrioritise
    /\ prioritised' = prioritised + 1
    /\ pool' = [pool EXCEPT !.mapDeltas[t] = @ + Delta,
                            !.mapTx = IF t \in DOMAIN @ THEN Prioritised(pool, t) ELSE @]
    /\ UNCHANGED <<tip, pc, target, disconnectpool, vHashUpdate, fAddToMempool, left, lost>>

-----------------------------------------------------------------------------
(* The chain switch: ActivateBestChainStep and InvalidateBlock.            *)

BeginSwitch(b) ==
    /\ pc = "free"
    /\ b # tip
    /\ target' = b
    /\ pc' = "move"
    /\ UNCHANGED <<pool, tip, disconnectpool, vHashUpdate, fAddToMempool, left, lost, prioritised>>

\* The first entries of queuedTx that are over its size limit.
Overflow(q) == IF Len(q) > MaxDisconnected THEN SubSeq(q, 1, Len(q) - MaxDisconnected) ELSE <<>>

DisconnectTip ==
    /\ pc = "move"
    /\ ~OnBranch(tip, target)
    /\ LET queued == disconnectpool \o Reverse(vtx[tip])
       IN  /\ disconnectpool' = SubSeq(queued, Len(Overflow(queued)) + 1, Len(queued))
           /\ pool' = FoldLeft(removeRecursive, pool, Overflow(queued))
           /\ lost' = lost \cup ToSetOf(Overflow(queued))
    /\ left' = left \cup ToSetOf(vtx[tip])
    /\ tip' = pprev(tip)
    /\ UNCHANGED <<pc, target, vHashUpdate, fAddToMempool, prioritised>>

\* Fault: the transactions that the new chain has again stay in disconnectpool.
ConnectTip_KeepQueued ==
    /\ pc = "move"
    /\ OnBranch(tip, target) /\ tip # target
    /\ LET b == GetAncestor(target, nHeight(tip) + 1)
       IN  /\ pool' = removeForBlock(pool, vtx[b])
           /\ tip' = b
    /\ UNCHANGED <<pc, target, disconnectpool, vHashUpdate, fAddToMempool, left, lost, prioritised>>

ConnectTip ==
    /\ pc = "move"
    /\ OnBranch(tip, target) /\ tip # target
    /\ LET b == GetAncestor(target, nHeight(tip) + 1)
       IN  /\ pool' = removeForBlock(pool, vtx[b])
           /\ disconnectpool' = SelectSeq(disconnectpool, LAMBDA t : t \notin ToSetOf(vtx[b]))
           /\ tip' = b
    /\ UNCHANGED <<pc, target, vHashUpdate, fAddToMempool, left, lost, prioritised>>

\* The target is reached, or a block proves invalid, or enough work was gained.
EndSwitch ==
    /\ pc = "move"
    /\ OnBranch(tip, target)
    /\ pc' = IF left = {} THEN "free" ELSE "readd"
    /\ fAddToMempool' = TRUE
    /\ UNCHANGED <<pool, tip, target, disconnectpool, vHashUpdate, left, lost, prioritised>>

\* A block cannot be read or written: only removals from the pool.
SwitchFails ==
    /\ pc = "move"
    /\ pc' = "readd"
    /\ fAddToMempool' = FALSE
    /\ UNCHANGED <<pool, tip, target, disconnectpool, vHashUpdate, left, lost, prioritised>>

-----------------------------------------------------------------------------
(* UpdateMempoolForReorg.                                                  *)

\* Fault: the oldest entry first, children before their parents.
NextQueued_Oldest(q) == Head(q)

\* From the last entry to the first, which is the order of the chain.
NextQueued(q) == Last(q)

ReaddTx ==
    /\ pc = "readd"
    /\ disconnectpool # <<>>
    /\ LET t == NextQueued(disconnectpool)
           accepted == fAddToMempool /\ Acceptable(t)
       IN  /\ pool' = IF accepted THEN Accept(t) ELSE removeRecursive(pool, t)
           /\ vHashUpdate' = IF accepted THEN Append(vHashUpdate, t) ELSE vHashUpdate
           /\ disconnectpool' = SelectSeq(disconnectpool, LAMBDA x : x # t)
           /\ lost' = IF ~fAddToMempool \/ (InputsAvailable(t) /\ ~accepted)
                      THEN lost \cup {t} ELSE lost
    /\ UNCHANGED <<tip, pc, target, fAddToMempool, left, prioritised>>

ReaddEnds ==
    /\ pc = "readd"
    /\ disconnectpool = <<>>
    /\ pc' = "update"
    /\ UNCHANGED <<pool, tip, target, disconnectpool, vHashUpdate, fAddToMempool, left, lost, prioritised>>

\* The walk of UpdateForDescendants: children that have a cached set are not entered.
WalkUncached(m, t, cache) ==
    LET visited == Reach(m[t].children, LAMBDA x : m[x].children \ DOMAIN cache)
    IN  visited \cup UNION {cache[c] : c \in DOMAIN cache \cap UNION {m[x].children : x \in visited}}

\* Fault: descendants that were added back themselves are counted again.
NewDescendants_All(m, t, cache, setExclude) == WalkUncached(m, t, cache)

\* The descendants that addUnchecked did not know of.
NewDescendants(m, t, cache, setExclude) == WalkUncached(m, t, cache) \ setExclude

\* Fault: the new children are not linked to t.
Linked_NoChildren(m, t, children) ==
    [x \in DOMAIN m |-> [m[x] EXCEPT !.parents = IF x \in children THEN @ \cup {t} ELSE @]]

\* UpdateChild and UpdateParent.
Linked(m, t, children) ==
    [x \in DOMAIN m |-> [m[x] EXCEPT
        !.children = IF x = t THEN @ \cup children ELSE @,
        !.parents = IF x \in children THEN @ \cup {t} ELSE @]]

\* One turn of UpdateTransactionsFromBlock: links from mapNextTx, then totals.
\* s is the state of the loop: mapTx and the cached descendants.
UpdateFromBlock(s, t, next, setExclude) ==
    LET children == {next[o] : o \in {q \in Outpoint \ Funded : q[1] = t}} \ ({None} \cup setExclude)
        linked == Linked(s.mapTx, t, children)
        below == NewDescendants(linked, t, s.cache, setExclude)
    IN  [mapTx |-> [x \in DOMAIN linked |-> [linked[x] EXCEPT
            !.nDescendants = IF x = t THEN @ + Cardinality(below) ELSE @,
            !.feeDescendants = IF x = t THEN @ + FeesOf(linked, below) ELSE @,
            !.nAncestors = IF x \in below THEN @ + 1 ELSE @,
            !.feeAncestors = IF x \in below THEN @ + GetModifiedFee(linked, t) ELSE @]],
         cache |-> IF below = {} THEN s.cache
                   ELSE [x \in DOMAIN s.cache \cup {t} |-> IF x = t THEN below ELSE s.cache[x]]]

\* Last to first, so that descendants come before their ancestors.
UpdateTransactionsFromBlock ==
    /\ pc = "update"
    /\ LET present == SelectSeq(vHashUpdate, LAMBDA t : t \in DOMAIN pool.mapTx)
           turn(s, t) == UpdateFromBlock(s, t, pool.mapNextTx, ToSetOf(vHashUpdate))
           start == [mapTx |-> pool.mapTx, cache |-> [x \in {} |-> {}]]
       IN  pool' = [pool EXCEPT !.mapTx = FoldLeft(turn, start, Reverse(present)).mapTx]
    /\ pc' = "reorg"
    /\ vHashUpdate' = <<>>
    /\ UNCHANGED <<tip, target, disconnectpool, fAddToMempool, left, lost, prioritised>>

\* Not final any more, or a coinbase that it spends is immature or gone.
StaleAt(t) ==
    \/ ~CheckFinalTx(t, tip)
    \/ \E o \in vin[t] : o[1] \in Coinbase /\ (~HaveCoin(o, tip) \/ Immature(o, tip))

removeForReorg ==
    /\ pc = "reorg"
    /\ LET stale == {t \in DOMAIN pool.mapTx : StaleAt(t)}
       IN  pool' = RemoveStaged(pool, CalculateDescendants(pool.mapTx, stale), FALSE)
    /\ pc' = "limit"
    /\ UNCHANGED <<tip, target, disconnectpool, vHashUpdate, fAddToMempool, left, lost, prioritised>>

-----------------------------------------------------------------------------

Init ==
    /\ pool = [mapTx |-> [x \in {} |-> {}],
               mapNextTx |-> [o \in Outpoint |-> None],
               mapDeltas |-> [t \in Tx |-> 0]]
    /\ tip \in Block
    /\ pc = "free"
    /\ target = Genesis
    /\ disconnectpool = <<>> /\ vHashUpdate = <<>>
    /\ fAddToMempool = TRUE
    /\ left = {} /\ lost = {}
    /\ prioritised = 0

UpdateMempoolForReorg == ReaddTx \/ ReaddEnds \/ UpdateTransactionsFromBlock \/ removeForReorg

Next ==
    \/ \E t \in Tx : AcceptToMemoryPool(t) \/ PrioritiseTransaction(t)
    \/ \E old \in SUBSET DOMAIN pool.mapTx : Expire(old)
    \/ TrimToSize \/ TrimEnds
    \/ \E b \in Block : BeginSwitch(b)
    \/ DisconnectTip \/ ConnectTip \/ EndSwitch \/ SwitchFails
    \/ UpdateMempoolForReorg

Spec == Init /\ [][Next]_vars

-----------------------------------------------------------------------------
(* Properties.                                                             *)

\* At every critical section, in the middle of a chain switch too, the counts and
\* fees of a package are those of what the links reach: what the removals rely on
\* (comment in UpdateForRemoveFromMempool).
PackagesExact ==
    LET m == pool.mapTx IN
    \A t \in DOMAIN m :
        LET ancestors == CalculateMemPoolAncestors(m, m[t].parents)
            descendants == CalculateDescendants(m, {t})
        IN  /\ t \notin ancestors
            /\ m[t].nAncestors = Cardinality(ancestors) + 1
            /\ m[t].feeAncestors = FeesOf(m, ancestors \cup {t})
            /\ m[t].nDescendants = Cardinality(descendants)
            /\ m[t].feeDescendants = FeesOf(m, descendants)
            /\ m[t].feeDelta = pool.mapDeltas[t]

\* When cs_main is free the links are the dependencies between the transactions
\* of the pool, and mapNextTx has every input (CTxMemPool::check).
LinksExact ==
    pc = "free" =>
        LET m == pool.mapTx IN
        \A t \in DOMAIN m :
            /\ m[t].parents = SearchParents(m, t)
            /\ m[t].children = {c \in DOMAIN m : t \in SearchParents(m, c)}
            /\ \A o \in vin[t] : pool.mapNextTx[o] = t

\* When cs_main is free, what the pool holds can all be mined on the tip: every
\* input is an unspent, mature coin or an output of the pool, nothing is confirmed
\* already and every lock time has passed (CTxMemPool::check, removeForReorg).
PoolMinable ==
    pc = "free" =>
        \A t \in DOMAIN pool.mapTx :
            t \notin Confirmed(tip) /\ InputsAvailable(t) /\ CheckFinalTx(t, tip)

\* A transaction that the old chain had and the new one has not is in the pool
\* again, unless an input of it is gone or a limit, a lock time or the policy
\* refused it
\* (UpdateMempoolForReorg).
ReaddsAll ==
    pc = "update" =>
        \A t \in left \ Coinbase :
            \/ t \in Confirmed(tip) \cup DOMAIN pool.mapTx \cup lost
            \/ ~InputsAvailable(t)

\* UpdateMempoolForReorg meets no transaction that is confirmed or in the pool,
\* the assumption stated in its comment.
QueuedAreOut ==
    pc = "readd" => ToSetOf(disconnectpool) \cap (Confirmed(tip) \cup DOMAIN pool.mapTx) = {}
=============================================================================
