------------------------------ MODULE CoinsFlush ------------------------------
(***************************************************************************)
(* How the coins reach the disk and survive a crash of the process:        *)
(* FlushStateToDisk, CCoinsViewDB::BatchWrite and ReplayBlocks.            *)
(*                                                                         *)
(* The coins database is written in several batches.  While some of them   *)
(* are missing it names the blocks it was on its way between, and at the   *)
(* next start ReplayBlocks undoes the old branch and applies the new one   *)
(* on top of whatever mixture it finds.  This takes block and undo data,   *)
(* whose positions are in the block index, a database of its own.          *)
(*                                                                         *)
(* pcoinsTip is the map it shows (module UtxoSet, which module CoinsCache  *)
(* implements).  A coin is the height at which it was created: what else   *)
(* it holds is fixed by the outpoint.  A crash keeps what the process has  *)
(* written to files and databases.  Pruning is left out.                   *)
(***************************************************************************)
EXTENDS BlockTree

CONSTANTS
    Outpoint,
    vtx,      \* the transactions of each block: what each one spends and creates
    NoBlock   \* the null hash

Spent == 0
Nothing == [o \in Outpoint |-> Spent]

-----------------------------------------------------------------------------
(* Blocks and the coins they change.                                       *)

\* UpdateCoins, and the body of RollforwardBlock: inputs first, then outputs.
UpdateCoins(coins, tx, h) ==
    [o \in Outpoint |-> IF o \in tx.creates THEN h ELSE IF o \in tx.spends THEN Spent ELSE coins[o]]

\* The loop of RollforwardBlock: the coins after each transaction of b.
ConnectTxs(coins, b) ==
    LET u[i \in 0 .. Len(vtx[b])] ==
            IF i = 0 THEN coins ELSE UpdateCoins(u[i - 1], vtx[b][i], nHeight(b))
    IN  u

ConnectBlock(coins, b) == ConnectTxs(coins, b)[Len(vtx[b])]

\* The blocks of b's branch above height h, applied one after the other.
RollForward(coins, b, h) ==
    LET u[i \in h .. nHeight(b)] ==
            IF i = h THEN coins ELSE ConnectBlock(u[i - 1], GetAncestor(b, i))
    IN  u[nHeight(b)]

\* The coins as of block b; none at the genesis block, which is not applied.
CoinsAt(b) == IF b = NoBlock THEN Nothing ELSE RollForward(Nothing, b, 0)

\* CBlockUndo: the coins that the i-th transaction of b found.
UndoData(b, i) == ConnectTxs(CoinsAt(pprev(b)), b)[i - 1]

\* One turn of the loop of DisconnectBlock.
DisconnectTx(coins, b, i) ==
    LET tx == vtx[b][i]
    IN  [o \in Outpoint |-> IF o \in tx.spends THEN UndoData(b, i)[o]
                            ELSE IF o \in tx.creates THEN Spent ELSE coins[o]]

\* Fault: the transactions are undone in the order of the block.
DisconnectBlock_Forward(coins, b) ==
    LET u[i \in 0 .. Len(vtx[b])] == IF i = 0 THEN coins ELSE DisconnectTx(u[i - 1], b, i)
    IN  u[Len(vtx[b])]

\* The transactions are undone from the last to the first.
DisconnectBlock(coins, b) ==
    LET u[i \in 0 .. Len(vtx[b])] ==
            IF i = Len(vtx[b]) THEN coins ELSE DisconnectTx(u[i + 1], b, i + 1)
    IN  u[0]

\* The blocks of b's branch above height h, undone from b downwards.
RollBack(coins, b, h) ==
    LET u[i \in h .. nHeight(b)] ==
            IF i = nHeight(b) THEN coins ELSE DisconnectBlock(u[i + 1], GetAncestor(b, i + 1))
    IN  u[h]

\* Every transaction spends coins that are there and creates coins that are not.
ASSUME CoinsFlushAssumption ==
    /\ vtx \in [Block -> Seq([spends : SUBSET Outpoint, creates : SUBSET Outpoint])]
    /\ vtx[Genesis] = <<>> /\ NoBlock \notin Block
    /\ \A b \in Block \ {Genesis} : \A i \in 1 .. Len(vtx[b]) : \A o \in Outpoint :
          /\ o \in vtx[b][i].spends => UndoData(b, i)[o] # Spent /\ o \notin vtx[b][i].creates
          /\ o \in vtx[b][i].creates => UndoData(b, i)[o] = Spent

-----------------------------------------------------------------------------
VARIABLES
    coins,      \* the database: the coins,
    best,       \* DB_BEST_BLOCK
    heads,      \* and DB_HEAD_BLOCKS, <<new, old>> or <<>>
    saved,      \* the block index database: blocks whose data can be found,
    savedUndo,  \* and blocks whose undo data can be found
    chain,      \* the coins pcoinsTip (or ReplayBlocks' cache) shows
    hashBlock,  \* and its best block
    known,      \* blocks with data in mapBlockIndex
    knownUndo,  \* blocks with BLOCK_HAVE_UNDO there
    mode        \* "run", "flush", "start", "replay" or "failed"

db == <<coins, best, heads>>
blocktree == <<saved, savedUndo>>
memory == <<chain, hashBlock, known, knownUndo>>
vars == <<db, blocktree, memory, mode>>

Init ==
    /\ coins = Nothing /\ best = NoBlock /\ heads = <<>>
    /\ saved = {} /\ savedUndo = {}
    /\ chain = Nothing /\ hashBlock = NoBlock /\ known = {} /\ knownUndo = {}
    /\ mode = "start"

-----------------------------------------------------------------------------
(* The node runs.                                                          *)

\* FlushStateToDisk when the coins have to be written: the block index first.
DoFullFlush ==
    /\ saved' = known' /\ savedUndo' = knownUndo'
    /\ mode' = "flush"

\* FlushStateToDisk, IF_NEEDED, when the cache is within its limit.
NotNeeded == UNCHANGED <<blocktree, mode>>

\* Blocks arrive in any order once their headers are known.
AcceptBlock(b) ==
    /\ mode = "run" /\ b \notin known
    /\ known' = known \cup {b}
    /\ UNCHANGED <<db, blocktree, chain, hashBlock, knownUndo, mode>>

\* ConnectBlock with WriteUndoDataForBlock; the genesis block has no effect
\* on the coins and no undo data.
ConnectTip(b) ==
    /\ mode = "run" /\ b \in known
    /\ IF b = Genesis
       THEN hashBlock = NoBlock /\ UNCHANGED <<chain, knownUndo>>
       ELSE /\ hashBlock = pprev(b)
            /\ chain' = ConnectBlock(chain, b)
            /\ knownUndo' = knownUndo \cup {b}
    /\ hashBlock' = b
    /\ UNCHANGED <<db, known>>
    /\ NotNeeded \/ DoFullFlush

DisconnectTip ==
    /\ mode = "run" /\ hashBlock \in knownUndo
    /\ chain' = DisconnectBlock(chain, hashBlock)
    /\ hashBlock' = pprev(hashBlock)
    /\ UNCHANGED <<db, known, knownUndo>>
    /\ NotNeeded \/ DoFullFlush

\* FlushStateToDisk writes the block index, and nothing else when only
\* fPeriodicWrite holds or there is no best block.
WriteBlockIndex ==
    /\ mode = "run"
    /\ saved' = known /\ savedUndo' = knownUndo
    /\ UNCHANGED <<db, memory, mode>>

\* FlushStateToDisk, PERIODIC or ALWAYS, with a flush of the coins.
FlushStateToDisk ==
    /\ mode = "run" /\ hashBlock # NoBlock
    /\ UNCHANGED <<db, memory>>
    /\ DoFullFlush

-----------------------------------------------------------------------------
(* CCoinsViewDB::BatchWrite, for pcoinsTip and for ReplayBlocks.           *)

writing == mode \in {"flush", "replay"}

\* The block the database was consistent with before the first batch.
OldTip == IF best = NoBlock /\ heads # <<>> THEN heads[2] ELSE best

Todo == {o \in Outpoint : chain[o] # coins[o]}

\* Fault: the database is not marked before the last batch.
PartialBatch_Unmarked(S) ==
    /\ writing
    /\ coins' = [o \in Outpoint |-> IF o \in S THEN chain[o] ELSE coins[o]]
    /\ UNCHANGED <<best, heads, blocktree, memory, mode>>

\* A batch that is written because it is full.  Its size is tested after each
\* entry, modified or not, so it changes one coin, or none, at the least.
PartialBatch(S) ==
    /\ writing
    /\ coins' = [o \in Outpoint |-> IF o \in S THEN chain[o] ELSE coins[o]]
    /\ best' = NoBlock /\ heads' = <<hashBlock, OldTip>>
    /\ UNCHANGED <<blocktree, memory, mode>>

\* The last batch.  After ReplayBlocks, pcoinsTip is created and LoadChainTip
\* finds the best block.
FinalBatch ==
    /\ writing
    /\ coins' = chain /\ best' = hashBlock /\ heads' = <<>>
    /\ mode' = "run"
    /\ UNCHANGED <<blocktree, memory>>

-----------------------------------------------------------------------------
(* Crash and start.                                                        *)

\* The process ends at any point, or gives up, and is started again; its memory
\* is lost.
Crash ==
    /\ chain' = Nothing /\ hashBlock' = NoBlock /\ known' = {} /\ knownUndo' = {}
    /\ mode' = "start"
    /\ UNCHANGED <<db, blocktree>>

\* The highest block that is on both branches.
LastCommonAncestor(a, b) ==
    CHOOSE c \in Branch(a) \cap Branch(b) : \A d \in Branch(a) \cap Branch(b) : nHeight(d) <= nHeight(c)

\* Height of the fork; a null old tip stands for an empty database.
ForkHeight(new, old) == IF old = NoBlock THEN 0 ELSE nHeight(LastCommonAncestor(old, new))

\* The coins after ReplayBlocks' rollback and roll forward.
Replayed(new, old) ==
    LET fork == ForkHeight(new, old)
        undone == IF old = NoBlock THEN coins ELSE RollBack(coins, old, fork)
    IN  RollForward(undone, new, fork)

\* The blocks of b's branch above height h.
BlocksAbove(b, h) == {a \in Branch(b) : nHeight(a) > h}

\* The blocks that ReplayBlocks undoes, and those it applies.
ToUndo(new, old) == IF old = NoBlock THEN {} ELSE BlocksAbove(old, ForkHeight(new, old))
ToApply(new, old) == BlocksAbove(new, ForkHeight(new, old))

\* Fault: an interrupted first flush is refused.
CanReplay_NeedsOld(new, old) == {new, old} \subseteq saved

\* Every block that ReplayBlocks looks up, undoes or applies can be read.
CanReplay(new, old) ==
    LET read == ToApply(new, old) \cup ToUndo(new, old) \cup {new} \cup ({old} \ {NoBlock})
    IN  /\ read \subseteq saved \cup {Genesis}
        /\ ToUndo(new, old) \subseteq savedUndo

\* Fault: the best block of the cache is the old tip.
ReplayTarget_Old == heads[2]

\* SetBestBlock in ReplayBlocks.
ReplayTarget == heads[1]

\* LoadBlockIndex, LoadGenesisBlock, ReplayBlocks up to its flush, LoadChainTip.
Start ==
    /\ mode = "start"
    /\ known' = saved \cup {Genesis} /\ knownUndo' = savedUndo
    /\ \/ /\ heads = <<>>
          /\ chain' = coins /\ hashBlock' = best
          /\ mode' = IF best \in {NoBlock} \cup known' THEN "run" ELSE "failed"
       \/ /\ heads # <<>>
          /\ IF CanReplay(heads[1], heads[2])
             THEN chain' = Replayed(heads[1], heads[2]) /\ hashBlock' = ReplayTarget /\ mode' = "replay"
             ELSE mode' = "failed" /\ UNCHANGED <<chain, hashBlock>>
    /\ UNCHANGED <<db, blocktree>>

-----------------------------------------------------------------------------
Write == FinalBatch \/ \E S \in SUBSET Todo : Cardinality(S) <= 1 /\ PartialBatch(S)

Next ==
    \/ \E b \in Block : AcceptBlock(b) \/ ConnectTip(b)
    \/ DisconnectTip \/ WriteBlockIndex \/ FlushStateToDisk
    \/ Write \/ Crash \/ Start

Spec == Init /\ [][Next]_vars

\* The process that starts, or is inside BatchWrite, keeps running until it
\* crashes.
LiveSpec == Spec /\ WF_vars(Start) /\ WF_vars(Write)

-----------------------------------------------------------------------------
(* Properties.                                                             *)

\* Every variable has its type.
TypeOK ==
    /\ coins \in [Outpoint -> Nat] /\ chain \in [Outpoint -> Nat]
    /\ best \in Block \cup {NoBlock} /\ hashBlock \in Block \cup {NoBlock}
    /\ heads = <<>> \/ heads \in Block \X (Block \cup {NoBlock})
    /\ saved \subseteq Block /\ known \subseteq Block
    /\ savedUndo \subseteq saved /\ knownUndo \subseteq known
    /\ mode \in {"run", "flush", "start", "replay", "failed"}

\* Whatever batches of a flush, or of an earlier replay, reached the coins
\* database, ReplayBlocks makes of it exactly the coins of the new tip; and a
\* database that is not marked as in transition is that of its best block.
Recoverable ==
    IF heads = <<>> THEN coins = CoinsAt(best)
    ELSE Replayed(heads[1], heads[2]) = CoinsAt(heads[1])

\* The node computes with the coins of its tip, after any number of crashes,
\* and the tip never lacks a block it was built from.
CoinsOfTip ==
    mode \in {"run", "flush", "replay"} =>
        /\ chain = CoinsAt(hashBlock)
        /\ hashBlock # NoBlock => Branch(hashBlock) \subseteq known

\* The assert of BatchWrite: a flush into a database in transition has the
\* same target as the flush that was interrupted.
SameTarget == writing /\ best = NoBlock /\ heads # <<>> => heads[1] = hashBlock

\* Unless it crashes over and over, a node that starts on the remains of an
\* interrupted flush gets to run.
Recovers == ([]<><<Crash>>_vars) \/ (mode = "start" ~> mode = "run")
=============================================================================
