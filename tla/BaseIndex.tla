------------------------------ MODULE BaseIndex ------------------------------
(***************************************************************************)
(* The transaction index (index/base.cpp, index/txindex.cpp): a thread     *)
(* that catches up with the active chain, and the validation callbacks     *)
(* that take over from it.                                                 *)
(*                                                                         *)
(* The callbacks come through the serial queue of module CallbackQueue,    *)
(* of which only the promise is used here (module SerialQueue): one at a   *)
(* time and in order.  The active chain moves under cs_main, and each move *)
(* queues one BlockConnected per connected block.  The index database and  *)
(* the coins database survive a restart; the queue does not.               *)
(***************************************************************************)
EXTENDS BlockTree

CONSTANTS
    Tx,
    vtx,          \* the transactions of each block
    NoBlock,      \* no position, no locator
    MaxMoves,     \* bound on the moves of the active chain
    MaxFlushes,   \* bound on the flushes of the chain state
    MaxRestarts,  \* bound on the restarts
    GapFaults     \* can a fault come between a locator and its block (ThreadSync)?

ASSUME BaseIndexAssumption ==
    /\ vtx \in [Block -> SUBSET Tx]
    /\ NoBlock \notin Block
    /\ MaxMoves \in Nat /\ MaxFlushes \in Nat /\ MaxRestarts \in Nat
    /\ GapFaults \in BOOLEAN

VARIABLES
    tip,          \* chainActive.Tip()
    coinsTip,     \* the best block of the coins database
    queue,        \* the callbacks that wait in m_schedulerClient
    callback,     \* what the scheduler thread is doing
    txpos,        \* index database: the block each transaction was found in
    locator,      \* index database: the first block of the locator
    m_synced, m_best_block_index, m_interrupt,
    sync,         \* where ThreadSync is
    pindex,       \* its local variable
    caller,       \* a caller of BlockUntilSyncedToCurrentChain
    chain_tip,    \* the tip it has seen
    moves, flushes, restarts

disk == <<coinsTip, txpos, locator>>
index == <<m_synced, m_best_block_index>>
thread == <<sync, pindex>>
call == <<caller, chain_tip>>
count == <<moves, flushes, restarts>>
vars == <<tip, disk, queue, callback, index, m_interrupt, thread, call, count>>

Idle == [kind |-> "idle", block |-> NoBlock]
Connected(b) == [kind |-> "connected", block |-> b]
Flushed(b) == [kind |-> "flushed", block |-> b]
Marker == [kind |-> "marker", block |-> NoBlock]

Callback ==
    [kind : {"connected", "flushed"}, block : Block] \cup {Marker}

-----------------------------------------------------------------------------
(* The active chain.                                                       *)

\* CChain::FindFork: the last block that the branches of a and b share.
FindFork(a, b) ==
    CHOOSE f \in Branch(a) \cap Branch(b) :
        \A g \in Branch(a) \cap Branch(b) : nHeight(g) <= nHeight(f)

\* The blocks of b's branch above f, in order.
BlocksAbove(f, b) == [i \in 1 .. (nHeight(b) - nHeight(f)) |-> GetAncestor(b, nHeight(f) + i)]

\* FlushStateToDisk inside DisconnectTip and ConnectTip: the coins have moved on
\* already, chainActive, whose locator is sent, has not.
FlushesOnTheWay(b) ==
    LET f == FindFork(tip, b)
    IN  {[coins |-> pprev(d), block |-> d] : d \in Branch(tip) \ Branch(f)}
            \cup {[coins |-> c, block |-> pprev(c)] : c \in Branch(b) \ Branch(f)}

\* ActivateBestChain and InvalidateBlock: the chain moves to b under cs_main.
MoveTip(b) ==
    /\ b # tip
    /\ moves < MaxMoves
    /\ moves' = moves + 1
    /\ tip' = b
    /\ LET connected == [i \in 1 .. (nHeight(b) - nHeight(FindFork(tip, b))) |->
                            Connected(BlocksAbove(FindFork(tip, b), b)[i])]
       IN  \/ /\ queue' = queue \o connected
              /\ UNCHANGED <<coinsTip, flushes>>
           \/ /\ flushes < MaxFlushes
              /\ flushes' = flushes + 1
              /\ \E x \in FlushesOnTheWay(b) :
                    /\ queue' = Append(queue, Flushed(x.block)) \o connected
                    /\ coinsTip' = x.coins
    /\ UNCHANGED <<callback, txpos, locator, index, m_interrupt, thread, call, restarts>>

\* FlushStateToDisk between two moves.
FlushStateToDisk ==
    /\ flushes < MaxFlushes
    /\ flushes' = flushes + 1
    /\ coinsTip' = tip
    /\ queue' = Append(queue, Flushed(tip))
    /\ UNCHANGED <<tip, callback, txpos, locator, index, m_interrupt, thread, call, moves, restarts>>

-----------------------------------------------------------------------------
(* The index.                                                              *)

\* Fault: a transaction that has a position keeps it.
WriteBlock_KeepFirst(b) ==
    txpos' = [t \in Tx |-> IF t \in vtx[b] /\ txpos[t] = NoBlock THEN b ELSE txpos[t]]

\* TxIndex::WriteBlock: later blocks overwrite the positions of earlier ones.
WriteBlock(b) == txpos' = [t \in Tx |-> IF t \in vtx[b] THEN b ELSE txpos[t]]

\* BaseIndex::Start and Init: FindForkInGlobalIndex of the stored locator, which
\* for a branch without gaps is the fork with the new chain.
Start(newTip) ==
    /\ m_best_block_index' = IF locator = NoBlock THEN Genesis ELSE FindFork(locator, newTip)
    /\ m_synced' = (m_best_block_index' = newTip)
    /\ sync' = IF m_synced' THEN "done" ELSE "loop"
    /\ pindex' = m_best_block_index'

\* The interrupted thread leaves the locator of what it has done.
SyncInterrupted ==
    /\ sync = "loop" /\ m_interrupt
    /\ locator' = pindex
    /\ sync' = "done"
    /\ UNCHANGED <<tip, coinsTip, queue, callback, txpos, index, m_interrupt, pindex, call, count>>

\* Fault: the next height of the active chain, without a look for the fork.
SyncNext_NoFork ==
    /\ sync = "loop" /\ ~m_interrupt
    /\ FindFork(pindex, tip) # tip
    /\ pindex' = GetAncestor(tip, IF nHeight(pindex) < nHeight(tip) THEN nHeight(pindex) + 1 ELSE nHeight(tip))
    /\ sync' = "picked"
    /\ UNCHANGED <<tip, disk, queue, callback, index, m_interrupt, call, count>>

\* NextSyncBlock finds a block: the next one on the active chain after the fork.
SyncNext ==
    /\ sync = "loop" /\ ~m_interrupt
    /\ FindFork(pindex, tip) # tip
    /\ pindex' = GetAncestor(tip, nHeight(FindFork(pindex, tip)) + 1)
    /\ sync' = "picked"
    /\ UNCHANGED <<tip, disk, queue, callback, index, m_interrupt, call, count>>

\* Every SYNC_LOCATOR_WRITE_INTERVAL, the locator of the block about to be written.
SyncLocator ==
    /\ sync = "picked"
    /\ locator' = pindex
    /\ sync' = "located"
    /\ UNCHANGED <<tip, coinsTip, queue, callback, txpos, index, m_interrupt, pindex, call, count>>

SyncWrite ==
    /\ sync \in {"picked", "located"}
    /\ WriteBlock(pindex)
    /\ sync' = "loop"
    /\ UNCHANGED <<tip, coinsTip, queue, callback, locator, index, m_interrupt, pindex, call, count>>

\* Fault: the callbacks take over from an old best block.
SyncDone_NoBest ==
    /\ sync = "loop" /\ ~m_interrupt
    /\ FindFork(pindex, tip) = tip
    /\ locator' = pindex
    /\ m_synced' = TRUE
    /\ sync' = "done"
    /\ UNCHANGED <<tip, coinsTip, queue, callback, txpos, m_best_block_index, m_interrupt, pindex, call, count>>

\* NextSyncBlock finds none: the callbacks take over, under cs_main.
SyncDone ==
    /\ sync = "loop" /\ ~m_interrupt
    /\ FindFork(pindex, tip) = tip
    /\ locator' = pindex
    /\ m_best_block_index' = pindex
    /\ m_synced' = TRUE
    /\ sync' = "done"
    /\ UNCHANGED <<tip, coinsTip, queue, callback, txpos, m_interrupt, pindex, call, count>>

\* ReadBlockFromDisk or WriteBlock fails: FatalError asks for a shutdown.
SyncFails ==
    /\ sync \in {"picked", "located"}
    /\ sync = "located" => GapFaults
    /\ restarts < MaxRestarts
    /\ sync' = "done"
    /\ m_interrupt' = TRUE
    /\ UNCHANGED <<tip, disk, queue, callback, index, pindex, call, count>>

-----------------------------------------------------------------------------
(* The callbacks.                                                          *)

TakeCallback ==
    /\ callback = Idle
    /\ queue # <<>>
    /\ queue' = Tail(queue)

\* Fault: every block is taken once the thread has caught up.
Connects_Any(b) == m_synced

\* BlockConnected goes on when b's parent is on the branch of the best block.
Connects(b) ==
    /\ m_synced
    /\ OnBranch(pprev(b), m_best_block_index)

BlockConnected ==
    /\ TakeCallback
    /\ Head(queue).kind = "connected"
    /\ callback' = IF Connects(Head(queue).block) THEN Head(queue) ELSE Idle
    /\ UNCHANGED <<tip, disk, index, m_interrupt, thread, call, count>>

BlockConnectedWrites ==
    /\ callback.kind = "connected"
    /\ WriteBlock(callback.block)
    /\ callback' = [callback EXCEPT !.kind = "written"]
    /\ UNCHANGED <<tip, coinsTip, queue, locator, index, m_interrupt, thread, call, count>>

BlockConnectedReturns ==
    /\ callback.kind = "written"
    /\ m_best_block_index' = callback.block
    /\ callback' = Idle
    /\ UNCHANGED <<tip, disk, queue, m_synced, m_interrupt, thread, call, count>>

\* ChainStateFlushed goes on when its locator is on the branch of the best block.
LocatorIndexed(b) ==
    /\ m_synced
    /\ OnBranch(b, m_best_block_index)

ChainStateFlushed ==
    /\ TakeCallback
    /\ Head(queue).kind = "flushed"
    /\ callback' = IF LocatorIndexed(Head(queue).block) THEN Head(queue) ELSE Idle
    /\ UNCHANGED <<tip, disk, index, m_interrupt, thread, call, count>>

ChainStateFlushedWrites ==
    /\ callback.kind = "flushed"
    /\ locator' = callback.block
    /\ callback' = Idle
    /\ UNCHANGED <<tip, coinsTip, txpos, queue, index, m_interrupt, thread, call, count>>

-----------------------------------------------------------------------------
(* BlockUntilSyncedToCurrentChain.                                         *)

CallBlockUntilSynced ==
    /\ caller = "out"
    /\ m_synced
    /\ caller' = "called"
    /\ UNCHANGED <<tip, disk, queue, callback, index, m_interrupt, thread, chain_tip, count>>

\* Fault: a best block of the tip's height will do.
CaughtUp_Height == nHeight(m_best_block_index) >= nHeight(tip)

CaughtUp == OnBranch(tip, m_best_block_index)

\* Under cs_main: the queue is waited for unless the index is at the tip.
CheckTip ==
    /\ caller = "called"
    /\ chain_tip' = tip
    /\ caller' = IF CaughtUp THEN "true" ELSE "drain"
    /\ UNCHANGED <<tip, disk, queue, callback, index, m_interrupt, thread, count>>

SyncWithValidationInterfaceQueue ==
    /\ caller = "drain"
    /\ queue' = Append(queue, Marker)
    /\ caller' = "waiting"
    /\ UNCHANGED <<tip, disk, callback, index, m_interrupt, thread, chain_tip, count>>

MarkerRuns ==
    /\ TakeCallback
    /\ Head(queue) = Marker
    /\ caller' = "true"
    /\ UNCHANGED <<tip, disk, callback, index, m_interrupt, thread, chain_tip, count>>

CallerLeaves ==
    /\ caller = "true"
    /\ caller' = "out"
    /\ chain_tip' = NoBlock
    /\ UNCHANGED <<tip, disk, queue, callback, index, m_interrupt, thread, count>>

-----------------------------------------------------------------------------
(* Shutdown, crash and the next start.                                     *)

Interrupt ==
    /\ ~m_interrupt
    /\ restarts < MaxRestarts
    /\ m_interrupt' = TRUE
    /\ UNCHANGED <<tip, disk, queue, callback, index, thread, call, count>>

\* The next process: the tip is what the coins database says.
Boot(newTip) ==
    /\ restarts' = restarts + 1
    /\ tip' = newTip
    /\ coinsTip' = newTip
    /\ queue' = <<>>
    /\ callback' = Idle
    /\ m_interrupt' = FALSE
    /\ caller' = "out"
    /\ chain_tip' = NoBlock
    /\ Start(newTip)
    /\ UNCHANGED <<txpos, locator, moves, flushes>>

\* Stop unregisters the callbacks and joins the thread; then the last flush.
Restart ==
    /\ m_interrupt
    /\ restarts < MaxRestarts
    /\ sync = "done"
    /\ callback = Idle
    /\ Boot(tip)

Crash ==
    /\ restarts < MaxRestarts
    /\ sync = "located" => GapFaults
    /\ Boot(coinsTip)

-----------------------------------------------------------------------------

Init ==
    /\ tip \in Block
    /\ coinsTip = tip
    /\ queue = <<>>
    /\ callback = Idle
    /\ txpos = [t \in Tx |-> NoBlock]
    /\ locator = NoBlock
    /\ m_best_block_index = Genesis
    /\ m_synced = (tip = Genesis)
    /\ m_interrupt = FALSE
    /\ sync = IF tip = Genesis THEN "done" ELSE "loop"
    /\ pindex = Genesis
    /\ caller = "out"
    /\ chain_tip = NoBlock
    /\ moves = 0 /\ flushes = 0 /\ restarts = 0

ThreadSync ==
    SyncInterrupted \/ SyncNext \/ SyncLocator \/ SyncWrite \/ SyncDone \/ SyncFails

ProcessQueue ==
    \/ BlockConnected \/ BlockConnectedWrites \/ BlockConnectedReturns
    \/ ChainStateFlushed \/ ChainStateFlushedWrites
    \/ MarkerRuns

BlockUntilSyncedToCurrentChain ==
    CallBlockUntilSynced \/ CheckTip \/ SyncWithValidationInterfaceQueue \/ CallerLeaves

Next ==
    \/ \E b \in Block : MoveTip(b)
    \/ FlushStateToDisk
    \/ ThreadSync
    \/ ProcessQueue
    \/ BlockUntilSyncedToCurrentChain
    \/ Interrupt \/ Restart \/ Crash

Spec == Init /\ [][Next]_vars

\* The two threads keep running, and a shutdown that was asked for is completed.
LiveSpec ==
    /\ Spec
    /\ WF_vars(ThreadSync)
    /\ WF_vars(ProcessQueue)
    /\ WF_vars(CheckTip \/ SyncWithValidationInterfaceQueue \/ CallerLeaves)
    /\ WF_vars(Restart)

-----------------------------------------------------------------------------
(* What the index promises.  The genesis block is never written: Init takes *)
(* it for the fork when there is no locator.                               *)

TypeOK ==
    /\ {tip, coinsTip, m_best_block_index, pindex} \subseteq Block
    /\ queue \in Seq(Callback)
    /\ callback \in [kind : {"connected", "written", "flushed"}, block : Block] \cup {Idle}
    /\ txpos \in [Tx -> Block \cup {NoBlock}]
    /\ locator \in Block \cup {NoBlock}
    /\ m_synced \in BOOLEAN /\ m_interrupt \in BOOLEAN
    /\ sync \in {"loop", "picked", "located", "done"}
    /\ caller \in {"out", "called", "drain", "waiting", "true"}
    /\ chain_tip \in Block \cup {NoBlock}
    /\ moves \in 0 .. MaxMoves /\ flushes \in 0 .. MaxFlushes /\ restarts \in 0 .. MaxRestarts

Indexed(b) == \A t \in vtx[b] : txpos[t] # NoBlock
BranchIndexed(b) == \A a \in Branch(b) \ {Genesis} : Indexed(a)

Drained == m_synced /\ queue = <<>> /\ callback = Idle

\* Once the index says it is in sync and the callbacks are drained, every
\* transaction of the active chain is found, whatever moves, flushes, restarts
\* and crashes came before (m_synced, index/base.h).
InSync == Drained => OnBranch(tip, m_best_block_index) /\ BranchIndexed(tip)

\* In the run of one process the positions are those of the active chain: what a
\* callback of a stale branch wrote late has been overwritten (BlockConnected).
PositionsOfTip ==
    Drained /\ restarts = 0 =>
        \A b \in Branch(tip) \ {Genesis} : \A t \in vtx[b] : txpos[t] = b

\* Where the next start will resume is never past what is indexed, except while
\* ThreadSync is about to write the block the locator names (WriteBestBlock).
LocatorBehind ==
    locator # NoBlock /\ sync # "located" => BranchIndexed(locator)

\* A caller that got true finds every transaction of the chain it asked about
\* (BlockUntilSyncedToCurrentChain).
CallerServed == caller = "true" => BranchIndexed(chain_tip)

\* When the chain stops moving the index catches up with it and stays there,
\* also when the thread was interrupted or failed on the way (ThreadSync).
CatchesUp == <>[](Drained /\ OnBranch(tip, m_best_block_index))
=============================================================================
