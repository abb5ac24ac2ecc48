------------------------------ MODULE ChainState ------------------------------
(***************************************************************************)
(* CChainState of validation.cpp: the block index with its status flags,   *)
(* setBlockIndexCandidates, mapBlocksUnlinked and the active chain, and    *)
(* the operations that change them.                                        *)
(*                                                                         *)
(* Every operation that runs under one acquisition of cs_main is one       *)
(* action, except ActivateBestChain: it is cut at each examined candidate, *)
(* each disconnected and each connected block, with csMain held between    *)
(* the cuts, and it releases csMain between two outer iterations exactly   *)
(* where the code does.  m_cs_chainstate allows one ActivateBestChain at a *)
(* time; it is not taken by the other operations.                          *)
(*                                                                         *)
(* A block's transactions are abstracted to Verdict: "good", "bad_context" *)
(* (ContextualCheckBlock rejects it) or "bad_connect" (ConnectBlock does). *)
(* pindexBestInvalid and the fork warnings, which only feed messages to    *)
(* the user, are left out, and so are disk errors, which stop the node.    *)
(***************************************************************************)
EXTENDS BlockTree

CONSTANTS
    Verdict,          \* what validation finds in each block
    Addr,             \* address of its CBlockIndex, the last tie breaker
    MaxReorgDepth,    \* MAX_AUTOMATIC_REORG_DEPTH
    MinBlocksToKeep,  \* MIN_BLOCKS_TO_KEEP
    nMinimumChainWork,
    MinReverseId,     \* numeric_limits<int32_t>::min(), the end of nBlockReverseSequenceId
    MaxSequence,      \* bound of the model: sequence ids given out in a run
    Ops,              \* what happens besides blocks arriving
    NoBlock           \* nullptr

\* Pruned undo data makes a deep invalidateblock abort the node, so the two
\* are not combined.
ASSUME ChainStateAssumption ==
    /\ Verdict \in [Block -> {"good", "bad_context", "bad_connect"}]
    /\ Verdict[Genesis] = "good"
    /\ Addr \in [Block -> Nat]
    /\ \A a, b \in Block : Addr[a] = Addr[b] => a = b
    /\ MaxReorgDepth \in Nat /\ MinBlocksToKeep \in Nat /\ nMinimumChainWork \in Nat
    /\ MaxSequence \in Nat
    /\ MinReverseId \in Int /\ MinReverseId < 0
    /\ Ops \subseteq {"invalidateblock", "reconsiderblock", "preciousblock", "prune", "restart"}
    /\ ~({"prune", "invalidateblock"} \subseteq Ops)
    /\ NoBlock \notin Block

VARIABLES
    index,        \* mapBlockIndex
    haveData,     \* blocks with BLOCK_HAVE_DATA
    processed,    \* blocks with nTx > 0
    txValid,      \* blocks valid up to BLOCK_VALID_TRANSACTIONS at least
    scriptValid,  \* blocks valid up to BLOCK_VALID_SCRIPTS
    linked,       \* blocks with nChainTx # 0
    failedValid,  \* blocks with BLOCK_FAILED_VALID
    failedChild,  \* blocks with BLOCK_FAILED_CHILD
    unsaved,      \* those whose BLOCK_FAILED_CHILD is not in setDirtyBlockIndex
    failedBlocks, \* m_failed_blocks
    nSequenceId,  \* order of arrival of the data
    nextSeq,      \* nBlockSequenceId
    nextReverse,  \* nBlockReverseSequenceId
    lastPrecious, \* nLastPreciousBlockHeight
    candidates,   \* setBlockIndexCandidates
    unlinked,     \* blocks b with an entry, or several, (pprev(b), b) in mapBlocksUnlinked
    tip,          \* chainActive.Tip()
    abc           \* the local state of ActivateBestChain

data == <<haveData, processed, txValid, linked>>
marks == <<failedValid, failedChild, unsaved, failedBlocks>>
seqs == <<nSequenceId, nextSeq>>
precious == <<nextReverse, lastPrecious>>
vars == <<index, data, scriptValid, marks, seqs, precious, candidates, unlinked, tip, abc>>

\* abc.pc: "idle" outside ActivateBestChain; "free" inside it with cs_main
\* released; "find", "undo" and "connect" with cs_main held; "aborted" after
\* AbortNode.
AbcState ==
    [pc : {"idle", "free", "find", "undo", "connect", "aborted"},
     mostWork : Block \cup {NoBlock},   \* pindexMostWork
     start : Block,                     \* starting_tip
     old : Block,                       \* pindexOldTip of the current step
     moved : BOOLEAN]                   \* blocks_connected

Idle == [pc |-> "idle", mostWork |-> NoBlock, start |-> Genesis, old |-> Genesis, moved |-> FALSE]

csMainFree == abc.pc \in {"idle", "free"}

\* Blocks with a bit of BLOCK_FAILED_MASK.
Failed == failedValid \cup failedChild

\* The node after LoadGenesisBlock and the activation of the genesis block,
\* which ConnectBlock leaves at BLOCK_VALID_TRANSACTIONS.
Init ==
    /\ index = {Genesis} /\ haveData = {Genesis} /\ processed = {Genesis}
    /\ txValid = {Genesis} /\ linked = {Genesis} /\ scriptValid = {}
    /\ failedValid = {} /\ failedChild = {} /\ unsaved = {} /\ failedBlocks = {}
    /\ nSequenceId = [b \in Block |-> IF b = Genesis THEN 1 ELSE 0] /\ nextSeq = 2
    /\ nextReverse = -1 /\ lastPrecious = 0
    /\ candidates = {Genesis} /\ unlinked = {}
    /\ tip = Genesis
    /\ abc = Idle

-----------------------------------------------------------------------------
(* Orders and tests on the index.                                          *)

\* CBlockIndexWorkComparator with the sequence ids sq: a sorts before b.
\* GetBlockWork() is the height.
Worse(sq, a, b) ==
    \/ nHeight(a) < nHeight(b)
    \/ nHeight(a) = nHeight(b) /\ sq[a] > sq[b]
    \/ nHeight(a) = nHeight(b) /\ sq[a] = sq[b] /\ Addr[a] > Addr[b]

MaxInt(a, b) == IF a > b THEN a ELSE b

\* Fault: the limit is one block too deep.
IsAutomaticReorgAllowed_Deeper(active, candidate) ==
    LET protected == MaxInt(0, nHeight(active) - MaxReorgDepth - 1)
    IN  /\ nHeight(candidate) >= protected
        /\ GetAncestor(candidate, protected) = GetAncestor(active, protected)

IsAutomaticReorgAllowed(active, candidate) ==
    LET protected == MaxInt(0, nHeight(active) - MaxReorgDepth)
    IN  /\ nHeight(candidate) >= protected
        /\ GetAncestor(candidate, protected) = GetAncestor(active, protected)

\* Fault: nothing is removed.
PruneBlockIndexCandidates_None(sq, C, t) == C

\* Fault: the tip itself is removed.
PruneBlockIndexCandidates_Tip(sq, C, t) == {c \in C : Worse(sq, t, c)}

\* What PruneBlockIndexCandidates leaves of the candidates C for the tip t.
PruneBlockIndexCandidates(sq, C, t) == {c \in C : ~Worse(sq, c, t)}

-----------------------------------------------------------------------------
(* Headers and blocks arriving.                                            *)

\* The entries of m_failed_blocks that AcceptBlockHeader finds below b.
FailedAncestors(b) ==
    IF pprev(b) \in scriptValid THEN {} ELSE {f \in failedBlocks : OnBranch(f, pprev(b))}

HeaderKnown(b) == b \in index /\ b \notin Failed

HeaderNew(b) ==
    /\ b \notin index /\ pprev(b) \in index \ Failed
    /\ FailedAncestors(b) = {}

\* The header is refused since b descends from a failed block; the blocks
\* between the two are marked on the way.
HeaderRefused(b) ==
    /\ b \notin index /\ pprev(b) \in index \ Failed
    /\ \E f \in FailedAncestors(b) :
          LET walk == {x \in Branch(pprev(b)) : OnBranch(f, x) /\ x # f} IN
          /\ failedChild' = failedChild \cup walk
          /\ unsaved' = unsaved \ walk
    /\ UNCHANGED <<index, data, scriptValid, failedValid, failedBlocks, seqs, precious,
                   candidates, unlinked, tip, abc>>

\* ProcessNewBlockHeaders for one header.
AcceptBlockHeader(b) ==
    /\ csMainFree
    /\ \/ /\ HeaderNew(b)
          /\ index' = index \cup {b}
          /\ UNCHANGED <<data, scriptValid, marks, seqs, precious, candidates, unlinked, tip, abc>>
       \/ HeaderRefused(b)

\* The blocks that get nChainTx when b is received: b, and what waits for it
\* in mapBlocksUnlinked, recursively.
NewlyLinked(b) ==
    {x \in Block : /\ OnBranch(b, x)
                   /\ \A y \in Branch(x) : OnBranch(b, y) /\ y # b => y \in unlinked}

\* Sequence ids in the order of a breadth-first walk from b.
Numberings(L, b) ==
    {f \in [L -> nextSeq .. (nextSeq + Cardinality(L) - 1)] :
        \A x, y \in L :
           /\ x # y => f[x] # f[y]
           /\ nHeight(x) < nHeight(y) => f[x] < f[y]
           /\ x # b /\ y # b /\ nHeight(x) = nHeight(y) /\ f[pprev(x)] < f[pprev(y)] => f[x] < f[y]}

\* Fault: only the received block is considered.
Promising_First(L, sq) ==
    {x \in L : ~Worse(sq, x, tip) /\ \A y \in L : nHeight(x) <= nHeight(y)}

\* The newly linked blocks that are as good as the tip.
Promising(L, sq) == {x \in L : ~Worse(sq, x, tip)}

\* Fault: the processed entries stay in the map.
Unqueue_None(L, b) == unlinked

\* The entries of mapBlocksUnlinked used by the walk are erased.
Unqueue(L, b) == unlinked \ (L \ {b})

\* A block waits for its parent's data unless the parent is failed.
Queue(b) == IF pprev(b) \in Failed THEN unlinked ELSE unlinked \cup {b}

ReceivedBlockTransactions(b) ==
    /\ haveData' = haveData \cup {b}
    /\ processed' = processed \cup {b}
    /\ txValid' = txValid \cup {b}
    /\ IF pprev(b) \in linked
       THEN LET L == NewlyLinked(b) IN
            /\ nextSeq + Cardinality(L) \in nextSeq .. MaxSequence
            /\ \E f \in Numberings(L, b) :
                  LET sq == [x \in Block |-> IF x \in L THEN f[x] ELSE nSequenceId[x]] IN
                  /\ nSequenceId' = sq
                  /\ candidates' = candidates \cup Promising(L, sq)
            /\ nextSeq' = nextSeq + Cardinality(L)
            /\ linked' = linked \cup L
            /\ unlinked' = Unqueue(L, b)
       ELSE /\ linked' = linked \ {b}
            /\ unlinked' = Queue(b)
            /\ UNCHANGED <<seqs, candidates>>

\* CheckBlock and ContextualCheckBlock accept b.
ContextualCheckBlock(b) == Verdict[b] # "bad_context"

\* AcceptBlock does not process data it has, or did not ask for and does not want.
Declined(b, requested) ==
    \/ b \in haveData
    \/ /\ ~requested
       /\ \/ b \in processed
          \/ nChainWork[b] < nChainWork[tip]
          \/ nHeight(b) > nHeight(tip) + MinBlocksToKeep
          \/ nChainWork[b] < nMinimumChainWork

\* ProcessNewBlock up to the end of AcceptBlock.
AcceptBlock(b, requested) ==
    /\ csMainFree
    /\ \/ HeaderRefused(b)
       \/ /\ HeaderKnown(b) \/ HeaderNew(b)
          /\ index' = index \cup {b}
          /\ \/ /\ Declined(b, requested)
                /\ UNCHANGED <<data, marks, seqs, candidates, unlinked>>
             \/ /\ ~Declined(b, requested) /\ ~ContextualCheckBlock(b)
                /\ failedValid' = failedValid \cup {b}
                /\ UNCHANGED <<data, failedChild, unsaved, failedBlocks, seqs, candidates, unlinked>>
             \/ /\ ~Declined(b, requested) /\ ContextualCheckBlock(b)
                /\ ReceivedBlockTransactions(b)
                /\ UNCHANGED marks
          /\ UNCHANGED <<scriptValid, precious, tip, abc>>

-----------------------------------------------------------------------------
(* ActivateBestChain.                                                      *)

\* Take cs_main for an outer iteration.
AbcLock ==
    /\ csMainFree
    /\ abc' = [abc EXCEPT !.pc = "find", !.start = tip]
    /\ UNCHANGED <<index, data, scriptValid, marks, seqs, precious, candidates, unlinked, tip>>

\* FindMostWorkChain runs when nothing is cached; it looks at the last candidate.
Examined(c) ==
    /\ abc.pc = "find" /\ abc.mostWork = NoBlock
    /\ c \in candidates /\ \A d \in candidates : ~Worse(nSequenceId, c, d)

\* The blocks of c's branch above the active chain that are failed or lack data.
Unusable(c) == {x \in Branch(c) \ Branch(tip) : x \in Failed \/ x \notin haveData}

\* A candidate beyond the rollback limit is dropped.
FindBlocked(c) ==
    /\ Examined(c) /\ ~IsAutomaticReorgAllowed(tip, c)
    /\ candidates' = candidates \ {c}
    /\ UNCHANGED <<index, data, scriptValid, marks, seqs, precious, unlinked, tip, abc>>

\* Fault: the blocks above the gap are forgotten.
Requeue_None(above) == unlinked

\* The blocks above the gap wait for its data again.
Requeue(above) == unlinked \cup above

\* A candidate with a failed or incomplete branch is dropped; x is the first
\* such block on the way down.
FindUnusable(c) ==
    /\ Examined(c) /\ IsAutomaticReorgAllowed(tip, c)
    /\ \E x \in Unusable(c) :
          LET above == {y \in Branch(c) : OnBranch(x, y) /\ y # x} IN
          /\ \A y \in Unusable(c) : nHeight(y) <= nHeight(x)
          /\ candidates' = candidates \ (above \cup {x})
          /\ \/ /\ x \in Failed
                /\ failedChild' = failedChild \cup above
                /\ unsaved' = unsaved \cup (above \ failedChild)
                /\ UNCHANGED unlinked
             \/ /\ x \notin Failed
                /\ unlinked' = Requeue(above)
                /\ UNCHANGED <<failedChild, unsaved>>
    /\ UNCHANGED <<index, data, scriptValid, failedValid, failedBlocks, seqs, precious, tip, abc>>

Found(c) == Examined(c) /\ IsAutomaticReorgAllowed(tip, c) /\ Unusable(c) = {}

\* Nothing to do: no candidate is left, or the best one is the tip.  The
\* outer loop ends unless blocks moved and there is no candidate.
Settle ==
    /\ abc.pc = "find"
    /\ \/ abc.mostWork = NoBlock /\ candidates = {}
       \/ abc.mostWork = tip
       \/ Found(tip)
    /\ abc' = IF abc.moved /\ candidates = {} /\ abc.mostWork = NoBlock
               THEN [Idle EXCEPT !.pc = "free"] ELSE Idle
    /\ UNCHANGED <<index, data, scriptValid, marks, seqs, precious, candidates, unlinked, tip>>

\* Once the tip is on the branch of pindexMostWork, blocks are connected.
UndoOrConnect(t, c) == IF OnBranch(t, c) THEN "connect" ELSE "undo"

\* ActivateBestChainStep begins towards c, just found or cached; it fails,
\* and ActivateBestChain with it, when c is beyond the rollback limit.
StepBegin(c) ==
    /\ abc.pc = "find" /\ c # tip
    /\ abc.mostWork = c \/ Found(c)
    /\ abc' = IF IsAutomaticReorgAllowed(tip, c)
               THEN [abc EXCEPT !.pc = UndoOrConnect(tip, c), !.mostWork = c, !.old = tip]
               ELSE Idle
    /\ UNCHANGED <<index, data, scriptValid, marks, seqs, precious, candidates, unlinked, tip>>

\* The next block to connect towards pindexMostWork.
Connecting == GetAncestor(abc.mostWork, nHeight(tip) + 1)

\* The block DisconnectTip or ConnectTip reads from disk.
Needed == IF abc.pc = "undo" THEN tip ELSE Connecting

\* AbortNode: the block's data is gone, and the node shuts down.
StepAbort ==
    /\ abc.pc \in {"undo", "connect"} /\ Needed \notin haveData
    /\ abc' = [Idle EXCEPT !.pc = "aborted"]
    /\ UNCHANGED <<index, data, scriptValid, marks, seqs, precious, candidates, unlinked, tip>>

DisconnectTip ==
    /\ abc.pc = "undo" /\ Needed \in haveData
    /\ tip' = pprev(tip)
    /\ abc' = [abc EXCEPT !.pc = UndoOrConnect(pprev(tip), abc.mostWork)]
    /\ UNCHANGED <<index, data, scriptValid, marks, seqs, precious, candidates, unlinked>>

\* Fault: cs_main is released after every step.
StepEnd_NoLoop(t, c) == IF t = c THEN Idle ELSE [Idle EXCEPT !.pc = "free", !.mostWork = c]

\* The step ends with the tip t and the cached target c: the inner loop goes
\* on while the tip is worse than it was, the outer one until c is reached.
StepEnd(t, c) ==
    IF Worse(nSequenceId, t, abc.start)
    THEN [abc EXCEPT !.pc = "find", !.mostWork = c, !.old = Genesis, !.moved = TRUE]
    ELSE IF t = c THEN Idle ELSE [Idle EXCEPT !.pc = "free", !.mostWork = c]

\* ConnectBlock accepts b on top of its parent.
ConnectBlock(b) == Verdict[b] # "bad_connect"

\* ConnectTip succeeds, with PruneBlockIndexCandidates.
ConnectTip ==
    /\ abc.pc = "connect" /\ Needed \in haveData
    /\ ConnectBlock(Connecting)
    /\ tip' = Connecting
    /\ scriptValid' = IF Connecting \in Failed THEN scriptValid ELSE scriptValid \cup {Connecting}
    /\ unsaved' = unsaved \ {Connecting}
    /\ candidates' = PruneBlockIndexCandidates(nSequenceId, candidates, Connecting)
    /\ abc' = IF nChainWork[Connecting] > nChainWork[abc.old] \/ Connecting = abc.mostWork
               THEN StepEnd(Connecting, abc.mostWork) ELSE abc
    /\ UNCHANGED <<index, data, failedValid, failedChild, failedBlocks, seqs, precious, unlinked>>

\* ConnectTip fails, with InvalidBlockFound; pindexMostWork is forgotten.
ConnectTipInvalid ==
    /\ abc.pc = "connect" /\ Needed \in haveData
    /\ ~ConnectBlock(Connecting)
    /\ failedValid' = failedValid \cup {Connecting}
    /\ failedBlocks' = failedBlocks \cup {Connecting}
    /\ unsaved' = unsaved \ {Connecting}
    /\ candidates' = candidates \ {Connecting}
    /\ abc' = StepEnd(tip, NoBlock)
    /\ UNCHANGED <<index, data, scriptValid, failedChild, seqs, precious, unlinked, tip>>

-----------------------------------------------------------------------------
(* The operator's calls, pruning and restarts.                             *)

\* The walk over mapBlockIndex that puts back what is as good as the new tip.
Readmitted(newTip, nowFailed) ==
    {x \in (txValid \cap linked) \ nowFailed : ~Worse(nSequenceId, x, newTip)}

InvalidateBlock(b) ==
    /\ csMainFree /\ "invalidateblock" \in Ops /\ b \in index \ {Genesis}
    /\ LET inChain == OnBranch(b, tip)
           above == IF inChain THEN {x \in Branch(tip) : OnBranch(b, x) /\ x # b} ELSE {}
           newTip == IF inChain THEN pprev(b) ELSE tip
           nowFailed == Failed \cup above \cup {b}
       IN  /\ tip' = newTip
           /\ failedChild' = failedChild \cup above
           /\ failedValid' = failedValid \cup {b}
           /\ failedBlocks' = failedBlocks \cup {b}
           /\ unsaved' = unsaved \ (above \cup {b})
           /\ candidates' = (candidates \ (above \cup {b})) \cup Readmitted(newTip, nowFailed)
    /\ UNCHANGED <<index, data, scriptValid, seqs, precious, unlinked, abc>>

\* The descendants that become candidates again.
Revived(below) == {x \in below \cap txValid \cap linked : Worse(nSequenceId, tip, x)}

\* Fault: m_failed_blocks is left alone.
ResetBlockFailureFlags_KeepList(b) ==
    /\ csMainFree /\ "reconsiderblock" \in Ops /\ b \in index
    /\ failedValid' = failedValid \ {b} /\ failedChild' = failedChild \ {b}
    /\ unsaved' = unsaved \ {b}
    /\ UNCHANGED <<index, data, scriptValid, failedBlocks, seqs, precious, candidates, unlinked, tip, abc>>

\* reconsiderblock
ResetBlockFailureFlags(b) ==
    /\ csMainFree /\ "reconsiderblock" \in Ops /\ b \in index
    /\ LET below == {x \in index : OnBranch(b, x) /\ (x \in Failed \/ x \notin txValid)}
           reset == below \cup (Branch(b) \cap Failed)
       IN  /\ failedValid' = failedValid \ reset
           /\ failedChild' = failedChild \ reset
           /\ failedBlocks' = failedBlocks \ reset
           /\ unsaved' = unsaved \ reset
           /\ candidates' = candidates \cup Revived(below)
    /\ UNCHANGED <<index, data, scriptValid, seqs, precious, unlinked, tip, abc>>

\* The counter stops at the smallest integer.
NextReverse(r) == IF r > MinReverseId THEN r - 1 ELSE r

PreciousBlock(b) ==
    /\ csMainFree /\ "preciousblock" \in Ops /\ b \in index
    /\ nHeight(b) >= nHeight(tip)
    /\ LET reverse == IF nHeight(tip) > lastPrecious THEN -1 ELSE nextReverse
           sq == [nSequenceId EXCEPT ![b] = reverse]
       IN  /\ nSequenceId' = sq
           /\ nextReverse' = NextReverse(reverse)
           /\ candidates' = IF b \in (txValid \cap linked) \ Failed
                            THEN PruneBlockIndexCandidates(sq, candidates \cup {b}, tip)
                            ELSE candidates \ {b}
    /\ lastPrecious' = nHeight(tip)
    /\ UNCHANGED <<index, data, scriptValid, marks, nextSeq, unlinked, tip, abc>>

\* Fault: the newest blocks are pruned too.
PruneOneBlockFile_Recent(b) ==
    /\ abc.pc \notin {"find", "aborted"} /\ "prune" \in Ops /\ b \in haveData
    /\ haveData' = haveData \ {b}
    /\ unlinked' = unlinked \ {b}
    /\ UNCHANGED <<index, processed, txValid, linked, scriptValid, marks, seqs, precious,
                   candidates, tip, abc>>

\* PruneOneBlockFile, for a file that holds block b only.  FlushStateToDisk
\* prunes under cs_main, also from within ConnectTip and DisconnectTip.
PruneOneBlockFile(b) ==
    /\ abc.pc \notin {"find", "aborted"} /\ "prune" \in Ops
    /\ b \in haveData /\ nHeight(b) <= nHeight(tip) - MinBlocksToKeep
    /\ haveData' = haveData \ {b}
    /\ unlinked' = unlinked \ {b}
    /\ unsaved' = unsaved \ {b}
    /\ UNCHANGED <<index, processed, txValid, linked, scriptValid, failedValid, failedChild,
                   failedBlocks, seqs, precious, candidates, tip, abc>>

\* Fault: the index is loaded without mapBlocksUnlinked.
LoadedUnlinked_None(nowLinked) == {}

\* Blocks whose data arrived before that of their parent.
LoadedUnlinked(nowLinked) == {b \in processed \ {Genesis} : pprev(b) \notin nowLinked}

\* The candidates before PruneBlockIndexCandidates.
LoadedCandidates(nowLinked, nowFailed) == (txValid \cap nowLinked) \ nowFailed

\* A clean shutdown, LoadBlockIndex and LoadChainTip.
Restart ==
    /\ csMainFree \/ abc.pc = "aborted"
    /\ "restart" \in Ops
    /\ LET nowLinked == {b \in index : Branch(b) \subseteq processed}
           saved == failedValid \cup (failedChild \ unsaved)
           closed == {b \in index : \E f \in saved : OnBranch(f, b)}
           zero == [b \in Block |-> 0]
       IN  /\ linked' = nowLinked
           /\ failedChild' = (failedChild \ unsaved) \cup (closed \ saved)
           /\ candidates' = PruneBlockIndexCandidates(zero, LoadedCandidates(nowLinked, closed), tip)
           /\ unlinked' = LoadedUnlinked(nowLinked)
           /\ nSequenceId' = zero
    /\ failedBlocks' = {} /\ unsaved' = {}
    /\ nextSeq' = 1 /\ nextReverse' = -1 /\ lastPrecious' = 0
    /\ abc' = Idle
    /\ UNCHANGED <<index, haveData, processed, txValid, scriptValid, failedValid, tip>>

-----------------------------------------------------------------------------
Activate ==
    \/ AbcLock \/ Settle \/ StepAbort \/ DisconnectTip \/ ConnectTip \/ ConnectTipInvalid
    \/ \E c \in Block : FindBlocked(c) \/ FindUnusable(c) \/ StepBegin(c)

Arrive == \E b \in Block : AcceptBlockHeader(b) \/ \E r \in BOOLEAN : AcceptBlock(b, r)

Operate ==
    \/ \E b \in Block : \/ InvalidateBlock(b) \/ ResetBlockFailureFlags(b)
                         \/ PreciousBlock(b) \/ PruneOneBlockFile(b)
    \/ Restart

Next == Activate \/ Arrive \/ Operate

Spec == Init /\ [][Next]_vars

\* The thread inside ActivateBestChain keeps running, and every operation
\* ends in a call of ActivateBestChain.
LiveSpec == Spec /\ WF_vars(Activate)

-----------------------------------------------------------------------------
(* Properties.  The ones named after asserts of CheckBlockIndex are stated *)
(* where the code runs it, with cs_main about to be released.              *)

\* Every variable has its type, and every entry of mapBlockIndex has its
\* ancestors there (AcceptBlockHeader refuses a header whose parent is unknown).
TypeOK ==
    /\ index \subseteq Block /\ Genesis \in index
    /\ \A b \in index : Branch(b) \subseteq index
    /\ haveData \subseteq processed /\ processed \subseteq index
    /\ txValid \subseteq index /\ scriptValid \subseteq txValid /\ linked \subseteq index
    /\ failedValid \subseteq index /\ failedChild \subseteq index
    /\ unsaved \subseteq failedChild /\ failedBlocks \subseteq index
    /\ nSequenceId \in [Block -> Int] /\ nextSeq \in Nat
    /\ nextReverse \in MinReverseId .. -1 /\ lastPrecious \in Nat
    /\ candidates \subseteq index /\ unlinked \subseteq index
    /\ tip \in index
    /\ abc \in AbcState /\ abc.mostWork \in index \cup {NoBlock}

\* A block gets nChainTx (ReceivedBlockTransactions, LoadBlockIndex) only when
\* it and all its ancestors have been received, and a positive nSequenceId
\* only with it.
LinkedSound ==
    /\ \A b \in linked : Branch(b) \subseteq processed \cap linked
    /\ \A b \in index \ linked : nSequenceId[b] <= 0

\* The converse, asserted by CheckBlockIndex: once a block and all its
\* ancestors have been received, it has nChainTx.
LinkedComplete == csMainFree => \A b \in index : Branch(b) \subseteq processed => b \in linked

\* The same for the blocks that count, those without a failed block on their
\* branch: ReceivedBlockTransactions lets no block wait for a failed parent.
ValidLinked ==
    csMainFree => \A b \in index :
        Branch(b) \subseteq processed /\ Branch(b) \cap failedValid = {} => b \in linked

\* CheckBlockIndex: a block whose scripts were verified has only such
\* ancestors, so ConnectTip never skips a block of the branch.
ScriptsValidPrefix == \A b \in scriptValid : Branch(b) \ {Genesis} \subseteq scriptValid

\* CheckBlockIndex: a block marked failed has a block that itself failed
\* (BLOCK_FAILED_VALID) on its branch; no mark outlives its cause.
FailedHasCause == csMainFree => \A b \in Failed : Branch(b) \cap failedValid # {}

\* The assert of AcceptBlockHeader: every entry of m_failed_blocks is marked
\* BLOCK_FAILED_VALID, whatever the operator reconsidered.
FailedBlocksMarked == failedBlocks \subseteq failedValid

\* CheckBlockIndex: a fully received branch without failed blocks that is as
\* good as the tip and within the rollback limit is a candidate, and so is
\* the tip: FindMostWorkChain can find every chain it should consider.
CandidatesComplete ==
    csMainFree => \A b \in linked :
        /\ ~Worse(nSequenceId, b, tip)
        /\ Branch(b) \cap failedValid = {}
        /\ IsAutomaticReorgAllowed(tip, b)
        /\ Branch(b) \subseteq haveData \/ b = tip
        => b \in candidates

\* CheckBlockIndex: no candidate is worse than the tip or lacks an ancestor.
CandidatesSound ==
    csMainFree => \A b \in candidates : b \in linked /\ ~Worse(nSequenceId, b, tip)

\* CheckBlockIndex: received data that waits for a missing ancestor is in
\* mapBlocksUnlinked, so the ancestor's arrival will find it.
UnlinkedComplete ==
    csMainFree => \A b \in haveData \ {Genesis} :
        /\ Branch(b) \cap failedValid = {}
        /\ \/ ~(Branch(b) \subseteq processed)
           \/ /\ ~(Branch(b) \subseteq haveData) /\ b \in linked \ candidates
              /\ ~Worse(nSequenceId, b, tip) /\ IsAutomaticReorgAllowed(tip, b)
        => b \in unlinked

\* CheckBlockIndex: an entry of mapBlocksUnlinked has its data and misses
\* that of an ancestor.
UnlinkedSound ==
    csMainFree => \A b \in unlinked : b \in haveData /\ ~(Branch(b) \subseteq haveData)

\* mapBlocksUnlinked holds exactly the received blocks that wait for a missing
\* ancestor, through every pruning and every new download (PruneOneBlockFile,
\* ReceivedBlockTransactions, FindMostWorkChain).
UnlinkedExact == UnlinkedComplete /\ UnlinkedSound

\* The premise of FindMostWorkChain's walk, which stops at the active chain:
\* no block of the active chain is marked failed.
ActiveValid == Branch(tip) \cap Failed = {}

\* What CheckBlockIndex asserts of each block and each candidate: the index
\* never claims more than was received and verified.
SoundIndex == LinkedSound /\ ScriptsValidPrefix /\ CandidatesSound /\ ActiveValid

\* What CheckBlockIndex asserts the other way round: nothing that was received
\* is overlooked, neither as linked nor as waiting, and no mark bars a branch
\* without a cause.
CompleteIndex == ValidLinked /\ UnlinkedComplete /\ FailedHasCause

\* A candidate, or a block that has just been linked, is missing from the
\* candidates only if it sorts before the tip, has a failed or a missing block
\* on its branch, or is beyond the rollback limit: no step of FindMostWorkChain,
\* ConnectTip, PruneBlockIndexCandidates or the operator loses any other.
LosesForCause ==
    \A b \in (candidates \cup (linked' \ linked)) \ candidates' :
        \/ Worse(nSequenceId', b, tip')
        \/ Branch(b) \cap (failedValid' \cup failedChild') # {}
        \/ ~(Branch(b) \subseteq haveData)
        \/ ~IsAutomaticReorgAllowed(tip, b)

CandidatesKept == [][LosesForCause]_vars

\* The comment in ActivateBestChain: "we absolutely may not unlock cs_main until
\* we've made forward progress", that is, with a tip worse than the one it found.
Advances == ~csMainFree /\ csMainFree' => ~Worse(nSequenceId, tip', abc.start)

ForwardProgress == [][Advances]_vars

\* What holds of it: ActivateBestChain goes on while the tip it found is a
\* candidate that beats the present one, and drops that candidate only when it
\* is beyond the rollback limit from there, whichever branches fail meanwhile.
GoesOnToStart ==
    ~csMainFree =>
        /\ csMainFree' /\ abc.start \in candidates' => ~Worse(nSequenceId, tip', abc.start)
        /\ abc.start \in candidates \ candidates' =>
              ~IsAutomaticReorgAllowed(tip, abc.start) \/ ~Worse(nSequenceId, tip', abc.start)

ProgressUnlessBarred == [][GoesOnToStart]_vars

\* One ActivateBestChainStep disconnects at most MaxReorgDepth blocks: what
\* lies that deep below the tip it started from stays active throughout.
StepRollbackLimit ==
    abc.pc \in {"undo", "connect"} =>
        \A a \in Branch(abc.old) :
            nHeight(a) + MaxReorgDepth <= nHeight(abc.old) => OnBranch(a, tip)

\* The limit as documented: when ActivateBestChain lets go of cs_main, at
\* most MaxReorgDepth blocks of the chain it found active are disconnected.
RollbackLimit ==
    [][~csMainFree /\ csMainFree' =>
        \A a \in Branch(abc.start) :
            nHeight(a) + MaxReorgDepth <= nHeight(abc.start) => OnBranch(a, tip')]_vars

\* The assert of PruneBlockIndexCandidates after each connected block: the
\* tip, or a successor the node is working towards, is still a candidate.
CandidatesLeft == [][tip' # tip /\ pprev(tip') = tip => candidates' # {}]_vars

\* A step that gives out sequence ids gives none to a candidate.
KeepsSortKeys == nextSeq' > nextSeq => \A b \in candidates : nSequenceId'[b] = nSequenceId[b]

\* The key by which std::set orders a candidate does not change while the
\* candidate is in the set: ReceivedBlockTransactions gives new sequence ids
\* to blocks outside of it only.
SortKeyStable == [][KeepsSortKeys]_vars

\* Pruning keeps MinBlocksToKeep blocks below the tip, and does so in the
\* middle of a switch too: a block that is read to disconnect or connect it is
\* on disk unless it lies that far below the tip with which cs_main was taken
\* (PruneOneBlockFile, ConnectTip, DisconnectTip).
DataAvailable ==
    /\ abc.pc \in {"undo", "connect"}
    /\ nHeight(abc.start) - nHeight(Needed) < MinBlocksToKeep
    => Needed \in haveData

\* preciousblock "treats a block as if it were received before others with
\* the same work": after the call no received block of its height sorts before it.
PreciousWins ==
    [][\A b \in linked : nSequenceId'[b] # nSequenceId[b] /\ nSequenceId'[b] < 0 =>
          \A d \in linked : nHeight(d) = nHeight(b) => ~Worse(nSequenceId', b, d)]_vars

\* A branch ActivateBestChain would connect completely.
Acceptable(b) ==
    /\ \A a \in Branch(b) : a \in linked \cap haveData /\ Verdict[a] = "good" /\ a \notin Failed
    /\ IsAutomaticReorgAllowed(tip, b)

\* Once blocks stop arriving, the node ends on a tip that no acceptable
\* branch beats, although failing and blocked branches are in the way.
EventuallyBest ==
    <>[](abc.pc = "idle" => \A b \in index : Acceptable(b) => ~Worse(nSequenceId, tip, b))

\* ActivateBestChain returns, or stops the node for a block that is not on disk:
\* it does not retry a failed branch for ever.
Returns == (abc.pc = "find") ~> (abc.pc \in {"idle", "aborted"})

\* ActivateBestChain returns every time, and when blocks stop arriving it has
\* brought the node to a tip that no acceptable branch beats.
SettlesOnBest == Returns /\ EventuallyBest
=============================================================================
