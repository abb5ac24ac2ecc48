--------------------------- MODULE ChainStateProofs ---------------------------
(***************************************************************************)
(* Proofs about CChainState, for every block tree, limit and verdict.      *)
(*                                                                         *)
(* Shape is inductive whatever the operator does.  Sound is inductive      *)
(* (with Shape) when invalidateblock is not used: with it, ActivateBest-   *)
(* Chain may connect a cached target that was marked failed meanwhile.     *)
(* Ordered is inductive when, in addition, nothing is pruned.  Waiting     *)
(* (nothing received is overlooked) needs neither pruning nor reconsider-  *)
(* block.  OnWay and StartKept describe a call of ActivateBestChain while  *)
(* it holds cs_main, and Stocked what pruning has left for it to read.     *)
(*                                                                         *)
(* With pruning, Queued says which blocks wait, and why, whichever fail.   *)
(* Parked, Graded, Underway and Accounted are about a node that prunes and *)
(* does nothing else: where a candidate and a waiting block may be, and,   *)
(* if no block fails to connect, how a switch proceeds and why a received  *)
(* block is no candidate.                                                  *)
(***************************************************************************)
EXTENDS ChainState, BlockTreeTheorems

\* The block IsAutomaticReorgAllowed protects below the tip t.
Protected(t) == GetAncestor(t, MaxInt(0, nHeight(t) - MaxReorgDepth))

\* A step towards pindexMostWork keeps the protected block on both sides of it.
StepShape ==
    /\ abc.pc \in {"undo", "connect"} =>
          /\ abc.mostWork # NoBlock
          /\ OnBranch(Protected(abc.old), tip)
          /\ OnBranch(Protected(abc.old), abc.mostWork)
    /\ abc.pc = "undo" => ~OnBranch(tip, abc.mostWork)
    /\ abc.pc = "connect" => OnBranch(tip, abc.mostWork) /\ tip # abc.mostWork

Shape ==
    /\ TypeOK
    /\ processed = txValid
    /\ linked \subseteq processed
    /\ \A b \in linked : Branch(b) \subseteq linked
    /\ \A b \in Block \ linked : nSequenceId[b] <= 0
    /\ nextSeq > 0
    /\ unlinked \subseteq processed
    /\ candidates \subseteq linked
    /\ \A c \in candidates : nHeight(c) >= nHeight(tip)
    /\ tip \in linked
    /\ abc.mostWork \in linked \cup {NoBlock}
    /\ abc.mostWork # NoBlock => nHeight(abc.mostWork) >= nHeight(tip)
    /\ failedBlocks \subseteq failedValid
    /\ StepShape

\* What was connected, or was found to connect, is free of failed blocks.
Sound ==
    /\ ActiveValid
    /\ abc.mostWork # NoBlock => Branch(abc.mostWork) \cap Failed = {}
    /\ \A b \in processed : ContextualCheckBlock(b)
    /\ Branch(tip) \ {Genesis} \subseteq scriptValid
    /\ ScriptsValidPrefix

\* Without pruning, only blocks that are not linked wait, and every candidate
\* is as good as the tip.
Ordered ==
    /\ haveData = processed
    /\ unlinked \cap linked = {}
    /\ \A c \in candidates : ~Worse(nSequenceId, c, tip)

-----------------------------------------------------------------------------
(* The tree.                                                               *)

\* A branch holds its ends and the branches of its blocks, and grows by one
\* block from pprev(b) to b.
LEMMA BranchFacts ==
    ASSUME NEW b \in Block
    PROVE  /\ b \in Branch(b) /\ Genesis \in Branch(b) /\ Branch(b) \subseteq Block
           /\ \A a \in Branch(b) : Branch(a) \subseteq Branch(b)
           /\ b # Genesis => /\ Branch(b) = Branch(pprev(b)) \cup {b}
                             /\ pprev(b) \in Branch(b) /\ b \notin Branch(pprev(b))
<1>1. b \in Branch(b) /\ Genesis \in Branch(b) /\ Branch(b) \subseteq Block
  BY BlockTreeAssumption, OnBranchReflexive, Heights DEF Branch
<1>2. \A a \in Branch(b) : Branch(a) \subseteq Branch(b)
  BY OnBranchTransitive DEF Branch
<1>3. ASSUME b # Genesis
      PROVE  /\ Branch(b) = Branch(pprev(b)) \cup {b}
             /\ pprev(b) \in Branch(b) /\ b \notin Branch(pprev(b))
  <2>1. /\ pprev(b) \in Block /\ OnBranch(pprev(b), b) /\ nHeight(pprev(b)) = nHeight(b) - 1
        /\ \A a \in Block : OnBranch(a, b) /\ a # b => OnBranch(a, pprev(b))
    BY <1>3, Parent
  <2>2. Branch(b) \subseteq Branch(pprev(b)) \cup {b}
    BY <2>1 DEF Branch
  <2>3. Branch(pprev(b)) \subseteq Branch(b)
    BY <2>1, OnBranchTransitive DEF Branch
  <2>4. b \notin Branch(pprev(b))
    <3>1. nHeight(b) \in Nat
      BY Heights
    <3>2. Len(b) > Len(pprev(b))
      BY <2>1, <3>1 DEF nHeight
    <3> QED BY <3>1, <3>2, <2>1, Heights DEF Branch, OnBranch, nHeight
  <2> QED BY <1>1, <2>1, <2>2, <2>3, <2>4 DEF Branch
<1> QED BY <1>1, <1>2, <1>3

\* The genesis block is its own pprev in the model and alone on its branch.
LEMMA GenesisFacts == Genesis \in Block /\ pprev(Genesis) = Genesis /\ Branch(Genesis) = {Genesis}
<1>1. Genesis \in Block
  BY BlockTreeAssumption
<1>2. pprev(Genesis) = Genesis
  BY DEF Genesis, pprev
<1>3. ASSUME NEW a \in Branch(Genesis) PROVE a = Genesis
  <2>1. a \in Block /\ OnBranch(a, Genesis) /\ Len(Genesis) = 0
    BY DEF Branch, Genesis
  <2>2. Len(a) \in Nat /\ Len(a) <= 0
    BY <2>1, Heights DEF nHeight, OnBranch
  <2>3. nHeight(a) = 0
    BY <2>2 DEF nHeight
  <2> QED BY <2>1, <2>3, Heights
<1> QED BY <1>1, <1>2, <1>3, BranchFacts

\* The protected block lies on the branch of the tip; the rollback limit
\* allows exactly the targets whose branch holds it.
LEMMA ProtectedFacts ==
    ASSUME NEW t \in Block
    PROVE  /\ Protected(t) \in Block /\ OnBranch(Protected(t), t)
           /\ \A c \in Block : IsAutomaticReorgAllowed(t, c) => OnBranch(Protected(t), c)
           /\ \A a \in Branch(t) : nHeight(a) + MaxReorgDepth <= nHeight(t) => OnBranch(a, Protected(t))
<1> DEFINE h == MaxInt(0, nHeight(t) - MaxReorgDepth)
<1>1. nHeight(t) \in Nat /\ MaxReorgDepth \in Nat
  BY Heights, ChainStateAssumption
<1>2. h \in 0 .. nHeight(t) /\ nHeight(t) - MaxReorgDepth <= h
  BY <1>1 DEF MaxInt
<1>3. Protected(t) = GetAncestor(t, h)
  BY DEF Protected
<1> HIDE DEF h
<1>4. Protected(t) \in Block /\ nHeight(Protected(t)) = h /\ OnBranch(Protected(t), t)
  BY <1>2, <1>3, AncestorOnBranch
<1>5. ASSUME NEW c \in Block, IsAutomaticReorgAllowed(t, c) PROVE OnBranch(Protected(t), c)
  <2>1. nHeight(c) >= h /\ GetAncestor(c, h) = GetAncestor(t, h)
    BY <1>5 DEF IsAutomaticReorgAllowed, h
  <2>2. h \in 0 .. nHeight(c)
    BY <1>2, <2>1, Heights
  <2> QED BY <1>3, <2>1, <2>2, AncestorOnBranch
<1>6. ASSUME NEW a \in Branch(t), nHeight(a) + MaxReorgDepth <= nHeight(t)
      PROVE  OnBranch(a, Protected(t))
  <2>1. a \in Block /\ OnBranch(a, t) /\ nHeight(a) \in Nat
    BY <1>6, Heights DEF Branch
  <2>2. Len(a) <= Len(Protected(t))
    BY <1>1, <1>2, <1>4, <1>6, <2>1 DEF nHeight
  <2> QED BY <1>4, <2>1, <2>2, AncestorsComparable
<1> QED BY <1>4, <1>5, <1>6

-----------------------------------------------------------------------------
(* Shape is inductive.                                                     *)

\* The state after LoadGenesisBlock satisfies Shape.
LEMMA InitShape == Init => Shape
<1> SUFFICES ASSUME Init PROVE Shape
  OBVIOUS
<1>1. Genesis \in Block /\ Branch(Genesis) = {Genesis} /\ NoBlock \notin Block
  BY GenesisFacts, ChainStateAssumption
<1>2. nSequenceId \in [Block -> Int] /\ \A b \in Block : b # Genesis => nSequenceId[b] = 0
  BY DEF Init
<1>3. nextReverse \in MinReverseId .. -1
  BY ChainStateAssumption DEF Init
<1>4. TypeOK
  BY <1>1, <1>2, <1>3 DEF Init, TypeOK, AbcState, Idle
<1>5. nHeight(Genesis) >= nHeight(Genesis)
  BY <1>1, Heights
<1> QED BY <1>1, <1>2, <1>4, <1>5 DEF Init, Shape, StepShape, Idle

\* What every action may use.
LEMMA ShapeFacts ==
    ASSUME Shape
    PROVE  /\ index \subseteq Block /\ processed \subseteq index /\ linked \subseteq index
           /\ tip \in Block /\ Genesis \in linked
           /\ abc.mostWork # NoBlock => abc.mostWork \in Block
           /\ abc \in AbcState /\ abc.old \in Block /\ abc.start \in Block
<1>1. tip \in Block /\ tip \in linked /\ Branch(tip) \subseteq linked
  BY DEF Shape, TypeOK
<1>2. Genesis \in linked
  BY <1>1, BranchFacts
<1> QED BY <1>1, <1>2 DEF Shape, TypeOK, AbcState

\* Refusing the child of a failed block only adds BLOCK_FAILED_CHILD marks.
LEMMA HeaderRefusedShape ==
    ASSUME Shape, NEW b \in Block, HeaderRefused(b)
    PROVE  Shape'
<1>1. PICK f \in FailedAncestors(b) :
         LET walk == {x \in Branch(pprev(b)) : OnBranch(f, x) /\ x # f} IN
         failedChild' = failedChild \cup walk /\ unsaved' = unsaved \ walk
  BY DEF HeaderRefused
<1>2. Branch(pprev(b)) \subseteq index
  BY DEF HeaderRefused, Shape, TypeOK
<1>3. failedChild' \subseteq index /\ unsaved' \subseteq failedChild'
  BY <1>1, <1>2 DEF Shape, TypeOK
<1> QED BY ZenonT(60), <1>3
           DEF HeaderRefused, Shape, TypeOK, StepShape, data, seqs, precious, Protected, Branch

\* A header whose parent is known keeps the index closed under ancestors.
LEMMA IndexClosed ==
    ASSUME Shape, NEW b \in Block, b \in index \/ pprev(b) \in index
    PROVE  \A x \in index \cup {b} : Branch(x) \subseteq index \cup {b}
<1>1. \A x \in index : Branch(x) \subseteq index
  BY DEF Shape, TypeOK
<1>2. Branch(b) \subseteq index \cup {b}
  BY <1>1, BranchFacts, GenesisFacts
<1> QED BY <1>1, <1>2

\* A new header enters the index above a known parent.
LEMMA AcceptBlockHeaderShape ==
    ASSUME Shape, NEW b \in Block, AcceptBlockHeader(b)
    PROVE  Shape'
<1>1. CASE HeaderRefused(b)
  BY <1>1, HeaderRefusedShape
<1>2. CASE HeaderNew(b) /\ index' = index \cup {b}
           /\ UNCHANGED <<data, scriptValid, marks, seqs, precious, candidates, unlinked, tip, abc>>
  <2>1. \A x \in index' : Branch(x) \subseteq index'
    BY <1>2, IndexClosed DEF HeaderNew
  <2> QED BY ZenonT(60), <1>2, <2>1
             DEF Shape, TypeOK, StepShape, data, marks, seqs, precious, Protected
<1> QED BY <1>1, <1>2 DEF AcceptBlockHeader

\* ReceivedBlockTransactions links only blocks whose whole branch is linked
\* with them.
LEMMA LinkedClosed ==
    ASSUME Shape, NEW b \in Block, pprev(b) \in linked
    PROVE  /\ b \in NewlyLinked(b)
           /\ NewlyLinked(b) \subseteq unlinked \cup {b}
           /\ \A x \in linked \cup NewlyLinked(b) : Branch(x) \subseteq linked \cup NewlyLinked(b)
<1> DEFINE L == NewlyLinked(b)
<1>1. b \in L
  <2>1. \A y \in Branch(b) : OnBranch(b, y) => y = b
    BY OnBranchAntisymmetric DEF Branch, OnBranch
  <2> QED BY <2>1, OnBranchReflexive DEF NewlyLinked
<1>2. L \subseteq unlinked \cup {b}
  BY BranchFacts DEF NewlyLinked
<1>3. ASSUME NEW x \in L, NEW y \in Branch(x) PROVE y \in linked \cup L
  <2>1. /\ x \in Block /\ OnBranch(b, x) /\ y \in Block /\ OnBranch(y, x)
        /\ \A z \in Branch(x) : OnBranch(b, z) /\ z # b => z \in unlinked
    BY <1>3 DEF NewlyLinked, Branch
  <2>2. CASE OnBranch(b, y)
    <3>1. Branch(y) \subseteq Branch(x)
      BY <1>3, <2>1, BranchFacts
    <3> QED BY <2>1, <2>2, <3>1 DEF NewlyLinked
  <2>3. CASE ~OnBranch(b, y)
    <3>1. Len(b) \in Nat /\ Len(y) \in Nat
      BY <2>1, Heights DEF nHeight
    <3>2. ~(Len(b) <= Len(y))
      BY <2>1, <2>3, AncestorsComparable
    <3>3. OnBranch(y, b) /\ y # b
      BY <2>1, <3>1, <3>2, AncestorsComparable
    <3>4. b # Genesis
      BY <3>3, GenesisFacts, <2>1 DEF Branch
    <3>5. y \in Branch(pprev(b))
      BY <2>1, <3>3, <3>4, Parent DEF Branch
    <3> QED BY <3>5 DEF Shape
  <2> QED BY <2>2, <2>3
<1>4. \A x \in linked : Branch(x) \subseteq linked
  BY DEF Shape
<1> QED BY <1>1, <1>2, <1>3, <1>4

\* The ids given out are positive integers, one for each newly linked block.
LEMMA NumberingFacts ==
    ASSUME Shape, NEW b \in Block, NEW f \in Numberings(NewlyLinked(b), b)
    PROVE  \A x \in NewlyLinked(b) : f[x] \in Int /\ f[x] >= nextSeq
<1>1. nextSeq \in Nat
  BY DEF Shape, TypeOK
<1>2. f \in [NewlyLinked(b) -> nextSeq .. (nextSeq + Cardinality(NewlyLinked(b)) - 1)]
  BY DEF Numberings
<1> QED BY <1>1, <1>2

\* Received data links whole branches: what gets nChainTx has all its
\* ancestors received.
LEMMA ReceivedBlockTransactionsShape ==
    ASSUME Shape, NEW b \in Block, ReceivedBlockTransactions(b),
           b \in index \/ pprev(b) \in index, index' = index \cup {b},
           UNCHANGED <<scriptValid, marks, precious, tip, abc>>
    PROVE  Shape'
<1>1. /\ haveData' \subseteq processed' /\ processed' \subseteq index' /\ txValid' = processed'
      /\ scriptValid' \subseteq txValid'
  BY DEF ReceivedBlockTransactions, Shape, TypeOK
<1>2. \A x \in index' : Branch(x) \subseteq index'
  BY IndexClosed
<1>3. /\ nSequenceId' \in [Block -> Int] /\ nextSeq' \in Nat /\ nextSeq' > 0
      /\ linked \subseteq linked' /\ linked' \subseteq processed' /\ linked' \subseteq index'
      /\ \A x \in linked' : Branch(x) \subseteq linked'
      /\ \A x \in Block \ linked' : nSequenceId'[x] <= 0
      /\ unlinked' \subseteq processed'
      /\ candidates' \subseteq linked' /\ \A c \in candidates' : nHeight(c) >= nHeight(tip)
  <2>1. CASE pprev(b) \in linked
    <3> DEFINE L == NewlyLinked(b)
    <3>1. PICK f \in Numberings(L, b) :
             LET sq == [x \in Block |-> IF x \in L THEN f[x] ELSE nSequenceId[x]] IN
             nSequenceId' = sq /\ candidates' = candidates \cup Promising(L, sq)
      BY <2>1 DEF ReceivedBlockTransactions
    <3>2. /\ nextSeq' \in nextSeq .. MaxSequence /\ linked' = linked \cup L
          /\ unlinked' = Unqueue(L, b)
      BY <2>1 DEF ReceivedBlockTransactions
    <3>3. \A x \in L : f[x] \in Int /\ f[x] >= nextSeq
      BY NumberingFacts
    <3>4. L \subseteq unlinked \cup {b} /\ \A x \in linked \cup L : Branch(x) \subseteq linked \cup L
      BY <2>1, LinkedClosed
    <3>5. candidates' \subseteq linked' /\ \A c \in candidates' : nHeight(c) >= nHeight(tip)
      <4>1. tip \in Block /\ L \subseteq Block /\ \A c \in candidates : nHeight(c) >= nHeight(tip)
        BY ZenonT(60), ShapeFacts DEF NewlyLinked, Shape
      <4>2. nHeight(tip) \in Nat /\ \A x \in L : nHeight(x) \in Nat
        BY <4>1, Heights
      <4>3. \A sq : \A x \in Promising(L, sq) : x \in L /\ nHeight(x) >= nHeight(tip)
        BY <4>2 DEF Promising, Worse
      <4> QED BY <3>1, <3>2, <4>1, <4>3 DEF Shape
    <3>6. nSequenceId' \in [Block -> Int] /\ \A x \in Block \ linked' : nSequenceId'[x] <= 0
      BY ZenonT(60), <3>1, <3>2, <3>3 DEF Shape, TypeOK
    <3>7. nextSeq' \in Nat /\ nextSeq' > 0
      BY <3>2 DEF Shape, TypeOK
    <3>8. linked' \subseteq processed' /\ unlinked' \subseteq processed'
      BY ZenonT(60), <3>2, <3>4 DEF ReceivedBlockTransactions, Shape, Unqueue
    <3> QED BY <1>1, <3>2, <3>4, <3>5, <3>6, <3>7, <3>8
  <2>2. CASE pprev(b) \notin linked
    <3>1. b \notin linked
      <4>1. b \in linked => Branch(b) \subseteq linked
        BY DEF Shape
      <4> QED BY <2>2, <4>1, BranchFacts, GenesisFacts
    <3>2. linked' = linked /\ nSequenceId' = nSequenceId /\ nextSeq' = nextSeq /\ candidates' = candidates
      BY <2>2, <3>1 DEF ReceivedBlockTransactions, seqs
    <3>3. unlinked' \subseteq processed' /\ linked' \subseteq processed'
      BY <2>2, <3>2 DEF ReceivedBlockTransactions, Queue, Shape
    <3> QED BY <1>1, <3>2, <3>3 DEF Shape, TypeOK
  <2> QED BY <2>1, <2>2
<1>4. TypeOK'
  BY <1>1, <1>2, <1>3 DEF Shape, TypeOK, marks, precious
<1>5. StepShape'
  BY ZenonT(60) DEF Shape, StepShape, Protected
<1> QED BY <1>1, <1>3, <1>4, <1>5 DEF Shape, marks

\* Every outcome of AcceptBlock preserves Shape.
LEMMA AcceptBlockShape ==
    ASSUME Shape, NEW b \in Block, NEW requested \in BOOLEAN, AcceptBlock(b, requested)
    PROVE  Shape'
<1>1. CASE HeaderRefused(b)
  BY <1>1, HeaderRefusedShape
<1>2. CASE ~HeaderRefused(b)
  <2>1. /\ HeaderKnown(b) \/ HeaderNew(b)
        /\ index' = index \cup {b} /\ UNCHANGED <<scriptValid, precious, tip, abc>>
    BY <1>2 DEF AcceptBlock
  <2>2. b \in index \/ pprev(b) \in index
    BY <2>1 DEF HeaderKnown, HeaderNew
  <2>3. \A x \in index' : Branch(x) \subseteq index'
    BY <2>1, <2>2, IndexClosed
  <2>4. CASE UNCHANGED <<data, marks, seqs, candidates, unlinked>>
    BY ZenonT(60), <2>1, <2>3, <2>4
       DEF Shape, TypeOK, StepShape, Protected, data, marks, seqs, precious
  <2>5. CASE /\ failedValid' = failedValid \cup {b}
             /\ UNCHANGED <<data, failedChild, unsaved, failedBlocks, seqs, candidates, unlinked>>
    BY ZenonT(60), <2>1, <2>3, <2>5
       DEF Shape, TypeOK, StepShape, Protected, data, seqs, precious
  <2>6. CASE ReceivedBlockTransactions(b) /\ UNCHANGED marks
    BY <2>1, <2>2, <2>6, ReceivedBlockTransactionsShape
  <2> QED BY <1>2, <2>4, <2>5, <2>6 DEF AcceptBlock
<1> QED BY <1>1, <1>2

\* The steps of ActivateBestChain.
LEMMA AbcLockShape ==
    ASSUME Shape, AbcLock
    PROVE  Shape'
<1>1. tip \in Block /\ abc \in AbcState
  BY ShapeFacts
<1>2. abc' = [abc EXCEPT !.pc = "find", !.start = tip]
  BY DEF AbcLock
<1>3. abc' \in AbcState /\ abc'.mostWork = abc.mostWork /\ abc'.pc = "find"
  BY ZenonT(60), <1>1, <1>2 DEF AbcState
<1> QED BY <1>3 DEF AbcLock, Shape, TypeOK, StepShape, data, marks, seqs, precious

\* Dropping a candidate beyond the rollback limit preserves Shape.
LEMMA FindBlockedShape ==
    ASSUME Shape, NEW c \in Block, FindBlocked(c)
    PROVE  Shape'
BY ZenonT(60) DEF FindBlocked, Shape, TypeOK, StepShape, Protected, data, marks, seqs, precious

\* Dropping a failed or incomplete candidate preserves Shape.
LEMMA FindUnusableShape ==
    ASSUME Shape, NEW c \in Block, FindUnusable(c)
    PROVE  Shape'
<1>1. PICK x \in Unusable(c) :
         LET above == {y \in Branch(c) : OnBranch(x, y) /\ y # x} IN
         /\ candidates' = candidates \ (above \cup {x})
         /\ \/ /\ failedChild' = failedChild \cup above
               /\ unsaved' = unsaved \cup (above \ failedChild)
               /\ unlinked' = unlinked
            \/ /\ unlinked' = unlinked \cup above
               /\ failedChild' = failedChild /\ unsaved' = unsaved
  BY DEF FindUnusable, Requeue
<1>2. Branch(c) \subseteq linked
  BY DEF FindUnusable, Examined, Shape
<1>3. /\ candidates' \subseteq candidates /\ failedChild' \subseteq index
      /\ unsaved' \subseteq failedChild' /\ unlinked' \subseteq processed
  BY <1>1, <1>2 DEF Shape, TypeOK
<1> QED BY ZenonT(60), <1>3
           DEF FindUnusable, Shape, TypeOK, StepShape, Protected, data, marks, seqs, precious

\* The end of ActivateBestChain preserves Shape.
LEMMA SettleShape ==
    ASSUME Shape, Settle
    PROVE  Shape'
<1>1. Genesis \in Block
  BY GenesisFacts
<1>2. abc' \in AbcState /\ abc'.mostWork = NoBlock /\ abc'.pc \in {"idle", "free"}
  BY ZenonT(60), <1>1 DEF Settle, Idle, AbcState
<1> QED BY <1>2 DEF Settle, Shape, TypeOK, StepShape, data, marks, seqs, precious

\* A step begins with the protected block on the branch of both the tip and
\* the target.
LEMMA StepBeginShape ==
    ASSUME Shape, NEW c \in Block, StepBegin(c)
    PROVE  Shape'
<1>1. tip \in Block /\ abc \in AbcState /\ Genesis \in Block /\ NoBlock \notin Block
  BY ZenonT(60), ShapeFacts, GenesisFacts, ChainStateAssumption
<1>2. c \in linked /\ nHeight(c) >= nHeight(tip)
  BY <1>1 DEF StepBegin, Found, Examined, Shape
<1>3. CASE ~IsAutomaticReorgAllowed(tip, c)
  <2>1. abc' = Idle
    BY <1>3 DEF StepBegin
  <2>2. abc' \in AbcState /\ abc'.mostWork = NoBlock /\ abc'.pc = "idle"
    BY <1>1, <2>1 DEF Idle, AbcState
  <2> QED BY <2>2 DEF StepBegin, Shape, TypeOK, StepShape, data, marks, seqs, precious
<1>4. CASE IsAutomaticReorgAllowed(tip, c)
  <2>1. abc' = [abc EXCEPT !.pc = UndoOrConnect(tip, c), !.mostWork = c, !.old = tip]
    BY <1>4 DEF StepBegin
  <2>2. /\ abc' \in AbcState /\ abc'.mostWork = c /\ abc'.old = tip
        /\ abc'.pc = UndoOrConnect(tip, c)
    BY ZenonT(60), <1>1, <2>1 DEF AbcState, UndoOrConnect
  <2>3. OnBranch(Protected(tip), tip) /\ OnBranch(Protected(tip), c)
    BY <1>1, <1>4, ProtectedFacts
  <2>4. tip' = tip /\ c # tip
    BY DEF StepBegin
  <2>5. StepShape'
    BY ZenonT(60), <1>1, <2>2, <2>3, <2>4 DEF StepShape, UndoOrConnect, Protected
  <2> QED BY <1>2, <2>2, <2>5 DEF StepBegin, Shape, TypeOK, data, marks, seqs, precious
<1> QED BY <1>3, <1>4

\* AbortNode preserves Shape.
LEMMA StepAbortShape ==
    ASSUME Shape, StepAbort
    PROVE  Shape'
<1>1. Genesis \in Block
  BY GenesisFacts
<1>2. abc' \in AbcState /\ abc'.mostWork = NoBlock /\ abc'.pc = "aborted"
  BY ZenonT(60), <1>1 DEF StepAbort, Idle, AbcState
<1> QED BY <1>2 DEF StepAbort, Shape, TypeOK, StepShape, data, marks, seqs, precious

\* A disconnected block lies above the fork, hence above the protected block.
LEMMA DisconnectTipShape ==
    ASSUME Shape, DisconnectTip
    PROVE  Shape'
<1> DEFINE P == Protected(abc.old)
<1>1. /\ tip \in Block /\ tip \in linked /\ abc \in AbcState /\ abc.old \in Block
      /\ abc.pc = "undo" /\ abc.mostWork \in Block
      /\ OnBranch(P, tip) /\ OnBranch(P, abc.mostWork) /\ ~OnBranch(tip, abc.mostWork)
  BY ShapeFacts DEF DisconnectTip, Shape, StepShape
<1>2. P \in Block /\ P # tip
  BY <1>1, ProtectedFacts
<1> HIDE DEF P
<1>3. tip # Genesis
  BY <1>1, Heights
<1>4. pprev(tip) \in Block /\ OnBranch(P, pprev(tip))
  BY <1>1, <1>2, <1>3, Parent
<1>5. pprev(tip) \in linked
  BY ZenonT(60), <1>1, <1>3, BranchFacts DEF Shape
<1>6. abc' = [abc EXCEPT !.pc = UndoOrConnect(pprev(tip), abc.mostWork)] /\ tip' = pprev(tip)
  BY DEF DisconnectTip
<1>7. /\ abc' \in AbcState /\ abc'.mostWork = abc.mostWork /\ abc'.old = abc.old
      /\ abc'.pc = UndoOrConnect(tip', abc.mostWork)
  BY <1>1, <1>6 DEF AbcState, UndoOrConnect
<1>8. nHeight(tip') <= nHeight(abc.mostWork) /\ tip' # abc.mostWork
  <2>1. nHeight(abc.mostWork) >= nHeight(tip)
    BY ZenonT(60), <1>1, ChainStateAssumption DEF Shape
  <2>2. nHeight(pprev(tip)) = nHeight(tip) - 1 /\ nHeight(tip) \in Nat
    BY ZenonT(60), <1>1, <1>3, Parent, Heights
  <2>3. nHeight(abc.mostWork) \in Nat
    BY <1>1, Heights
  <2> QED BY <1>6, <2>1, <2>2, <2>3
<1>9. StepShape'
  BY <1>1, <1>4, <1>6, <1>7, <1>8, ChainStateAssumption DEF StepShape, P, Protected, UndoOrConnect
<1>10. \A c \in candidates' : nHeight(c) >= nHeight(tip')
  <2>1. nHeight(tip') = nHeight(tip) - 1 /\ nHeight(tip) \in Nat
    BY <1>1, <1>3, <1>6, Parent, Heights
  <2>2. ASSUME NEW c \in candidates PROVE nHeight(c) \in Nat /\ nHeight(c) >= nHeight(tip)
    BY Heights DEF Shape, TypeOK
  <2> QED BY <2>1, <2>2 DEF DisconnectTip
<1>11. TypeOK'
  BY <1>5, <1>6, <1>7 DEF DisconnectTip, Shape, TypeOK, data, marks, seqs, precious
<1> QED BY <1>5, <1>6, <1>7, <1>8, <1>9, <1>10, <1>11
        DEF DisconnectTip, Shape, data, marks, seqs, precious

\* The block to connect is the child of the tip on the way to the target.
LEMMA ConnectingFacts ==
    ASSUME Shape, abc.pc = "connect"
    PROVE  /\ abc.mostWork \in linked /\ abc.mostWork \in Block
           /\ Connecting \in Block /\ Connecting # Genesis /\ pprev(Connecting) = tip
           /\ Connecting \in Branch(abc.mostWork) /\ Connecting \in linked
           /\ nHeight(Connecting) = nHeight(tip) + 1 /\ OnBranch(tip, Connecting)
<1> DEFINE h == nHeight(tip) + 1
<1>1. /\ tip \in Block /\ abc.mostWork \in Block /\ abc.mostWork \in linked
      /\ OnBranch(tip, abc.mostWork) /\ tip # abc.mostWork
  BY ZenonT(60), ShapeFacts DEF Shape, StepShape
<1>2. nHeight(tip) \in Nat /\ nHeight(abc.mostWork) \in Nat
  BY <1>1, Heights
<1>3. nHeight(tip) < nHeight(abc.mostWork)
  BY <1>1, <1>2, OnBranchAntisymmetric DEF nHeight, OnBranch
<1>4. h \in 0 .. nHeight(abc.mostWork)
  BY <1>2, <1>3
<1>5. /\ Connecting \in Block /\ nHeight(Connecting) = h /\ OnBranch(Connecting, abc.mostWork)
  BY <1>1, <1>4, AncestorOnBranch DEF Connecting
<1>6. OnBranch(tip, Connecting)
  BY <1>1, <1>2, <1>5, AncestorsComparable DEF nHeight
<1>7. Connecting # Genesis
  BY <1>2, <1>5, Heights
<1>8. pprev(Connecting) = tip
  <2>1. /\ pprev(Connecting) \in Block /\ nHeight(pprev(Connecting)) = h - 1
        /\ OnBranch(tip, pprev(Connecting))
    <3>1. tip # Connecting
      BY <1>2, <1>5
    <3> QED BY <1>1, <1>5, <1>6, <1>7, <3>1, Parent
  <2>2. Len(pprev(Connecting)) <= Len(tip)
    BY <1>2, <2>1 DEF nHeight
  <2> QED BY <1>1, <2>1, <2>2, OnBranchAntisymmetric
<1>9. Connecting \in linked
  BY <1>1, <1>5 DEF Shape, Branch
<1> QED BY <1>1, <1>5, <1>6, <1>7, <1>8, <1>9 DEF Branch

\* The values StepEnd returns.
LEMMA StepEndFacts ==
    ASSUME Shape, NEW t \in Block, NEW c \in Block \cup {NoBlock}
    PROVE  /\ StepEnd(t, c) \in AbcState
           /\ StepEnd(t, c).pc \in {"idle", "free", "find"}
           /\ StepEnd(t, c).mostWork \in {c, NoBlock}
BY ZenonT(60), ShapeFacts, GenesisFacts DEF StepEnd, AbcState, Idle

\* The next block on the way to the target preserves Shape.
LEMMA ConnectTipShape ==
    ASSUME Shape, ConnectTip
    PROVE  Shape'
<1> DEFINE B == Connecting
           P == Protected(abc.old)
<1>1. /\ abc.mostWork \in linked /\ abc.mostWork \in Block
      /\ B \in Block /\ B \in linked /\ B \in Branch(abc.mostWork) /\ B \in index
      /\ OnBranch(tip, B) /\ nHeight(B) = nHeight(tip) + 1
  BY ZenonT(60), ConnectingFacts, ShapeFacts DEF ConnectTip
<1>2. /\ tip' = B /\ candidates' = PruneBlockIndexCandidates(nSequenceId, candidates, B)
      /\ scriptValid' = IF B \in Failed THEN scriptValid ELSE scriptValid \cup {B}
      /\ unsaved' = unsaved \ {B}
      /\ abc' = IF nChainWork[B] > nChainWork[abc.old] \/ B = abc.mostWork
                 THEN StepEnd(B, abc.mostWork) ELSE abc
  BY ZenonT(60) DEF ConnectTip
<1>3. /\ tip \in Block /\ abc \in AbcState /\ abc.old \in Block
      /\ abc.pc = "connect" /\ OnBranch(P, tip) /\ OnBranch(P, abc.mostWork)
  BY ZenonT(60), ShapeFacts DEF ConnectTip, Shape, StepShape
<1>4. P \in Block
  BY <1>3, ProtectedFacts
<1> HIDE DEF B, P
<1>5. OnBranch(P, B)
  BY <1>1, <1>3, <1>4, OnBranchTransitive
<1>6. /\ abc' \in AbcState /\ abc'.mostWork \in {abc.mostWork, NoBlock}
      /\ abc'.pc \in {"idle", "free", "find"} \/ (abc' = abc /\ B # abc.mostWork)
  BY ZenonT(60), <1>1, <1>2, <1>3, StepEndFacts
<1>7. StepShape'
  BY ZenonT(60), <1>1, <1>2, <1>3, <1>5, <1>6, ChainStateAssumption
     DEF StepShape, P, Branch, Protected
<1>8. candidates' \subseteq candidates /\ \A c \in candidates' : nHeight(c) >= nHeight(tip')
  <2>1. nHeight(B) \in Nat /\ \A c \in candidates : nHeight(c) \in Nat
    BY <1>1, Heights DEF Shape, TypeOK
  <2> QED BY <1>2, <2>1 DEF PruneBlockIndexCandidates, Worse
<1>9. nHeight(abc.mostWork) >= nHeight(tip')
  BY <1>1, <1>2 DEF Branch, OnBranch, nHeight
<1>10. scriptValid' \subseteq txValid /\ unsaved' \subseteq failedChild
  BY ZenonT(60), <1>1, <1>2 DEF Shape, TypeOK
<1>11. TypeOK'
  BY <1>1, <1>2, <1>6, <1>8, <1>10 DEF ConnectTip, Shape, TypeOK, data, seqs, precious
<1> QED BY <1>1, <1>2, <1>6, <1>7, <1>8, <1>9, <1>11 DEF ConnectTip, Shape, data, seqs, precious

\* A block that does not connect is recorded as failed in both places.
LEMMA ConnectTipInvalidShape ==
    ASSUME Shape, ConnectTipInvalid
    PROVE  Shape'
<1> DEFINE B == Connecting
<1>1. B \in index
  BY ConnectingFacts, ShapeFacts DEF ConnectTipInvalid
<1>2. /\ failedValid' = failedValid \cup {B} /\ failedBlocks' = failedBlocks \cup {B}
      /\ unsaved' = unsaved \ {B} /\ candidates' = candidates \ {B}
      /\ abc' = StepEnd(tip, NoBlock)
  BY DEF ConnectTipInvalid
<1> HIDE DEF B
<1>3. /\ abc' \in AbcState /\ abc'.mostWork = NoBlock /\ abc'.pc \in {"idle", "free", "find"}
  BY <1>2, StepEndFacts, ShapeFacts
<1> QED BY ZenonT(60), <1>1, <1>2, <1>3
           DEF ConnectTipInvalid, Shape, TypeOK, StepShape, data, seqs, precious

\* The operator's calls, pruning and restarts.
LEMMA InvalidateBlockShape ==
    ASSUME Shape, NEW b \in Block, InvalidateBlock(b)
    PROVE  Shape'
<1> DEFINE above == IF OnBranch(b, tip) THEN {x \in Branch(tip) : OnBranch(b, x) /\ x # b} ELSE {}
           newTip == IF OnBranch(b, tip) THEN pprev(b) ELSE tip
           nowFailed == Failed \cup above \cup {b}
<1>1. /\ tip' = newTip /\ failedChild' = failedChild \cup above /\ failedValid' = failedValid \cup {b}
      /\ failedBlocks' = failedBlocks \cup {b} /\ unsaved' = unsaved \ (above \cup {b})
      /\ candidates' = (candidates \ (above \cup {b})) \cup Readmitted(newTip, nowFailed)
      /\ b \in index /\ b # Genesis /\ abc' = abc /\ abc.pc \in {"idle", "free"}
  BY ZenonT(60) DEF InvalidateBlock, csMainFree
<1>2. tip \in Block /\ tip \in linked /\ Branch(tip) \subseteq linked /\ Branch(tip) \subseteq index
  BY ZenonT(60), ShapeFacts DEF Shape, TypeOK
<1>3. newTip \in linked /\ newTip \in Block /\ nHeight(newTip) <= nHeight(tip)
  <2>1. CASE OnBranch(b, tip)
    <3>1. /\ pprev(b) \in Block /\ OnBranch(pprev(b), b) /\ nHeight(pprev(b)) = nHeight(b) - 1
      BY ZenonT(60), <1>1, Parent
    <3>2. pprev(b) \in Branch(tip)
      BY <1>2, <2>1, <3>1, OnBranchTransitive DEF Branch
    <3>3. nHeight(pprev(b)) <= nHeight(tip)
      BY <3>2 DEF Branch, OnBranch, nHeight
    <3> QED BY <1>2, <2>1, <3>1, <3>2, <3>3
  <2>2. CASE ~OnBranch(b, tip)
    BY <1>2, <2>2, Heights
  <2> QED BY <2>1, <2>2
<1>4. above \subseteq index
  BY <1>2
<1>5. Readmitted(newTip, nowFailed) \subseteq linked
  BY DEF Readmitted
<1>6. \A c \in Readmitted(newTip, nowFailed) : nHeight(c) >= nHeight(newTip)
  <2>1. nHeight(newTip) \in Nat /\ \A c \in linked : nHeight(c) \in Nat
    BY <1>3, Heights, ShapeFacts
  <2>2. ASSUME NEW c \in linked, ~Worse(nSequenceId, c, newTip) PROVE nHeight(c) >= nHeight(newTip)
    BY <2>1, <2>2 DEF Worse
  <2>3. \A c \in Readmitted(newTip, nowFailed) : c \in linked /\ ~Worse(nSequenceId, c, newTip)
    BY DEF Readmitted
  <2> QED BY <2>2, <2>3
<1> HIDE DEF above, newTip, nowFailed
<1>7. \A c \in candidates' : c \in linked /\ nHeight(c) >= nHeight(tip')
  <2>1. ASSUME NEW c \in candidates PROVE c \in linked /\ nHeight(c) >= nHeight(newTip)
    <3>1. c \in linked /\ c \in Block /\ nHeight(c) >= nHeight(tip)
      BY ZenonT(60), ShapeFacts DEF Shape
    <3> QED BY <1>2, <1>3, <3>1, Heights
  <2> QED BY <1>1, <1>5, <1>6, <2>1
<1>8. abc.mostWork # NoBlock => nHeight(abc.mostWork) >= nHeight(tip')
  <2>1. ASSUME abc.mostWork # NoBlock PROVE nHeight(abc.mostWork) >= nHeight(tip')
    <3>1. abc.mostWork \in Block /\ nHeight(abc.mostWork) >= nHeight(tip)
      BY ZenonT(60), <2>1, ShapeFacts DEF Shape
    <3> QED BY <1>1, <1>2, <1>3, <3>1, Heights
  <2> QED BY <2>1
<1>9. TypeOK'
  BY ZenonT(60), <1>1, <1>3, <1>4, <1>7 DEF InvalidateBlock, Shape, TypeOK, data, seqs, precious
<1>10. StepShape'
  BY <1>1 DEF StepShape
<1> QED BY ZenonT(60), <1>1, <1>3, <1>7, <1>8, <1>9, <1>10
           DEF InvalidateBlock, Shape, data, seqs, precious

\* The comparator of setBlockIndexCandidates looks at the height first.
LEMMA WorseHeight ==
    ASSUME NEW a \in Block, NEW b \in Block, NEW sq
    PROVE  /\ Worse(sq, a, b) => nHeight(b) >= nHeight(a)
           /\ nHeight(a) > nHeight(b) => ~Worse(sq, a, b)
<1>1. nHeight(a) \in Nat /\ nHeight(b) \in Nat
  BY Heights
<1> HIDE DEF nHeight
<1> QED BY <1>1 DEF Worse

\* reconsiderblock takes its blocks out of m_failed_blocks with their flags.
LEMMA ResetBlockFailureFlagsShape ==
    ASSUME Shape, NEW b \in Block, ResetBlockFailureFlags(b)
    PROVE  Shape'
<1>1. PICK below, reset :
         /\ failedValid' = failedValid \ reset /\ failedChild' = failedChild \ reset
         /\ failedBlocks' = failedBlocks \ reset /\ unsaved' = unsaved \ reset
         /\ candidates' = candidates \cup Revived(below)
  BY ZenonT(60) DEF ResetBlockFailureFlags
<1>2. \A c \in Revived(below) : c \in linked /\ nHeight(c) >= nHeight(tip)
  <2>1. tip \in Block /\ linked \subseteq Block
    BY ShapeFacts
  <2>2. \A c \in linked : Worse(nSequenceId, tip, c) => nHeight(c) >= nHeight(tip)
    BY <2>1, WorseHeight
  <2> QED BY <2>2 DEF Revived
<1>3. candidates' \subseteq index
  BY ZenonT(60), <1>1, <1>2 DEF Shape, TypeOK
<1> QED BY ZenonT(60), <1>1, <1>2, <1>3
        DEF ResetBlockFailureFlags, Shape, TypeOK, StepShape, Protected, data, seqs, precious

\* preciousblock gives negative sequence ids only.
LEMMA PreciousBlockShape ==
    ASSUME Shape, NEW b \in Block, PreciousBlock(b)
    PROVE  Shape'
<1>1. PICK reverse :
         /\ reverse = IF nHeight(tip) > lastPrecious THEN -1 ELSE nextReverse
         /\ nSequenceId' = [nSequenceId EXCEPT ![b] = reverse]
         /\ nextReverse' = NextReverse(reverse)
         /\ candidates' = IF b \in (txValid \cap linked) \ Failed
                          THEN PruneBlockIndexCandidates(nSequenceId', candidates \cup {b}, tip)
                          ELSE candidates \ {b}
  BY ZenonT(60) DEF PreciousBlock
<1>2. nextReverse \in MinReverseId .. -1 /\ MinReverseId \in Int /\ MinReverseId < 0
  BY ZenonT(60), ChainStateAssumption DEF Shape, TypeOK
<1>3. reverse \in MinReverseId .. -1
  BY <1>1, <1>2
<1>4. nextReverse' \in MinReverseId .. -1
  BY <1>1, <1>2, <1>3 DEF NextReverse
<1>5. lastPrecious' \in Nat /\ nHeight(b) >= nHeight(tip)
  BY ZenonT(60), ShapeFacts, Heights DEF PreciousBlock
<1>6. /\ nSequenceId' \in [Block -> Int]
      /\ \A x \in Block \ linked : nSequenceId'[x] <= 0
  BY <1>1, <1>2, <1>3 DEF Shape, TypeOK
<1>7. candidates' \subseteq linked /\ \A c \in candidates' : nHeight(c) >= nHeight(tip)
  BY <1>1, <1>5 DEF Shape, PruneBlockIndexCandidates
<1>8. TypeOK'
  BY ZenonT(60), <1>4, <1>5, <1>6, <1>7 DEF PreciousBlock, Shape, TypeOK, data, marks
<1>9. StepShape'
  BY DEF PreciousBlock, csMainFree, StepShape
<1> QED BY ZenonT(60), <1>6, <1>7, <1>8, <1>9 DEF PreciousBlock, Shape, data, marks

\* Pruning takes data away and nothing else.
LEMMA PruneOneBlockFileShape ==
    ASSUME Shape, NEW b \in Block, PruneOneBlockFile(b)
    PROVE  Shape'
BY ZenonT(60) DEF PruneOneBlockFile, Shape, TypeOK, StepShape, Protected, seqs, precious

\* LoadBlockIndex links again what was linked.
LEMMA RestartLinks ==
    ASSUME Shape, Restart
    PROVE  /\ linked \subseteq linked' /\ linked' \subseteq processed
           /\ \A b \in linked' : Branch(b) \subseteq linked'
<1>1. linked' = {b \in index : Branch(b) \subseteq processed}
  BY DEF Restart
<1>2. linked \subseteq linked'
  BY <1>1 DEF Shape, TypeOK
<1>3. linked' \subseteq processed
  BY ZenonT(60), <1>1, BranchFacts, ShapeFacts
<1>4. ASSUME NEW b \in linked' PROVE Branch(b) \subseteq linked'
  <2>1. Branch(b) \subseteq index /\ Branch(b) \subseteq processed /\ b \in Block
    BY <1>1, <1>4 DEF Shape, TypeOK
  <2>2. \A a \in Branch(b) : Branch(a) \subseteq processed
    BY <2>1, BranchFacts
  <2> QED BY <1>1, <2>1, <2>2
<1> QED BY <1>2, <1>3, <1>4

\* What LoadBlockIndex rebuilds satisfies Shape.
LEMMA RestartShape ==
    ASSUME Shape, Restart
    PROVE  Shape'
<1>1. /\ linked \subseteq linked' /\ linked' \subseteq processed
      /\ \A b \in linked' : Branch(b) \subseteq linked'
  BY RestartLinks
<1>2. PICK closed, saved :
         /\ closed \subseteq index
         /\ failedChild' = (failedChild \ unsaved) \cup (closed \ saved)
         /\ candidates' = PruneBlockIndexCandidates([x \in Block |-> 0], LoadedCandidates(linked', closed), tip)
  BY ZenonT(60) DEF Restart
<1>3. failedChild' \subseteq index
  BY <1>2 DEF Shape, TypeOK
<1>4. candidates' \subseteq linked' /\ \A c \in candidates' : nHeight(c) >= nHeight(tip)
  <2>1. LoadedCandidates(linked', closed) \subseteq linked' /\ linked' \subseteq Block /\ tip \in Block
    BY <1>1, ShapeFacts DEF LoadedCandidates
  <2>2. nHeight(tip) \in Nat /\ \A c \in linked' : nHeight(c) \in Nat
    BY <2>1, Heights
  <2> QED BY <1>2, <2>1, <2>2 DEF PruneBlockIndexCandidates, Worse
<1>5. unlinked' \subseteq processed
  BY DEF Restart, LoadedUnlinked
<1>6. nSequenceId' = [x \in Block |-> 0]
  BY DEF Restart
<1>7. nextReverse' \in MinReverseId .. -1 /\ lastPrecious' \in Nat /\ nextSeq' = 1
  BY ChainStateAssumption DEF Restart
<1>8. abc' \in AbcState /\ abc'.mostWork = NoBlock /\ abc'.pc = "idle"
  BY ZenonT(60), GenesisFacts DEF Restart, Idle, AbcState
<1>9. TypeOK'
  <2>1. /\ UNCHANGED <<index, haveData, processed, txValid, scriptValid, failedValid, tip>>
        /\ failedBlocks' = {} /\ unsaved' = {}
    BY DEF Restart
  <2>2. nSequenceId' \in [Block -> Int] /\ nextSeq' \in Nat
    BY <1>6, <1>7
  <2> QED BY ZenonT(60), <1>1, <1>3, <1>4, <1>5, <1>7, <1>8, <2>1, <2>2 DEF Shape, TypeOK
<1>10. StepShape'
  BY <1>8 DEF StepShape
<1>11. /\ processed' = processed /\ txValid' = txValid /\ tip' = tip /\ failedBlocks' = {}
  BY DEF Restart
<1>12. /\ processed' = txValid' /\ linked' \subseteq processed' /\ tip' \in linked'
       /\ unlinked' \subseteq processed' /\ candidates' \subseteq linked'
       /\ \A c \in candidates' : nHeight(c) >= nHeight(tip')
  BY ZenonT(60), <1>1, <1>4, <1>5, <1>11 DEF Shape
<1>13. (\A b \in Block \ linked' : nSequenceId'[b] <= 0) /\ nextSeq' > 0
  BY <1>6, <1>7
<1> QED BY ZenonT(60), <1>1, <1>8, <1>9, <1>10, <1>11, <1>12, <1>13 DEF Shape

\* Shape is inductive.
LEMMA NextShape == Shape /\ [Next]_vars => Shape'
<1> SUFFICES ASSUME Shape, [Next]_vars PROVE Shape'
  OBVIOUS
<1>1. CASE Activate
  BY <1>1, AbcLockShape, SettleShape, StepAbortShape, DisconnectTipShape, ConnectTipShape,
     ConnectTipInvalidShape, FindBlockedShape, FindUnusableShape, StepBeginShape DEF Activate
<1>2. CASE Arrive
  BY <1>2, AcceptBlockHeaderShape, AcceptBlockShape DEF Arrive
<1>3. CASE Operate
  BY <1>3, InvalidateBlockShape, ResetBlockFailureFlagsShape, PreciousBlockShape,
     PruneOneBlockFileShape, RestartShape DEF Operate
<1>4. CASE UNCHANGED vars
  BY <1>4 DEF vars, data, marks, seqs, precious, Shape, TypeOK, StepShape, Protected
<1> QED BY <1>1, <1>2, <1>3, <1>4 DEF Next

-----------------------------------------------------------------------------
(* What follows from Shape.                                                *)

\* Shape holds in every reachable state, whatever the operator does.
THEOREM ShapeHolds == Spec => []Shape
<1>1. Init => Shape
  BY InitShape
<1>2. Shape /\ [Next]_vars => Shape'
  BY NextShape
<1> QED BY <1>1, <1>2, PTL DEF Spec

\* CChainState keeps its types: mapBlockIndex is closed under ancestors and
\* the reverse counter of preciousblock stays in the range of int32_t.
THEOREM TypeCorrect == Spec => []TypeOK
<1>1. Shape => TypeOK
  BY DEF Shape
<1> QED BY <1>1, ShapeHolds, PTL

\* nChainTx is set only for blocks whose whole branch has been received.
THEOREM LinkedIsSound == Spec => []LinkedSound
<1>1. Shape => LinkedSound
  BY ZenonT(60) DEF Shape, TypeOK, LinkedSound
<1> QED BY <1>1, ShapeHolds, PTL

\* The assert of AcceptBlockHeader on m_failed_blocks cannot fail.
THEOREM FailedBlocksAreMarked == Spec => []FailedBlocksMarked
<1>1. Shape => FailedBlocksMarked
  BY DEF Shape, FailedBlocksMarked
<1> QED BY <1>1, ShapeHolds, PTL

\* One ActivateBestChainStep never disconnects more than MaxReorgDepth blocks.
THEOREM StepRespectsRollbackLimit == Spec => []StepRollbackLimit
<1>1. ASSUME Shape PROVE StepRollbackLimit
  <2> SUFFICES ASSUME abc.pc \in {"undo", "connect"}, NEW a \in Branch(abc.old),
                      nHeight(a) + MaxReorgDepth <= nHeight(abc.old)
               PROVE  OnBranch(a, tip)
    BY DEF StepRollbackLimit
  <2>1. abc.old \in Block /\ tip \in Block /\ OnBranch(Protected(abc.old), tip)
    BY ZenonT(60), <1>1, ShapeFacts DEF Shape, StepShape
  <2>2. Protected(abc.old) \in Block /\ OnBranch(a, Protected(abc.old)) /\ a \in Block
    BY <2>1, ProtectedFacts DEF Branch
  <2> QED BY <2>1, <2>2, OnBranchTransitive
<1> QED BY <1>1, ShapeHolds, PTL

-----------------------------------------------------------------------------
(* Sound is inductive without invalidateblock.                             *)

\* The state after LoadGenesisBlock satisfies Sound.
LEMMA InitSound == Init => Sound
BY ZenonT(60), GenesisFacts, ChainStateAssumption
   DEF Init, Idle, Sound, ActiveValid, Failed, ContextualCheckBlock, ScriptsValidPrefix

\* Marks that spread upwards from a failed block do not reach a branch that
\* is free of failed blocks.
LEMMA MarksStayOff ==
    ASSUME NEW b \in Block, NEW f \in Block, f \notin Branch(b)
    PROVE  \A x \in Branch(b) : ~OnBranch(f, x)
BY OnBranchTransitive DEF Branch

\* More marks, away from the active chain and from the cached target.
LEMMA MarksSound ==
    ASSUME Sound, UNCHANGED <<processed, scriptValid, tip>>,
           abc'.mostWork \in {abc.mostWork, NoBlock},
           Branch(tip) \cap Failed' = {},
           abc'.mostWork # NoBlock => Branch(abc.mostWork) \cap Failed' = {}
    PROVE  Sound'
BY ZenonT(60)
   DEF Sound, ActiveValid, ScriptsValidPrefix, ContextualCheckBlock, Branch, OnBranch, Failed

\* The marks of a refused header lie above a failed block, hence off the
\* active chain.
LEMMA HeaderRefusedSound ==
    ASSUME Shape, Sound, NEW b \in Block, HeaderRefused(b)
    PROVE  Sound'
<1>1. PICK f \in FailedAncestors(b) :
         failedChild' = failedChild \cup {x \in Branch(pprev(b)) : OnBranch(f, x) /\ x # f}
  BY DEF HeaderRefused
<1>2. f \in Block /\ f \in Failed
  BY ZenonT(60) DEF FailedAncestors, Failed, Shape, TypeOK
<1>3. ASSUME NEW t \in Block, Branch(t) \cap Failed = {} PROVE Branch(t) \cap Failed' = {}
  <2>1. \A x \in Branch(t) : ~OnBranch(f, x)
    BY <1>2, <1>3, MarksStayOff
  <2> QED BY ZenonT(60), <1>1, <1>3, <2>1 DEF HeaderRefused, Failed
<1>4. tip \in Block /\ (abc.mostWork # NoBlock => abc.mostWork \in Block)
  BY ShapeFacts
<1> QED BY ZenonT(60), <1>3, <1>4, MarksSound DEF HeaderRefused, Sound, ActiveValid, data

\* A block that arrives and fails was not processed, so nothing was connected
\* above it.
LEMMA ArriveSound ==
    ASSUME Shape, Sound, Arrive
    PROVE  Sound'
<1>1. ASSUME NEW b \in Block, AcceptBlockHeader(b) PROVE Sound'
  BY ZenonT(60), <1>1, HeaderRefusedSound, MarksSound
     DEF AcceptBlockHeader, Sound, ActiveValid, Failed, data, marks
<1>2. ASSUME NEW b \in Block, NEW requested \in BOOLEAN, AcceptBlock(b, requested) PROVE Sound'
  <2>1. CASE HeaderRefused(b)
    BY <1>2, <2>1, HeaderRefusedSound
  <2>2. CASE UNCHANGED <<data, marks, scriptValid, tip, abc>>
    BY ZenonT(60), <2>2, MarksSound DEF Sound, ActiveValid, Failed, data, marks
  <2>3. CASE /\ ~Declined(b, requested) /\ ~ContextualCheckBlock(b)
             /\ failedValid' = failedValid \cup {b}
             /\ UNCHANGED <<data, failedChild, scriptValid, tip, abc>>
    <3>1. b \notin processed
      BY <2>3 DEF Sound
    <3>2. ASSUME NEW t \in linked PROVE b \notin Branch(t)
      BY ZenonT(60), <3>1 DEF Shape
    <3>3. Branch(tip) \cap Failed' = {} /\ (abc.mostWork # NoBlock => Branch(abc.mostWork) \cap Failed' = {})
      BY ZenonT(60), <2>3, <3>2 DEF Shape, Sound, ActiveValid, Failed
    <3> QED BY <2>3, <3>3, MarksSound DEF data
  <2>4. CASE /\ ContextualCheckBlock(b) /\ processed' = processed \cup {b}
             /\ UNCHANGED <<marks, scriptValid, tip, abc>>
    BY ZenonT(60), <2>4
       DEF Sound, ActiveValid, ScriptsValidPrefix, ContextualCheckBlock, Failed, marks
  <2> QED BY ZenonT(60), <1>2, <2>1, <2>2, <2>3, <2>4 DEF AcceptBlock, ReceivedBlockTransactions
<1> QED BY <1>1, <1>2 DEF Arrive

\* ActivateBestChain connects what FindMostWorkChain found free of failed
\* blocks, and marks blocks above the active chain only.
LEMMA ActivateSound ==
    ASSUME Shape, Sound, Activate
    PROVE  Sound'
<1>0. tip \in Block /\ (abc.mostWork # NoBlock => abc.mostWork \in Block) /\ NoBlock \notin Block
  BY ShapeFacts, ChainStateAssumption
<1>1. CASE AbcLock \/ Settle \/ StepAbort
  <2>1. /\ abc'.mostWork \in {abc.mostWork, NoBlock}
        /\ UNCHANGED <<data, marks, scriptValid, tip>>
    <3>1. CASE AbcLock
      BY <3>1, ShapeFacts DEF AbcLock, AbcState
    <3>2. CASE Settle
      BY <3>2 DEF Settle, Idle
    <3>3. CASE StepAbort
      BY <3>3 DEF StepAbort, Idle
    <3> QED BY <1>1, <3>1, <3>2, <3>3
  <2>2. Failed' = Failed /\ UNCHANGED <<processed, scriptValid, tip>>
    BY ZenonT(60), <2>1 DEF Failed, data, marks
  <2>3. abc'.mostWork # NoBlock => abc'.mostWork = abc.mostWork
    BY ZenonT(60), <2>1
  <2> QED BY ZenonT(60), <2>1, <2>2, <2>3, MarksSound DEF Sound, ActiveValid
<1>2. ASSUME NEW c \in Block, FindBlocked(c) PROVE Sound'
  BY ZenonT(60), <1>2, MarksSound DEF FindBlocked, Sound, ActiveValid, Failed, data, marks
<1>3. ASSUME NEW c \in Block, FindUnusable(c) PROVE Sound'
  <2>1. PICK x \in Unusable(c) :
           failedChild' \subseteq failedChild \cup {y \in Branch(c) : OnBranch(x, y) /\ y # x}
    BY ZenonT(60), <1>3 DEF FindUnusable
  <2>2. x \in Block /\ x \notin Branch(tip)
    BY <1>3, <2>1 DEF Unusable, Branch
  <2>3. \A y \in Branch(tip) : ~OnBranch(x, y)
    BY <1>0, <2>2, MarksStayOff
  <2>4. Branch(tip) \cap Failed' = {}
    BY ZenonT(60), <1>3, <2>1, <2>3 DEF FindUnusable, Sound, ActiveValid, Failed
  <2>5. abc.mostWork = NoBlock /\ abc' = abc /\ UNCHANGED <<processed, scriptValid, tip>>
    BY ZenonT(60), <1>3 DEF FindUnusable, Examined, data
  <2> QED BY <2>4, <2>5, MarksSound
<1>4. ASSUME NEW c \in Block, StepBegin(c) PROVE Sound'
  <2>1. Branch(c) \cap Failed = {}
    <3>1. CASE abc.mostWork = c
      BY <1>0, <1>4, <3>1 DEF Sound
    <3>2. CASE Found(c)
      BY <3>2 DEF Found, Unusable, Sound, ActiveValid
    <3> QED BY <1>4, <3>1, <3>2 DEF StepBegin
  <2>2. abc'.mostWork \in {c, NoBlock} /\ UNCHANGED <<data, marks, scriptValid, tip>>
    BY <1>4, ShapeFacts DEF StepBegin, Idle, AbcState
  <2> QED BY ZenonT(60), <2>1, <2>2
             DEF Sound, ActiveValid, ScriptsValidPrefix, ContextualCheckBlock, Failed, data, marks
<1>5. CASE DisconnectTip
  <2>1. Branch(pprev(tip)) \subseteq Branch(tip)
    BY <1>0, BranchFacts, GenesisFacts
  <2>2. abc'.mostWork = abc.mostWork /\ tip' = pprev(tip) /\ UNCHANGED <<data, marks, scriptValid>>
    BY <1>5, ShapeFacts DEF DisconnectTip, AbcState
  <2> QED BY ZenonT(60), <2>1, <2>2
             DEF Sound, ActiveValid, ScriptsValidPrefix, ContextualCheckBlock, Failed, data, marks
<1>6. CASE ConnectTip
  <2> DEFINE B == Connecting
  <2>1. /\ abc.mostWork \in Block /\ B \in Block /\ B # Genesis /\ pprev(B) = tip
        /\ B \in Branch(abc.mostWork)
    BY <1>6, ConnectingFacts DEF ConnectTip
  <2>2. /\ tip' = B /\ scriptValid' = IF B \in Failed THEN scriptValid ELSE scriptValid \cup {B}
        /\ UNCHANGED <<data, failedValid, failedChild>>
        /\ abc' = IF nChainWork[B] > nChainWork[abc.old] \/ B = abc.mostWork
                   THEN StepEnd(B, abc.mostWork) ELSE abc
    BY <1>6 DEF ConnectTip
  <2> HIDE DEF B
  <2>3. abc'.mostWork \in {abc.mostWork, NoBlock}
    BY ZenonT(60), <2>1, <2>2, StepEndFacts
  <2>4. Branch(B) \cap Failed = {} /\ B \in Branch(B) /\ Branch(B) = Branch(tip) \cup {B}
    BY <1>0, <2>1, BranchFacts DEF Sound
  <2>5. scriptValid' = scriptValid \cup {B}
    BY ZenonT(60), <2>2, <2>4
  <2>6. Branch(B) \ {Genesis} \subseteq scriptValid'
    BY <2>4, <2>5 DEF Sound
  <2>7. ScriptsValidPrefix'
    BY <2>5, <2>6 DEF Sound, ScriptsValidPrefix
  <2> QED BY <2>2, <2>3, <2>4, <2>6, <2>7 DEF Sound, ActiveValid, ContextualCheckBlock, Failed, data
<1>7. CASE ConnectTipInvalid
  <2> DEFINE B == Connecting
  <2>1. B \in Block /\ B # Genesis /\ pprev(B) = tip
    BY <1>7, ConnectingFacts DEF ConnectTipInvalid
  <2>2. /\ failedValid' = failedValid \cup {B} /\ abc' = StepEnd(tip, NoBlock)
        /\ UNCHANGED <<data, scriptValid, failedChild, tip>>
    BY <1>7 DEF ConnectTipInvalid
  <2> HIDE DEF B
  <2>3. abc'.mostWork = NoBlock
    BY ZenonT(60), <1>0, <2>2, StepEndFacts
  <2>4. B \notin Branch(tip)
    BY <2>1, BranchFacts
  <2> QED BY <2>2, <2>3, <2>4, MarksSound DEF Sound, ActiveValid, Failed, data
<1> QED BY <1>1, <1>2, <1>3, <1>4, <1>5, <1>6, <1>7 DEF Activate

\* The operator's calls other than invalidateblock preserve Sound.
LEMMA OperateSound ==
    ASSUME Shape, Sound, Operate, "invalidateblock" \notin Ops
    PROVE  Sound'
<1>0. tip \in Block /\ (abc.mostWork # NoBlock => abc.mostWork \in Block) /\ index \subseteq Block
  BY ShapeFacts
<1>1. ASSUME NEW b \in Block, ResetBlockFailureFlags(b) PROVE Sound'
  <2>1. failedValid' \subseteq failedValid /\ failedChild' \subseteq failedChild
    BY ZenonT(60), <1>1 DEF ResetBlockFailureFlags
  <2> QED BY ZenonT(60), <1>1, <2>1, MarksSound
             DEF ResetBlockFailureFlags, Sound, ActiveValid, Failed, data
<1>2. ASSUME NEW b \in Block, PreciousBlock(b) PROVE Sound'
  BY ZenonT(60), <1>2, MarksSound DEF PreciousBlock, Sound, ActiveValid, Failed, data, marks
<1>3. ASSUME NEW b \in Block, PruneOneBlockFile(b) PROVE Sound'
  BY ZenonT(60), <1>3, MarksSound DEF PruneOneBlockFile, Sound, ActiveValid, Failed
<1>4. CASE Restart
  <2>1. ASSUME NEW x \in Branch(tip), x \in Failed' PROVE FALSE
    <3>1. PICK f \in Failed : f \in index /\ OnBranch(f, x)
      <4>1. x \in Block
        BY DEF Branch
      <4>2. x \in Failed \/ \E f \in Failed : f \in index /\ OnBranch(f, x)
        BY ZenonT(60), <1>4, <2>1 DEF Restart, Failed, Shape, TypeOK
      <4> QED BY ZenonT(60), <4>1, <4>2, OnBranchReflexive DEF Failed, Shape, TypeOK
    <3>2. f \notin Branch(tip)
      BY DEF Sound, ActiveValid
    <3> QED BY <1>0, <3>1, <3>2, MarksStayOff
  <2>2. abc'.mostWork = NoBlock /\ UNCHANGED <<processed, scriptValid, tip>>
    BY ZenonT(60), <1>4 DEF Restart, Idle
  <2> QED BY <2>1, <2>2, MarksSound
<1> QED BY ZenonT(60), <1>1, <1>2, <1>3, <1>4 DEF Operate, InvalidateBlock

\* Sound holds in every reachable state of a node without invalidateblock.
THEOREM SoundHolds ==
    ASSUME "invalidateblock" \notin Ops
    PROVE  Spec => []Sound
<1>1. Init => Sound
  BY InitSound
<1>2. Shape /\ Sound /\ [Next]_vars => Sound'
  <2>1. ASSUME Shape, Sound, UNCHANGED vars PROVE Sound'
    BY ZenonT(60), <2>1, MarksSound DEF vars, data, marks, Sound, ActiveValid, Failed
  <2> QED BY <2>1, ActivateSound, ArriveSound, OperateSound DEF Next
<1> QED BY <1>1, <1>2, ShapeHolds, PTL DEF Spec

\* FindMostWorkChain may stop its walk at the active chain: without
\* invalidateblock, no block of the active chain is ever marked failed.
THEOREM ActiveIsValid ==
    ASSUME "invalidateblock" \notin Ops
    PROVE  Spec => []ActiveValid
<1>1. Sound => ActiveValid
  BY DEF Sound
<1> QED BY <1>1, SoundHolds, PTL

\* Without invalidateblock, a block whose scripts were verified by ConnectTip
\* has only such ancestors, as CheckBlockIndex asserts.
THEOREM ScriptsAreValidPrefix ==
    ASSUME "invalidateblock" \notin Ops
    PROVE  Spec => []ScriptsValidPrefix
<1>1. Sound => ScriptsValidPrefix
  BY DEF Sound
<1> QED BY <1>1, SoundHolds, PTL

-----------------------------------------------------------------------------
(* Ordered is inductive without invalidateblock and pruning.               *)

\* A block that sorts after the tip does not sort before it.
LEMMA WorseAsymmetric ==
    ASSUME NEW sq \in [Block -> Int], NEW a \in Block, NEW b \in Block, Worse(sq, a, b)
    PROVE  ~Worse(sq, b, a)
<1>1. nHeight(a) \in Nat /\ nHeight(b) \in Nat /\ Addr[a] \in Nat /\ Addr[b] \in Nat
      /\ sq[a] \in Int /\ sq[b] \in Int
  BY ZenonT(60), Heights, ChainStateAssumption
<1> QED BY <1>1 DEF Worse

\* The state after LoadGenesisBlock satisfies Ordered.
LEMMA InitOrdered == Init => Ordered
<1>1. nHeight(Genesis) \in Nat /\ Addr[Genesis] \in Nat /\ Genesis \in Block
  BY ZenonT(60), Heights, GenesisFacts, ChainStateAssumption
<1> QED BY <1>1 DEF Init, Ordered, Worse

\* Fewer candidates for the same tip, the keys being the same.
LEMMA SameKeysOrdered ==
    ASSUME Ordered, UNCHANGED <<haveData, processed, linked, nSequenceId, tip>>,
           unlinked' \subseteq unlinked,
           \A c \in candidates' \ candidates : ~Worse(nSequenceId, c, tip)
    PROVE  Ordered'
BY ZenonT(60) DEF Ordered, Worse

\* The blocks that get nChainTx did not have it before.
LEMMA NewlyLinkedFresh ==
    ASSUME Shape, Ordered, NEW b \in Block, b \notin haveData, pprev(b) \in linked
    PROVE  NewlyLinked(b) \cap linked = {} /\ b \notin linked /\ b \notin unlinked
<1>1. b \notin linked /\ b \notin unlinked
  BY ZenonT(60) DEF Shape, Ordered
<1>2. NewlyLinked(b) \subseteq unlinked \cup {b}
  BY LinkedClosed
<1> QED BY <1>1, <1>2 DEF Ordered

\* Received data changes the sequence ids of newly linked blocks only, and
\* those are not candidates yet.
LEMMA ReceivedBlockTransactionsOrdered ==
    ASSUME Shape, Ordered, NEW b \in Block, b \notin haveData, ReceivedBlockTransactions(b), tip' = tip
    PROVE  Ordered' /\ \A c \in candidates : nSequenceId'[c] = nSequenceId[c]
<1>1. CASE pprev(b) \in linked
  <2> DEFINE L == NewlyLinked(b)
  <2>1. L \cap linked = {} /\ b \notin linked /\ b \notin unlinked /\ L \subseteq unlinked \cup {b}
    BY ZenonT(60), <1>1, NewlyLinkedFresh, LinkedClosed
  <2>2. PICK f \in Numberings(L, b) :
           LET sq == [x \in Block |-> IF x \in L THEN f[x] ELSE nSequenceId[x]] IN
           nSequenceId' = sq /\ candidates' = candidates \cup Promising(L, sq)
    BY ZenonT(60), <1>1 DEF ReceivedBlockTransactions
  <2>3. /\ linked' = linked \cup L /\ unlinked' = unlinked \ (L \ {b})
        /\ haveData' = haveData \cup {b} /\ processed' = processed \cup {b}
    BY <1>1 DEF ReceivedBlockTransactions, Unqueue
  <2> HIDE DEF L
  <2>4. \A x \in linked : nSequenceId'[x] = nSequenceId[x]
    BY <2>1, <2>2, ShapeFacts
  <2>5. candidates \subseteq linked /\ tip \in linked
    BY ZenonT(60) DEF Shape
  <2>6. \A c \in candidates' : ~Worse(nSequenceId', c, tip)
    <3>1. ASSUME NEW c \in candidates PROVE ~Worse(nSequenceId', c, tip)
      BY ZenonT(60), <2>4, <2>5 DEF Ordered, Worse
    <3>2. ASSUME NEW c \in Promising(L, nSequenceId') PROVE ~Worse(nSequenceId', c, tip)
      BY DEF Promising
    <3> QED BY ZenonT(60), <2>2, <3>1, <3>2
  <2>7. unlinked' \cap linked' = {}
    BY ZenonT(60), <2>1, <2>3 DEF Ordered
  <2> QED BY ZenonT(60), <2>3, <2>4, <2>5, <2>6, <2>7 DEF Ordered
<1>2. CASE pprev(b) \notin linked
  <2>1. b \notin linked /\ linked' = linked \ {b} /\ unlinked' \subseteq unlinked \cup {b}
        /\ nSequenceId' = nSequenceId /\ candidates' = candidates
        /\ haveData' = haveData \cup {b} /\ processed' = processed \cup {b}
    BY ZenonT(60), <1>2 DEF ReceivedBlockTransactions, Queue, seqs, Shape, Ordered
  <2> QED BY ZenonT(60), <2>1 DEF Ordered
<1> QED BY ZenonT(60), <1>1, <1>2

\* Arriving headers and blocks preserve Ordered.
LEMMA ArriveOrdered ==
    ASSUME Shape, Ordered, Arrive
    PROVE  Ordered'
<1>1. CASE \E b \in Block : AcceptBlockHeader(b)
  BY ZenonT(60), <1>1, SameKeysOrdered DEF AcceptBlockHeader, HeaderRefused, data, seqs
<1>2. ASSUME NEW b \in Block, NEW requested \in BOOLEAN, AcceptBlock(b, requested) PROVE Ordered'
  <2>1. CASE UNCHANGED <<data, seqs, candidates, unlinked, tip>>
    BY <2>1, SameKeysOrdered DEF data, seqs
  <2>2. CASE ~Declined(b, requested) /\ ReceivedBlockTransactions(b) /\ tip' = tip
    BY ZenonT(60), <2>2, ReceivedBlockTransactionsOrdered DEF Declined
  <2> QED BY ZenonT(60), <1>2, <2>1, <2>2 DEF AcceptBlock, HeaderRefused
<1> QED BY <1>1, <1>2 DEF Arrive

\* ActivateBestChain preserves Ordered: candidates stay as good as the tip.
LEMMA ActivateOrdered ==
    ASSUME Shape, Ordered, Activate
    PROVE  Ordered'
<1>0. tip \in Block /\ nSequenceId \in [Block -> Int] /\ candidates \subseteq Block
  BY ZenonT(60), ShapeFacts DEF Shape, TypeOK
<1>1. CASE \/ AbcLock \/ Settle \/ StepAbort \/ ConnectTipInvalid
           \/ \E c \in Block : FindBlocked(c) \/ StepBegin(c)
  BY ZenonT(60), <1>1, SameKeysOrdered
     DEF AbcLock, Settle, StepAbort, ConnectTipInvalid, FindBlocked, StepBegin, data, seqs
<1>2. ASSUME NEW c \in Block, FindUnusable(c) PROVE Ordered'
  <2>1. Branch(c) \subseteq haveData
    BY <1>2 DEF FindUnusable, Examined, Shape, Ordered
  <2>2. Unusable(c) \subseteq Failed
    BY <2>1 DEF Unusable
  <2>3. unlinked' = unlinked /\ candidates' \subseteq candidates
    BY ZenonT(60), <1>2, <2>2 DEF FindUnusable
  <2> QED BY ZenonT(60), <1>2, <2>3, SameKeysOrdered DEF FindUnusable, data, seqs
<1>3. CASE DisconnectTip
  <2>1. UNCHANGED <<data, nSequenceId, candidates, unlinked>> /\ tip' = pprev(tip)
    BY <1>3 DEF DisconnectTip, seqs
  <2>2. tip # Genesis
    <3>1. ~OnBranch(tip, abc.mostWork) /\ abc.mostWork \in Block
      BY <1>3, ShapeFacts DEF DisconnectTip, Shape, StepShape
    <3> QED BY <3>1, BranchFacts DEF Branch
  <2>3. nHeight(pprev(tip)) = nHeight(tip) - 1 /\ nHeight(tip) \in Nat
    BY <1>0, <2>2, Parent, Heights
  <2>4. \A c \in candidates : nHeight(c) \in Nat /\ nHeight(c) > nHeight(pprev(tip))
    BY <1>0, <2>3, Heights DEF Shape
  <2>5. \A c \in candidates : ~Worse(nSequenceId, c, pprev(tip))
    <3>1. pprev(tip) \in Block /\ candidates \subseteq Block
      BY <1>0, <2>2, Parent
    <3> QED BY <2>4, <3>1, WorseHeight
  <2> QED BY ZenonT(60), <2>1, <2>5 DEF Ordered, data, Worse
<1>4. CASE ConnectTip
  BY <1>4 DEF ConnectTip, PruneBlockIndexCandidates, Ordered, Worse, data, seqs
<1> QED BY <1>1, <1>2, <1>3, <1>4 DEF Activate

\* The operator's calls other than invalidateblock preserve Ordered.
LEMMA OperateOrdered ==
    ASSUME Shape, Sound, Ordered, Operate, "invalidateblock" \notin Ops, "prune" \notin Ops
    PROVE  Ordered'
<1>0. tip \in Block /\ nSequenceId \in [Block -> Int] /\ candidates \subseteq Block /\ index \subseteq Block
  BY ShapeFacts DEF Shape, TypeOK
<1>1. ASSUME NEW b \in Block, ResetBlockFailureFlags(b) PROVE Ordered'
  <2>1. \A below \in SUBSET index : \A x \in Revived(below) : ~Worse(nSequenceId, x, tip)
    BY <1>0, WorseAsymmetric DEF Revived
  <2>2. \A c \in candidates' \ candidates : ~Worse(nSequenceId, c, tip)
    BY ZenonT(60), <1>1, <2>1 DEF ResetBlockFailureFlags
  <2> QED BY ZenonT(60), <1>1, <2>2, SameKeysOrdered DEF ResetBlockFailureFlags, data, seqs
<1>2. ASSUME NEW b \in Block, PreciousBlock(b) PROVE Ordered'
  <2>1. UNCHANGED <<data, unlinked, tip>>
    BY ZenonT(60), <1>2 DEF PreciousBlock
  <2>2. CASE b \in (txValid \cap linked) \ Failed
    <3>1. candidates' = PruneBlockIndexCandidates(nSequenceId', candidates \cup {b}, tip)
      BY ZenonT(60), <1>2, <2>2 DEF PreciousBlock
    <3> QED BY <2>1, <3>1 DEF PruneBlockIndexCandidates, Ordered, data
  <2>3. CASE b \notin (txValid \cap linked) \ Failed
    <3>1. candidates' = candidates \ {b} /\ \A x \in Block \ {b} : nSequenceId'[x] = nSequenceId[x]
      BY ZenonT(60), <1>0, <1>2, <2>3 DEF PreciousBlock
    <3>2. b # tip
      <4>1. tip \in txValid \cap linked
        BY ZenonT(60) DEF Shape
      <4>2. tip \notin Failed
        BY ZenonT(60), <1>0, BranchFacts DEF Sound, ActiveValid
      <4> QED BY <2>3, <4>1, <4>2
    <3>3. \A c \in candidates' : ~Worse(nSequenceId', c, tip)
      BY ZenonT(60), <1>0, <3>1, <3>2 DEF Ordered, Worse
    <3> QED BY <2>1, <3>3 DEF Ordered, data
  <2> QED BY <2>2, <2>3
<1>3. CASE Restart
  <2>1. /\ linked' = {b \in index : Branch(b) \subseteq processed}
        /\ unlinked' = {b \in processed \ {Genesis} : pprev(b) \notin linked'}
        /\ \A c \in candidates' : ~Worse(nSequenceId', c, tip)
        /\ UNCHANGED <<haveData, processed, tip>>
    BY ZenonT(60), <1>3 DEF Restart, LoadedUnlinked, PruneBlockIndexCandidates
  <2>2. ASSUME NEW b \in unlinked', b \in linked' PROVE FALSE
    <3>1. b \in Block /\ b # Genesis /\ Branch(b) \subseteq processed /\ pprev(b) \notin linked'
      BY <1>0, <2>1, <2>2
    <3>2. Branch(pprev(b)) \subseteq Branch(b) /\ pprev(b) \in Branch(b)
      BY ZenonT(60), <3>1, BranchFacts
    <3>3. pprev(b) \in index
      BY ZenonT(60), <2>1, <2>2, <3>2 DEF Shape, TypeOK
    <3> QED BY <2>1, <3>1, <3>2, <3>3
  <2> QED BY <2>1, <2>2 DEF Ordered
<1> QED BY ZenonT(60), <1>1, <1>2, <1>3 DEF Operate, InvalidateBlock, PruneOneBlockFile

\* Ordered holds in every reachable state of a node without invalidateblock
\* and pruning.
THEOREM OrderedHolds ==
    ASSUME "invalidateblock" \notin Ops, "prune" \notin Ops
    PROVE  Spec => []Ordered
<1>1. Init => Ordered
  BY InitOrdered
<1>2. Shape /\ Sound /\ Ordered /\ [Next]_vars => Ordered'
  <2>1. ASSUME Ordered, UNCHANGED vars PROVE Ordered'
    BY <2>1, SameKeysOrdered DEF vars, data, seqs
  <2> QED BY <2>1, ActivateOrdered, ArriveOrdered, OperateOrdered DEF Next
<1> QED BY <1>1, <1>2, ShapeHolds, SoundHolds, PTL DEF Spec

\* setBlockIndexCandidates holds only fully received blocks that are as good
\* as the tip, as CheckBlockIndex asserts, whatever fails, is reconsidered,
\* made precious or reloaded.
THEOREM CandidatesAreSound ==
    ASSUME "invalidateblock" \notin Ops, "prune" \notin Ops
    PROVE  Spec => []CandidatesSound
<1>1. Shape /\ Ordered => CandidatesSound
  BY ZenonT(60) DEF Shape, Ordered, CandidatesSound
<1> QED BY <1>1, ShapeHolds, OrderedHolds, PTL

\* The halves of CheckBlockIndex that bound what the index may claim hold
\* together: nChainTx, verified scripts, candidates and the active chain.
THEOREM IndexIsSound ==
    ASSUME "invalidateblock" \notin Ops, "prune" \notin Ops
    PROVE  Spec => []SoundIndex
<1>1. LinkedSound /\ ScriptsValidPrefix /\ CandidatesSound /\ ActiveValid => SoundIndex
  BY DEF SoundIndex
<1> QED BY <1>1, LinkedIsSound, ScriptsAreValidPrefix, CandidatesAreSound, ActiveIsValid, PTL

\* ReceivedBlockTransactions never changes the sort key of a block that is in
\* setBlockIndexCandidates.
THEOREM SortKeysAreStable ==
    ASSUME "invalidateblock" \notin Ops, "prune" \notin Ops
    PROVE  Spec => SortKeyStable
<1>1. ASSUME Shape, Ordered, Next, nextSeq' > nextSeq, NEW c \in candidates
      PROVE  nSequenceId'[c] = nSequenceId[c]
  <2>0. nextSeq \in Nat /\ nextSeq > 0
    BY ZenonT(60), <1>1 DEF Shape, TypeOK
  <2>1. CASE Activate
    BY ZenonT(60), <1>1, <2>0, <2>1
       DEF Activate, AbcLock, Settle, StepAbort, DisconnectTip, ConnectTip,
       ConnectTipInvalid, FindBlocked, FindUnusable, StepBegin, seqs
  <2>2. CASE Operate
    <3>1. CASE Restart
      <4>1. nextSeq' = 1
        BY ZenonT(60), <3>1 DEF Restart
      <4> QED BY <1>1, <2>0, <4>1
    <3>2. CASE \E b \in Block : ResetBlockFailureFlags(b) \/ PreciousBlock(b)
      <4>1. nextSeq' = nextSeq
        BY ZenonT(60), <3>2 DEF ResetBlockFailureFlags, PreciousBlock, seqs
      <4> QED BY <1>1, <2>0, <4>1
    <3> QED BY <2>2, <3>1, <3>2 DEF Operate, InvalidateBlock, PruneOneBlockFile
  <2>3. ASSUME NEW b \in Block, NEW requested \in BOOLEAN, AcceptBlock(b, requested)
        PROVE  nSequenceId'[c] = nSequenceId[c]
    <3>1. CASE UNCHANGED seqs
      BY <3>1 DEF seqs
    <3>2. CASE ~Declined(b, requested) /\ ReceivedBlockTransactions(b) /\ tip' = tip
      BY ZenonT(60), <1>1, <3>2, ReceivedBlockTransactionsOrdered DEF Declined
    <3> QED BY ZenonT(60), <2>3, <3>1, <3>2 DEF AcceptBlock, HeaderRefused
  <2>4. CASE \E b \in Block : AcceptBlockHeader(b)
    BY ZenonT(60), <2>4 DEF AcceptBlockHeader, HeaderRefused, seqs
  <2> QED BY ZenonT(60), <1>1, <2>1, <2>2, <2>3, <2>4 DEF Next, Arrive
<1>2. Shape /\ Ordered /\ [Next]_vars => [KeepsSortKeys]_vars
  BY <1>1 DEF KeepsSortKeys
<1> QED BY <1>2, ShapeHolds, OrderedHolds, PTL DEF Spec, SortKeyStable

-----------------------------------------------------------------------------
(* No candidate is lost without a cause.                                   *)

\* A step that takes no candidate away and links nothing.
LEMMA NothingLost ==
    ASSUME candidates \subseteq candidates', linked' \subseteq linked
    PROVE  LosesForCause
BY DEF LosesForCause

\* Received data links blocks that become candidates unless they sort before
\* the tip.
LEMMA ArriveKeeps ==
    ASSUME Shape, Arrive
    PROVE  LosesForCause
<1>1. ASSUME NEW b \in Block, AcceptBlockHeader(b) PROVE LosesForCause
  BY ZenonT(60), <1>1, NothingLost DEF AcceptBlockHeader, HeaderRefused, data
<1>2. ASSUME NEW b \in Block, NEW requested \in BOOLEAN, AcceptBlock(b, requested) PROVE LosesForCause
  <2>1. CASE UNCHANGED <<data, candidates>>
    BY ZenonT(60), <2>1, NothingLost DEF data
  <2>2. CASE ReceivedBlockTransactions(b) /\ tip' = tip
    <3>1. CASE pprev(b) \in linked
      <4>1. PICK f \in Numberings(NewlyLinked(b), b) :
               LET sq == [x \in Block |-> IF x \in NewlyLinked(b) THEN f[x] ELSE nSequenceId[x]] IN
               nSequenceId' = sq /\ candidates' = candidates \cup Promising(NewlyLinked(b), sq)
        BY ZenonT(60), <2>2, <3>1 DEF ReceivedBlockTransactions
      <4>2. candidates' = candidates \cup Promising(NewlyLinked(b), nSequenceId')
        BY ZenonT(60), <4>1
      <4>3. linked' = linked \cup NewlyLinked(b)
        BY ZenonT(60), <2>2, <3>1 DEF ReceivedBlockTransactions
      <4> QED BY ZenonT(60), <2>2, <4>2, <4>3 DEF LosesForCause, Promising
    <3>2. CASE pprev(b) \notin linked
      <4>1. linked' \subseteq linked /\ candidates' = candidates
        BY ZenonT(60), <2>2, <3>2 DEF ReceivedBlockTransactions
      <4> QED BY ZenonT(60), <4>1, NothingLost
    <3> QED BY <3>1, <3>2
  <2> QED BY ZenonT(60), <1>2, <2>1, <2>2 DEF AcceptBlock, HeaderRefused
<1> QED BY <1>1, <1>2 DEF Arrive

\* FindMostWorkChain drops what is barred, failed or incomplete, and
\* PruneBlockIndexCandidates what sorts before the tip.
LEMMA ActivateKeeps ==
    ASSUME Shape, Activate
    PROVE  LosesForCause
<1>1. CASE AbcLock \/ Settle \/ StepAbort \/ DisconnectTip \/ \E c \in Block : StepBegin(c)
  <2>1. UNCHANGED <<candidates, linked>>
    BY ZenonT(60), <1>1 DEF AbcLock, Settle, StepAbort, DisconnectTip, StepBegin, data
  <2> QED BY ZenonT(60), <2>1, NothingLost
<1>2. ASSUME NEW c \in Block, FindBlocked(c) PROVE LosesForCause
  BY ZenonT(60), <1>2 DEF FindBlocked, LosesForCause, data
<1>3. ASSUME NEW c \in Block, FindUnusable(c) PROVE LosesForCause
  <2>1. PICK x \in Unusable(c) :
           candidates' = candidates \ ({y \in Branch(c) : OnBranch(x, y) /\ y # x} \cup {x})
    BY ZenonT(60), <1>3 DEF FindUnusable
  <2>2. linked' = linked /\ Failed \subseteq failedValid' \cup failedChild'
    BY ZenonT(60), <1>3 DEF FindUnusable, Failed, data
  <2>3. x \in Block /\ (x \in Failed \/ x \notin haveData)
    BY ZenonT(60), <2>1 DEF Unusable, Branch
  <2>4. ASSUME NEW b \in candidates \ candidates' PROVE x \in Branch(b)
    <3>1. b = x \/ OnBranch(x, b)
      BY ZenonT(60), <2>1, <2>4
    <3> QED BY ZenonT(60), <2>3, <3>1, OnBranchReflexive DEF Branch
  <2> QED BY ZenonT(60), <2>2, <2>3, <2>4 DEF LosesForCause
<1>4. CASE ConnectTip
  <2>1. candidates' = PruneBlockIndexCandidates(nSequenceId, candidates, tip')
        /\ UNCHANGED <<linked, nSequenceId>>
    BY ZenonT(60), <1>4 DEF ConnectTip, data, seqs
  <2> QED BY ZenonT(60), <2>1 DEF LosesForCause, PruneBlockIndexCandidates
<1>5. CASE ConnectTipInvalid
  <2>1. Connecting \in Branch(Connecting)
    BY <1>5, ConnectingFacts, BranchFacts DEF ConnectTipInvalid
  <2>2. candidates' = candidates \ {Connecting} /\ Connecting \in failedValid' /\ linked' = linked
    BY ZenonT(60), <1>5 DEF ConnectTipInvalid, data
  <2> QED BY ZenonT(60), <2>1, <2>2 DEF LosesForCause
<1> QED BY <1>1, <1>2, <1>3, <1>4, <1>5 DEF Activate

\* The operator's calls and a restart take candidates away for the same causes.
LEMMA OperateKeeps ==
    ASSUME Shape, Operate
    PROVE  LosesForCause
<1>0. index \subseteq Block /\ candidates \subseteq linked /\ linked \subseteq processed
      /\ processed = txValid /\ linked \subseteq index
  BY ZenonT(60), ShapeFacts DEF Shape
<1>1. ASSUME NEW b \in Block, InvalidateBlock(b) PROVE LosesForCause
  <2> DEFINE above == IF OnBranch(b, tip) THEN {x \in Branch(tip) : OnBranch(b, x) /\ x # b} ELSE {}
  <2>1. candidates \ candidates' \subseteq above \cup {b} /\ b \in failedValid' /\ linked' = linked
    BY ZenonT(60), <1>1 DEF InvalidateBlock, data
  <2>2. \A x \in above \cup {b} : b \in Branch(x)
    BY ZenonT(60), OnBranchReflexive DEF Branch
  <2> HIDE DEF above
  <2> QED BY ZenonT(60), <2>1, <2>2 DEF LosesForCause
<1>2. ASSUME NEW b \in Block, ResetBlockFailureFlags(b) PROVE LosesForCause
  BY ZenonT(60), <1>2, NothingLost DEF ResetBlockFailureFlags, data
<1>3. ASSUME NEW b \in Block, PreciousBlock(b) PROVE LosesForCause
  <2>1. linked' = linked /\ tip' = tip /\ Failed \subseteq failedValid' \cup failedChild'
    BY ZenonT(60), <1>3 DEF PreciousBlock, Failed, data, marks
  <2>2. CASE b \in (txValid \cap linked) \ Failed
    <3>1. candidates' = PruneBlockIndexCandidates(nSequenceId', candidates \cup {b}, tip)
      BY ZenonT(60), <1>3, <2>2 DEF PreciousBlock
    <3> QED BY ZenonT(60), <2>1, <3>1 DEF LosesForCause, PruneBlockIndexCandidates
  <2>3. CASE b \notin (txValid \cap linked) \ Failed
    <3>1. candidates' = candidates \ {b}
      BY ZenonT(60), <1>3, <2>3 DEF PreciousBlock
    <3>2. b \in candidates => b \in Failed
      BY ZenonT(60), <1>0, <2>3
    <3>3. b \in Branch(b)
      BY BranchFacts
    <3> QED BY ZenonT(60), <2>1, <3>1, <3>2, <3>3 DEF LosesForCause
  <2> QED BY <2>2, <2>3
<1>4. ASSUME NEW b \in Block, PruneOneBlockFile(b) PROVE LosesForCause
  BY ZenonT(60), <1>4, NothingLost DEF PruneOneBlockFile
<1>5. CASE Restart
  <2> DEFINE saved == failedValid \cup (failedChild \ unsaved)
             closed == {b \in index : \E f \in saved : OnBranch(f, b)}
  <2>1. /\ linked' = {b \in index : Branch(b) \subseteq processed} /\ tip' = tip
        /\ candidates' = PruneBlockIndexCandidates(nSequenceId', (txValid \cap linked') \ closed, tip)
        /\ saved \subseteq failedValid' \cup failedChild'
    BY ZenonT(60), <1>5 DEF Restart, LoadedCandidates
  <2>2. saved \subseteq Block
    BY ZenonT(60), <1>0 DEF Shape, TypeOK
  <2>3. \A b \in closed : Branch(b) \cap saved # {}
    BY ZenonT(60), <2>2 DEF Branch
  <2> HIDE DEF saved, closed
  <2>4. ASSUME NEW b \in candidates \cup (linked' \ linked) PROVE b \in txValid \cap linked'
    <3>1. CASE b \in candidates
      <4>1. b \in index /\ b \in processed /\ Branch(b) \subseteq processed
        BY ZenonT(60), <1>0, <3>1 DEF Shape
      <4> QED BY ZenonT(60), <1>0, <2>1, <4>1
    <3>2. CASE b \in linked'
      <4>1. b \in index /\ Branch(b) \subseteq processed
        BY ZenonT(60), <2>1, <3>2
      <4> QED BY ZenonT(60), <1>0, <3>2, <4>1, BranchFacts
    <3> QED BY ZenonT(60), <2>4, <3>1, <3>2
  <2> QED BY ZenonT(60), <2>1, <2>3, <2>4 DEF LosesForCause, PruneBlockIndexCandidates
<1> QED BY ZenonT(60), <1>1, <1>2, <1>3, <1>4, <1>5 DEF Operate

\* Whatever arrives, fails, is pruned, reloaded or asked for by the operator, a
\* block leaves setBlockIndexCandidates, or is linked without entering it, only
\* if it sorts before the tip, its branch is failed or incomplete, or the
\* rollback limit bars it.
THEOREM CandidatesAreKept == Spec => CandidatesKept
<1>1. Shape /\ Next => LosesForCause
  BY ArriveKeeps, ActivateKeeps, OperateKeeps DEF Next
<1>2. Shape /\ [Next]_vars => [LosesForCause]_vars
  BY ZenonT(60), <1>1
<1> QED BY <1>2, ShapeHolds, PTL DEF Spec, CandidatesKept

-----------------------------------------------------------------------------
(* Nothing that was received is overlooked, without pruning and            *)
(* reconsiderblock.                                                        *)

\* A branch on which a block itself failed.
Spoilt(b) == Branch(b) \cap failedValid # {}

\* A received block is linked as soon as its parent is, and waits until then,
\* unless its branch is spoilt; every mark has its cause.
Waiting ==
    /\ haveData = processed
    /\ \A b \in processed \ {Genesis} : pprev(b) \in linked => b \in linked \/ Spoilt(b)
    /\ \A b \in processed \ linked : b \in unlinked \/ Spoilt(b)
    /\ \A b \in Failed : Spoilt(b)

\* What spoils an ancestor spoils the block.
LEMMA SpoiltBelow ==
    ASSUME NEW b \in Block, NEW a \in Branch(b), Spoilt(a)
    PROVE  Spoilt(b)
BY ZenonT(60), BranchFacts DEF Spoilt

\* Marks that are added above their cause, nothing else being lost.
LEMMA MarksWaiting ==
    ASSUME Waiting, UNCHANGED <<haveData, processed, linked>>,
           unlinked \subseteq unlinked', failedValid \subseteq failedValid',
           \A b \in Failed' \ Failed : Branch(b) \cap failedValid' # {}
    PROVE  Waiting'
<1>1. \A b : Spoilt(b) => Branch(b) \cap failedValid' # {}
  BY ZenonT(60) DEF Spoilt
<1>2. \A b : Branch(b) \cap failedValid' # {} => Spoilt(b)'
  BY ZenonT(60) DEF Spoilt, Branch, OnBranch
<1>3. \A b \in Failed' : Spoilt(b)'
  BY ZenonT(60), <1>1, <1>2 DEF Waiting
<1> QED BY ZenonT(60), <1>1, <1>2, <1>3 DEF Waiting

\* The state after LoadGenesisBlock satisfies Waiting.
LEMMA InitWaiting == Init => Waiting
BY ZenonT(60) DEF Init, Waiting, Failed

\* The blocks above a failed one are marked.
LEMMA HeaderRefusedWaiting ==
    ASSUME Shape, Waiting, NEW b \in Block, HeaderRefused(b)
    PROVE  Waiting'
<1>1. PICK f \in FailedAncestors(b) :
         failedChild' = failedChild \cup {x \in Branch(pprev(b)) : OnBranch(f, x) /\ x # f}
  BY ZenonT(60) DEF HeaderRefused
<1>2. f \in Block /\ f \in failedValid
  BY ZenonT(60) DEF FailedAncestors, Shape, TypeOK
<1>3. \A x \in Failed' \ Failed : Branch(x) \cap failedValid' # {}
  BY ZenonT(60), <1>1, <1>2 DEF HeaderRefused, Failed, Branch
<1> QED BY ZenonT(60), <1>3, MarksWaiting DEF HeaderRefused, data

\* When the data of b comes, everything that waits for it is found.
LEMMA ReceivedBlockTransactionsWaiting ==
    ASSUME Shape, Waiting, NEW b \in Block, b \notin haveData, b # Genesis,
           ReceivedBlockTransactions(b), UNCHANGED marks
    PROVE  Waiting'
<1>1. /\ haveData' = processed' /\ processed' = processed \cup {b} /\ Failed' = Failed
      /\ \A x : Spoilt(x)' <=> Spoilt(x)
  BY ZenonT(60) DEF ReceivedBlockTransactions, Waiting, Failed, Spoilt, Branch, OnBranch, marks
<1>2. b \notin processed /\ b \notin linked /\ processed \subseteq Block
  BY ZenonT(60), ShapeFacts DEF Waiting, Shape
<1>3. CASE pprev(b) \in linked
  <2> DEFINE L == NewlyLinked(b)
  <2>1. linked' = linked \cup L /\ unlinked' = unlinked \ (L \ {b}) /\ b \in L
    BY ZenonT(60), <1>3, LinkedClosed DEF ReceivedBlockTransactions, Unqueue
  <2>2. ASSUME NEW y \in processed \ {Genesis}, pprev(y) \in L, ~Spoilt(y), y \notin linked
        PROVE  y \in L
    <3>1. y \in Block /\ y \in unlinked
      BY ZenonT(60), <1>2, <2>2 DEF Waiting
    <3>2. /\ pprev(y) \in Block /\ OnBranch(b, pprev(y)) /\ OnBranch(pprev(y), y)
          /\ \A z \in Branch(pprev(y)) : OnBranch(b, z) /\ z # b => z \in unlinked
          /\ Branch(y) = Branch(pprev(y)) \cup {y}
      BY ZenonT(60), <2>2, <3>1, Parent, BranchFacts DEF NewlyLinked
    <3>3. OnBranch(b, y)
      BY <3>1, <3>2, OnBranchTransitive
    <3> QED BY ZenonT(60), <3>1, <3>2, <3>3 DEF NewlyLinked
  <2> HIDE DEF L
  <2>3. ASSUME NEW y \in processed' \ {Genesis}, pprev(y) \in linked' PROVE y \in linked' \/ Spoilt(y)
    <3>1. CASE y = b
      BY ZenonT(60), <2>1, <3>1
    <3>2. CASE y # b /\ pprev(y) \in linked
      BY ZenonT(60), <1>1, <2>1, <2>3, <3>2 DEF Waiting
    <3>3. CASE y # b /\ pprev(y) \in L
      BY ZenonT(60), <1>1, <2>1, <2>2, <2>3, <3>3
    <3> QED BY ZenonT(60), <2>1, <2>3, <3>1, <3>2, <3>3
  <2>4. ASSUME NEW y \in processed' \ linked' PROVE y \in unlinked' \/ Spoilt(y)
    <3>1. y \in processed \ linked /\ y \notin L
      BY ZenonT(60), <1>1, <2>1, <2>4
    <3> QED BY ZenonT(60), <2>1, <3>1 DEF Waiting
  <2>5. \A y \in Failed' : Spoilt(y)
    BY ZenonT(60), <1>1 DEF Waiting
  <2> QED BY ZenonT(60), <1>1, <2>3, <2>4, <2>5 DEF Waiting
<1>4. CASE pprev(b) \notin linked
  <2>1. linked' = linked /\ unlinked \subseteq unlinked'
        /\ (b \in unlinked' \/ pprev(b) \in Failed)
    BY ZenonT(60), <1>2, <1>4 DEF ReceivedBlockTransactions, Queue
  <2>2. pprev(b) \in Failed => Spoilt(b)
    BY ZenonT(60), BranchFacts, SpoiltBelow DEF Waiting
  <2>3. ASSUME NEW y \in processed' \ {Genesis}, pprev(y) \in linked' PROVE y \in linked' \/ Spoilt(y)
    BY ZenonT(60), <1>1, <1>4, <2>1, <2>3 DEF Waiting
  <2>4. ASSUME NEW y \in processed' \ linked' PROVE y \in unlinked' \/ Spoilt(y)
    BY ZenonT(60), <1>1, <2>1, <2>2, <2>4 DEF Waiting
  <2>5. \A y \in Failed' : Spoilt(y)
    BY ZenonT(60), <1>1 DEF Waiting
  <2> QED BY ZenonT(60), <1>1, <2>3, <2>4, <2>5 DEF Waiting
<1> QED BY <1>3, <1>4

\* Arriving headers and blocks preserve Waiting.
LEMMA ArriveWaiting ==
    ASSUME Shape, Waiting, Arrive
    PROVE  Waiting'
<1>0. Genesis \in haveData
  BY ZenonT(60), ShapeFacts DEF Waiting, Shape
<1>1. ASSUME NEW b \in Block, AcceptBlockHeader(b) PROVE Waiting'
  <2>1. CASE HeaderRefused(b)
    BY <2>1, HeaderRefusedWaiting
  <2>2. CASE UNCHANGED <<data, marks, unlinked>>
    BY ZenonT(60), <2>2, MarksWaiting DEF data, marks, Failed
  <2> QED BY ZenonT(60), <1>1, <2>1, <2>2 DEF AcceptBlockHeader
<1>2. ASSUME NEW b \in Block, NEW requested \in BOOLEAN, AcceptBlock(b, requested) PROVE Waiting'
  <2>1. CASE HeaderRefused(b)
    BY <2>1, HeaderRefusedWaiting
  <2>2. CASE UNCHANGED <<data, marks, unlinked>>
    BY ZenonT(60), <2>2, MarksWaiting DEF data, marks, Failed
  <2>3. CASE failedValid' = failedValid \cup {b} /\ UNCHANGED <<data, failedChild, unlinked>>
    <3>1. \A x \in Failed' \ Failed : Branch(x) \cap failedValid' # {}
      BY ZenonT(60), <2>3, BranchFacts DEF Failed
    <3> QED BY ZenonT(60), <2>3, <3>1, MarksWaiting DEF data
  <2>4. CASE ~Declined(b, requested) /\ ReceivedBlockTransactions(b) /\ UNCHANGED marks
    <3>1. b \notin haveData /\ b # Genesis
      BY ZenonT(60), <1>0, <2>4 DEF Declined
    <3> QED BY <2>4, <3>1, ReceivedBlockTransactionsWaiting
  <2> QED BY ZenonT(60), <1>2, <2>1, <2>2, <2>3, <2>4 DEF AcceptBlock
<1> QED BY <1>1, <1>2 DEF Arrive

\* FindMostWorkChain marks blocks above a failed one, and ConnectTip the block
\* that failed.
LEMMA ActivateWaiting ==
    ASSUME Shape, Waiting, Activate
    PROVE  Waiting'
<1>1. CASE \/ AbcLock \/ Settle \/ StepAbort \/ DisconnectTip \/ ConnectTip
           \/ \E c \in Block : FindBlocked(c) \/ StepBegin(c)
  <2>1. UNCHANGED <<data, failedValid, failedChild, unlinked>>
    BY ZenonT(60), <1>1
       DEF AbcLock, Settle, StepAbort, DisconnectTip, ConnectTip, FindBlocked, StepBegin, marks
  <2> QED BY ZenonT(60), <2>1, MarksWaiting DEF data, Failed
<1>2. ASSUME NEW c \in Block, FindUnusable(c) PROVE Waiting'
  <2>1. PICK x \in Unusable(c) :
           \/ x \in Failed /\ unlinked' = unlinked
              /\ failedChild' = failedChild \cup {y \in Branch(c) : OnBranch(x, y) /\ y # x}
           \/ unlinked \subseteq unlinked' /\ failedChild' = failedChild
    BY ZenonT(60), <1>2 DEF FindUnusable, Requeue
  <2>2. UNCHANGED <<data, failedValid>>
    BY ZenonT(60), <1>2 DEF FindUnusable
  <2>3. ASSUME NEW y \in Failed' \ Failed PROVE Branch(y) \cap failedValid' # {}
    <3>1. x \in Failed /\ y \in Branch(c) /\ OnBranch(x, y)
      BY ZenonT(60), <2>1, <2>2, <2>3 DEF Failed
    <3>2. y \in Block /\ x \in Branch(y)
      BY ZenonT(60), <2>1, <3>1 DEF Branch, Unusable
    <3>3. Spoilt(y)
      BY ZenonT(60), <3>1, <3>2, SpoiltBelow DEF Waiting
    <3> QED BY ZenonT(60), <2>2, <3>3 DEF Spoilt
  <2>4. unlinked \subseteq unlinked'
    BY ZenonT(60), <2>1
  <2> QED BY ZenonT(60), <2>2, <2>3, <2>4, MarksWaiting DEF data
<1>3. CASE ConnectTipInvalid
  <2>1. Connecting \in Branch(Connecting)
    BY <1>3, ConnectingFacts, BranchFacts DEF ConnectTipInvalid
  <2>2. failedValid' = failedValid \cup {Connecting} /\ UNCHANGED <<data, failedChild, unlinked>>
    BY ZenonT(60), <1>3 DEF ConnectTipInvalid
  <2>3. \A x \in Failed' \ Failed : Branch(x) \cap failedValid' # {}
    BY ZenonT(60), <2>1, <2>2 DEF Failed
  <2> QED BY ZenonT(60), <2>2, <2>3, MarksWaiting DEF data
<1> QED BY <1>1, <1>2, <1>3 DEF Activate

\* LoadBlockIndex links what is completely received and lets the rest wait.
LEMMA RestartWaiting ==
    ASSUME Shape, Waiting, Restart
    PROVE  Waiting'
<1> DEFINE saved == failedValid \cup (failedChild \ unsaved)
           closed == {b \in index : \E f \in saved : OnBranch(f, b)}
<1>1. /\ linked' = {b \in index : Branch(b) \subseteq processed}
      /\ unlinked' = {b \in processed \ {Genesis} : pprev(b) \notin linked'}
      /\ failedChild' = (failedChild \ unsaved) \cup (closed \ saved)
      /\ UNCHANGED <<haveData, processed, failedValid>>
  BY ZenonT(60) DEF Restart, LoadedUnlinked
<1>2. processed \subseteq index /\ index \subseteq Block /\ saved \subseteq Failed /\ Failed \subseteq Block
  BY ZenonT(60), ShapeFacts DEF Failed, Shape, TypeOK
<1>3. \A b \in processed \ {Genesis} : pprev(b) \in linked' => b \in linked'
  <2> TAKE b \in processed \ {Genesis}
  <2> HAVE pprev(b) \in linked'
  <2>1. b \in Block /\ Branch(b) = Branch(pprev(b)) \cup {b}
    BY ZenonT(60), <1>2, BranchFacts
  <2> QED BY ZenonT(60), <1>1, <1>2, <2>1
<1>4. Genesis \in linked'
  <2>1. Genesis \in linked /\ Branch(Genesis) = {Genesis}
    BY ZenonT(60), ShapeFacts, GenesisFacts
  <2> QED BY ZenonT(60), <1>1, <1>2, <2>1 DEF Shape
<1>5. \A b \in processed \ linked' : b \in unlinked'
  BY ZenonT(60), <1>1, <1>3, <1>4
<1>6. ASSUME NEW b \in Failed' PROVE Spoilt(b)
  <2>1. CASE b \in saved
    BY ZenonT(60), <1>2, <2>1 DEF Waiting
  <2>2. CASE b \in closed
    <3>1. PICK f \in saved : OnBranch(f, b)
      BY ZenonT(60), <2>2
    <3>2. b \in Block /\ f \in Branch(b) /\ Spoilt(f)
      BY ZenonT(60), <1>2, <2>2, <3>1 DEF Waiting, Branch
    <3> QED BY <3>2, SpoiltBelow
  <2> QED BY ZenonT(60), <1>1, <1>6, <2>1, <2>2 DEF Failed
<1>7. \A b : Spoilt(b)' <=> Spoilt(b)
  BY ZenonT(60), <1>1 DEF Spoilt, Branch, OnBranch
<1> HIDE DEF saved, closed
<1> QED BY ZenonT(60), <1>1, <1>3, <1>5, <1>6, <1>7 DEF Waiting

\* The operator's calls other than reconsiderblock preserve Waiting.
LEMMA OperateWaiting ==
    ASSUME Shape, Waiting, Operate, "prune" \notin Ops, "reconsiderblock" \notin Ops
    PROVE  Waiting'
<1>1. ASSUME NEW b \in Block, InvalidateBlock(b) PROVE Waiting'
  <2> DEFINE above == IF OnBranch(b, tip) THEN {x \in Branch(tip) : OnBranch(b, x) /\ x # b} ELSE {}
  <2>1. /\ failedChild' = failedChild \cup above /\ failedValid' = failedValid \cup {b}
        /\ UNCHANGED <<data, unlinked>>
    BY ZenonT(60), <1>1 DEF InvalidateBlock
  <2>2. \A x \in above \cup {b} : b \in Branch(x)
    BY ZenonT(60), OnBranchReflexive DEF Branch
  <2> HIDE DEF above
  <2>3. \A x \in Failed' \ Failed : Branch(x) \cap failedValid' # {}
    BY ZenonT(60), <2>1, <2>2 DEF Failed
  <2> QED BY ZenonT(60), <2>1, <2>3, MarksWaiting DEF data
<1>2. ASSUME NEW b \in Block, PreciousBlock(b) PROVE Waiting'
  BY ZenonT(60), <1>2, MarksWaiting DEF PreciousBlock, data, marks, Failed
<1>3. CASE Restart
  BY <1>3, RestartWaiting
<1> QED BY ZenonT(60), <1>1, <1>2, <1>3 DEF Operate, ResetBlockFailureFlags, PruneOneBlockFile

\* A block whose branch was received without a failed block is linked: the
\* lowest one that is not would have a linked parent.
LEMMA ReceivedIsLinked ==
    ASSUME Shape, Waiting, NEW b \in index, Branch(b) \subseteq processed, ~Spoilt(b)
    PROVE  b \in linked
<1> SUFFICES ASSUME b \notin linked PROVE FALSE
  OBVIOUS
<1>0. b \in Block /\ Branch(b) \subseteq Block /\ Genesis \in linked /\ b \in Branch(b)
  BY ZenonT(60), ShapeFacts, BranchFacts
<1> DEFINE S == {nHeight(x) : x \in Branch(b) \ linked}
<1>1. S \subseteq Nat /\ S # {}
  BY ZenonT(60), <1>0, Heights
<1>2. PICK m \in S : \A n \in S : m <= n
  BY ZenonT(60), <1>1, LeastNatural
<1>3. PICK x \in Branch(b) \ linked : \A y \in Branch(b) \ linked : nHeight(x) <= nHeight(y)
  BY ZenonT(60), <1>2
<1>4. x \in Block /\ x # Genesis /\ x \in processed /\ ~Spoilt(x)
  BY ZenonT(60), <1>0, <1>3, SpoiltBelow
<1>5. pprev(x) \in Branch(b) /\ nHeight(pprev(x)) = nHeight(x) - 1 /\ nHeight(x) \in Nat
  BY ZenonT(60), <1>0, <1>3, <1>4, BranchFacts, Parent, Heights
<1>6. ~(nHeight(x) <= nHeight(pprev(x)))
  BY <1>5
<1> QED BY ZenonT(60), <1>3, <1>4, <1>5, <1>6 DEF Waiting

\* Without pruning and reconsiderblock nothing that was received is overlooked:
\* CheckBlockIndex finds every received block linked or waiting unless a block
\* of its branch failed, and a cause for every mark, in whatever order blocks
\* arrive, fail, are invalidated and reloaded.
THEOREM IndexIsComplete ==
    ASSUME "prune" \notin Ops, "reconsiderblock" \notin Ops
    PROVE  Spec => []CompleteIndex
<1>1. Init => Waiting
  BY InitWaiting
<1>2. Shape /\ Waiting /\ [Next]_vars => Waiting'
  <2>1. ASSUME Waiting, UNCHANGED vars PROVE Waiting'
    BY ZenonT(60), <2>1, MarksWaiting DEF vars, data, marks, Failed
  <2> QED BY <2>1, ActivateWaiting, ArriveWaiting, OperateWaiting DEF Next
<1>3. ASSUME Shape, Waiting PROVE CompleteIndex
  <2>1. ValidLinked
    BY ZenonT(60), <1>3, ReceivedIsLinked DEF ValidLinked, Spoilt
  <2>2. UnlinkedComplete
    <3>1. \A b \in linked : Branch(b) \subseteq processed
      BY ZenonT(60), <1>3 DEF Shape
    <3> QED BY ZenonT(60), <1>3, <3>1 DEF UnlinkedComplete, Waiting, Spoilt
  <2>3. FailedHasCause
    BY ZenonT(60), <1>3 DEF FailedHasCause, Waiting, Spoilt
  <2> QED BY <2>1, <2>2, <2>3 DEF CompleteIndex
<1> QED BY <1>1, <1>2, <1>3, ShapeHolds, PTL DEF Spec

-----------------------------------------------------------------------------
(* What ActivateBestChain has in hand while it holds cs_main, without      *)
(* invalidateblock.                                                        *)

\* The active chain has connected, and leads to the cached target unless blocks
\* are being disconnected.
OnWay ==
    /\ \A x \in Branch(tip) : ConnectBlock(x)
    /\ abc.mostWork # NoBlock /\ abc.pc # "undo" => OnBranch(tip, abc.mostWork)

\* The values StepEnd returns, and when it lets go of cs_main.
LEMMA StepEndCases ==
    ASSUME Shape, NEW t \in Block, NEW c \in Block \cup {NoBlock}, NEW a, a = StepEnd(t, c)
    PROVE  \/ /\ Worse(nSequenceId, t, abc.start)
              /\ a.pc = "find" /\ a.start = abc.start /\ a.mostWork = c
           \/ /\ ~Worse(nSequenceId, t, abc.start)
              /\ a.pc \in {"idle", "free"} /\ a.mostWork \in {c, NoBlock}
<1>1. abc \in AbcState
  BY ShapeFacts
<1>2. CASE Worse(nSequenceId, t, abc.start)
  <2>1. a = [abc EXCEPT !.pc = "find", !.mostWork = c, !.old = Genesis, !.moved = TRUE]
    BY ZenonT(60), <1>2 DEF StepEnd
  <2>2. a.pc = "find" /\ a.start = abc.start /\ a.mostWork = c
    BY <1>1, <2>1 DEF AbcState
  <2> QED BY <1>2, <2>2
<1>3. CASE ~Worse(nSequenceId, t, abc.start)
  <2>1. a = Idle \/ a = [Idle EXCEPT !.pc = "free", !.mostWork = c]
    BY ZenonT(60), <1>3 DEF StepEnd
  <2>2. CASE a = Idle
    BY <1>3, <2>2 DEF Idle
  <2>3. CASE a = [Idle EXCEPT !.pc = "free", !.mostWork = c]
    <3>1. a.pc = "free" /\ a.mostWork = c
      BY <2>3 DEF Idle
    <3> QED BY <1>3, <3>1
  <2> QED BY <2>1, <2>2, <2>3
<1> QED BY <1>2, <1>3

\* What the successful connection of a block does to the local state.
LEMMA ConnectTipCases ==
    ASSUME Shape, ConnectTip
    PROVE  \/ abc' = abc /\ Connecting # abc.mostWork
           \/ /\ Worse(nSequenceId, tip', abc.start)
              /\ abc'.pc = "find" /\ abc'.start = abc.start /\ abc'.mostWork = abc.mostWork
           \/ /\ ~Worse(nSequenceId, tip', abc.start)
              /\ abc'.pc \in {"idle", "free"} /\ abc'.mostWork \in {abc.mostWork, NoBlock}
<1>1. Connecting \in Block /\ abc.mostWork \in Block
  BY ConnectingFacts DEF ConnectTip
<1>2. tip' = Connecting /\ abc' = IF nChainWork[Connecting] > nChainWork[abc.old] \/ Connecting = abc.mostWork
                                  THEN StepEnd(Connecting, abc.mostWork) ELSE abc
  BY ZenonT(60) DEF ConnectTip
<1>3. CASE abc' = StepEnd(Connecting, abc.mostWork)
  <2>1. \/ /\ Worse(nSequenceId, Connecting, abc.start)
           /\ abc'.pc = "find" /\ abc'.start = abc.start /\ abc'.mostWork = abc.mostWork
        \/ /\ ~Worse(nSequenceId, Connecting, abc.start)
           /\ abc'.pc \in {"idle", "free"} /\ abc'.mostWork \in {abc.mostWork, NoBlock}
    <3> DEFINE B == Connecting
               w == abc.mostWork
               a == abc'
    <3>1. B \in Block /\ w \in Block \cup {NoBlock} /\ a = StepEnd(B, w)
      BY <1>1, <1>3
    <3> HIDE DEF B, w, a
    <3>2. \/ /\ Worse(nSequenceId, B, abc.start)
             /\ a.pc = "find" /\ a.start = abc.start /\ a.mostWork = w
          \/ /\ ~Worse(nSequenceId, B, abc.start)
             /\ a.pc \in {"idle", "free"} /\ a.mostWork \in {w, NoBlock}
      BY <3>1, StepEndCases
    <3> QED BY <3>2 DEF B, w, a
  <2> QED BY ZenonT(60), <1>2, <2>1
<1> QED BY ZenonT(60), <1>2, <1>3

\* What the beginning of a step does to the local state.
LEMMA StepBeginCases ==
    ASSUME Shape, NEW c \in Block, StepBegin(c)
    PROVE  \/ /\ IsAutomaticReorgAllowed(tip, c)
              /\ abc'.pc = UndoOrConnect(tip, c) /\ abc'.mostWork = c /\ abc'.start = abc.start
           \/ /\ ~IsAutomaticReorgAllowed(tip, c)
              /\ abc'.pc = "idle" /\ abc'.mostWork = NoBlock
<1>1. abc \in AbcState
  BY ShapeFacts
<1>2. CASE IsAutomaticReorgAllowed(tip, c)
  <2>1. abc' = [abc EXCEPT !.pc = UndoOrConnect(tip, c), !.mostWork = c, !.old = tip]
    BY ZenonT(60), <1>2 DEF StepBegin
  <2>2. abc'.pc = UndoOrConnect(tip, c) /\ abc'.mostWork = c /\ abc'.start = abc.start
    BY <1>1, <2>1 DEF AbcState
  <2> QED BY <1>2, <2>2
<1>3. CASE ~IsAutomaticReorgAllowed(tip, c)
  <2>1. abc' = Idle
    BY ZenonT(60), <1>3 DEF StepBegin
  <2> QED BY <1>3, <2>1 DEF Idle
<1> QED BY <1>2, <1>3

\* Taking cs_main and disconnecting a block.
LEMMA LockCases ==
    ASSUME Shape
    PROVE  /\ AbcLock => abc'.pc = "find" /\ abc'.start = tip /\ abc'.mostWork = abc.mostWork
           /\ DisconnectTip => /\ abc'.pc = UndoOrConnect(tip', abc.mostWork)
                               /\ abc'.start = abc.start /\ abc'.mostWork = abc.mostWork
           /\ Settle => abc'.pc \in {"idle", "free"} /\ abc'.mostWork = NoBlock
           /\ StepAbort => abc'.pc = "aborted" /\ abc'.mostWork = NoBlock
<1>1. abc \in AbcState
  BY ShapeFacts
<1>2. ASSUME AbcLock PROVE abc'.pc = "find" /\ abc'.start = tip /\ abc'.mostWork = abc.mostWork
  BY <1>1, <1>2 DEF AbcLock, AbcState
<1>3. ASSUME DisconnectTip
      PROVE  /\ abc'.pc = UndoOrConnect(tip', abc.mostWork)
             /\ abc'.start = abc.start /\ abc'.mostWork = abc.mostWork
  <2>1. abc' = [abc EXCEPT !.pc = UndoOrConnect(tip', abc.mostWork)]
    BY ZenonT(60), <1>3 DEF DisconnectTip
  <2> QED BY <1>1, <2>1 DEF AbcState
<1>4. ASSUME Settle PROVE abc'.pc \in {"idle", "free"} /\ abc'.mostWork = NoBlock
  BY <1>4 DEF Settle, Idle
<1>5. ASSUME StepAbort PROVE abc'.pc = "aborted" /\ abc'.mostWork = NoBlock
  BY <1>5 DEF StepAbort, Idle
<1> QED BY <1>2, <1>3, <1>4, <1>5

\* Steps other than those of ActivateBestChain leave the tip alone, and its local
\* state too, unless the node starts again.
LEMMA OthersLeaveAbc ==
    ASSUME Arrive \/ Operate \/ UNCHANGED vars, "invalidateblock" \notin Ops
    PROVE  tip' = tip /\ (abc' = abc \/ (abc' = Idle /\ "restart" \in Ops))
<1>1. CASE Arrive
  BY ZenonT(60), <1>1 DEF Arrive, AcceptBlockHeader, AcceptBlock, HeaderRefused
<1>2. CASE Operate
  BY ZenonT(60), <1>2 DEF Operate, InvalidateBlock, ResetBlockFailureFlags, PreciousBlock,
                          PruneOneBlockFile, Restart
<1> QED BY ZenonT(60), <1>1, <1>2 DEF vars

\* ActivateBestChain preserves OnWay.
LEMMA ActivateOnWay ==
    ASSUME Shape, OnWay, Activate
    PROVE  OnWay'
<1>0. tip \in Block /\ (abc.mostWork # NoBlock => abc.mostWork \in Block) /\ NoBlock \notin Block
  BY ZenonT(60), ShapeFacts, ChainStateAssumption
<1>1. CASE AbcLock \/ Settle \/ StepAbort
  <2>1. tip' = tip /\ (abc'.mostWork = NoBlock \/ (abc'.mostWork = abc.mostWork /\ abc.pc # "undo"))
    BY ZenonT(60), <1>1, LockCases DEF AbcLock, Settle, StepAbort, csMainFree
  <2> QED BY ZenonT(60), <2>1 DEF OnWay, ConnectBlock
<1>2. ASSUME NEW c \in Block, FindBlocked(c) \/ FindUnusable(c) PROVE OnWay'
  BY ZenonT(60), <1>2 DEF FindBlocked, FindUnusable, OnWay, ConnectBlock
<1>3. ASSUME NEW c \in Block, StepBegin(c) PROVE OnWay'
  <2>1. tip' = tip
    BY ZenonT(60), <1>3 DEF StepBegin
  <2> QED BY ZenonT(60), <1>3, <2>1, StepBeginCases DEF OnWay, ConnectBlock, UndoOrConnect
<1>4. CASE DisconnectTip
  <2>1. Branch(pprev(tip)) \subseteq Branch(tip)
    BY ZenonT(60), <1>0, BranchFacts, GenesisFacts
  <2>2. tip' = pprev(tip)
    BY ZenonT(60), <1>4 DEF DisconnectTip
  <2> QED BY ZenonT(60), <1>4, <2>1, <2>2, LockCases DEF OnWay, ConnectBlock, UndoOrConnect
<1>5. CASE ConnectTip
  <2>0. /\ Connecting \in Block /\ Connecting # Genesis /\ pprev(Connecting) = tip
        /\ Connecting \in Branch(abc.mostWork) /\ abc.mostWork \in Block
    BY ZenonT(60), <1>5, ConnectingFacts DEF ConnectTip
  <2>1. /\ tip' = Connecting /\ ConnectBlock(Connecting) /\ OnBranch(Connecting, abc.mostWork)
        /\ Branch(Connecting) = Branch(tip) \cup {Connecting} /\ abc.mostWork \in Block
    <3>1. tip' = Connecting /\ ConnectBlock(Connecting)
      BY ZenonT(60), <1>5 DEF ConnectTip
    <3>2. Branch(Connecting) = Branch(tip) \cup {Connecting}
      BY <2>0, BranchFacts
    <3>3. OnBranch(Connecting, abc.mostWork)
      BY <2>0 DEF Branch
    <3> QED BY <2>0, <3>1, <3>2, <3>3
  <2>2. \A x \in Branch(tip') : ConnectBlock(x)
    BY ZenonT(60), <2>1 DEF OnWay
  <2>3. abc'.mostWork \in {abc.mostWork, NoBlock}
    BY ZenonT(60), <1>5, ConnectTipCases
  <2> QED BY ZenonT(60), <2>1, <2>2, <2>3 DEF OnWay, ConnectBlock
<1>6. CASE ConnectTipInvalid
  <2>1. tip' = tip /\ abc' = StepEnd(tip, NoBlock)
    BY ZenonT(60), <1>6 DEF ConnectTipInvalid
  <2>2. abc'.mostWork = NoBlock
    BY ZenonT(60), <1>0, <2>1, StepEndFacts
  <2> QED BY ZenonT(60), <2>1, <2>2 DEF OnWay, ConnectBlock
<1> QED BY ZenonT(60), <1>1, <1>2, <1>3, <1>4, <1>5, <1>6 DEF Activate

\* OnWay holds in every reachable state of a node without invalidateblock.
LEMMA OnWayHolds ==
    ASSUME "invalidateblock" \notin Ops
    PROVE  Spec => []OnWay
<1>1. ASSUME Init PROVE OnWay
  <2>1. tip = Genesis /\ Branch(Genesis) = {Genesis} /\ abc.mostWork = NoBlock
    BY ZenonT(60), <1>1, GenesisFacts DEF Init, Idle
  <2>2. ConnectBlock(Genesis)
    BY ChainStateAssumption DEF ConnectBlock
  <2> QED BY ZenonT(60), <2>1, <2>2 DEF OnWay
<1>2. Shape /\ OnWay /\ [Next]_vars => OnWay'
  <2>1. ASSUME OnWay, Arrive \/ Operate \/ UNCHANGED vars PROVE OnWay'
    <3>1. tip' = tip /\ (abc' = abc \/ abc' = Idle)
      BY ZenonT(60), <2>1, OthersLeaveAbc
    <3>2. Idle.mostWork = NoBlock
      BY DEF Idle
    <3> QED BY ZenonT(60), <2>1, <3>1, <3>2 DEF OnWay, ConnectBlock
  <2> QED BY ZenonT(60), <2>1, ActivateOnWay DEF Next
<1> QED BY <1>1, <1>2, ShapeHolds, PTL DEF Spec

\* The tip with which cs_main was taken stays connectable and free of marks, and
\* the cached target does not sort before it while it is a candidate.
StartKept ==
    /\ abc.pc # "aborted"
    /\ ~csMainFree =>
          /\ abc.start \in linked
          /\ \A x \in Branch(abc.start) : ConnectBlock(x) /\ x \notin Failed
          /\ abc.start \in candidates /\ abc.mostWork # NoBlock =>
                ~Worse(nSequenceId, abc.mostWork, abc.start)

\* A block does not sort before its ancestors, and is a target the rollback
\* limit allows from each of them.
LEMMA Onwards ==
    ASSUME NEW sq \in [Block -> Int], NEW a \in Block, NEW b \in Block, OnBranch(a, b)
    PROVE  ~Worse(sq, b, a) /\ IsAutomaticReorgAllowed(a, b)
<1>1. nHeight(a) \in Nat /\ nHeight(b) \in Nat /\ nHeight(a) <= nHeight(b) /\ MaxReorgDepth \in Nat
  BY Heights, ChainStateAssumption DEF OnBranch, nHeight
<1>2. ~Worse(sq, b, a)
  <2>1. CASE a = b
    <3>1. sq[a] \in Int /\ Addr[a] \in Nat
      BY ZenonT(60), ChainStateAssumption
    <3> QED BY <1>1, <2>1, <3>1 DEF Worse
  <2>2. CASE a # b
    <3>1. ~(Len(b) <= Len(a))
      BY <2>2, OnBranchAntisymmetric
    <3>2. nHeight(b) > nHeight(a)
      BY <1>1, <3>1 DEF nHeight
    <3> QED BY <3>2, WorseHeight
  <2> QED BY <2>1, <2>2
<1>3. IsAutomaticReorgAllowed(a, b)
  <2> DEFINE h == MaxInt(0, nHeight(a) - MaxReorgDepth)
  <2>1. h \in 0 .. nHeight(a) /\ nHeight(b) >= h
    BY <1>1 DEF MaxInt
  <2>2. /\ GetAncestor(a, h) \in Block /\ nHeight(GetAncestor(a, h)) = h
        /\ OnBranch(GetAncestor(a, h), a)
    BY <2>1, AncestorOnBranch
  <2>3. OnBranch(GetAncestor(a, h), b)
    BY ZenonT(60), <2>2, OnBranchTransitive
  <2>4. GetAncestor(b, nHeight(GetAncestor(a, h))) = GetAncestor(a, h)
    BY ZenonT(60), <2>2, <2>3, AncestorUnique
  <2>5. GetAncestor(b, h) = GetAncestor(a, h)
    BY ZenonT(60), <2>2, <2>4
  <2> QED BY ZenonT(60), <2>1, <2>5 DEF IsAutomaticReorgAllowed
<1> QED BY <1>2, <1>3

\* Nothing but ActivateBestChain runs while cs_main is held, when nothing is pruned.
LEMMA OthersNeedLock ==
    ASSUME Arrive \/ Operate, "prune" \notin Ops, abc.pc # "aborted"
    PROVE  csMainFree
<1>1. CASE Arrive
  BY ZenonT(60), <1>1 DEF Arrive, AcceptBlockHeader, AcceptBlock
<1>2. CASE Operate
  BY ZenonT(60), <1>2 DEF Operate, InvalidateBlock, ResetBlockFailureFlags, PreciousBlock,
                          PruneOneBlockFile, Restart
<1> QED BY <1>1, <1>2

\* Steps that keep the candidates, the marks and the held lock.
LEMMA SameStart ==
    ASSUME StartKept, ~csMainFree, UNCHANGED <<linked, nSequenceId, candidates, failedValid, failedChild>>,
           abc'.pc # "aborted", abc'.start = abc.start,
           abc'.mostWork \in {abc.mostWork, NoBlock}
           \/ (abc.start \in candidates => ~Worse(nSequenceId, abc'.mostWork, abc.start))
    PROVE  StartKept'
BY ZenonT(60) DEF StartKept, ConnectBlock, Failed, csMainFree, Worse

\* Releasing cs_main keeps StartKept, and gives it up on a tip that the one it
\* was taken with does not beat.
LEMMA Released ==
    ASSUME csMainFree', candidates' = candidates,
           abc.start \in candidates => ~Worse(nSequenceId, tip', abc.start)
    PROVE  StartKept' /\ GoesOnToStart
BY ZenonT(60) DEF StartKept, GoesOnToStart, csMainFree

\* ActivateBestChain preserves StartKept, and goes on to the tip it found.
LEMMA ActivateStart ==
    ASSUME Shape, Sound, Ordered, OnWay, StartKept, Activate
    PROVE  StartKept' /\ GoesOnToStart
<1>0. /\ tip \in Block /\ tip \in linked /\ abc.start \in Block /\ NoBlock \notin Block
      /\ nSequenceId \in [Block -> Int] /\ (abc.mostWork # NoBlock => abc.mostWork \in Block)
      /\ candidates \subseteq linked /\ linked \subseteq haveData
      /\ \A b \in linked : Branch(b) \subseteq linked
  BY ZenonT(60), ShapeFacts, ChainStateAssumption DEF Shape, TypeOK, Ordered
<1>1. CASE AbcLock
  <2>1. /\ csMainFree /\ abc'.pc = "find" /\ abc'.start = tip /\ abc'.mostWork = abc.mostWork
        /\ UNCHANGED <<linked, nSequenceId, candidates, failedValid, failedChild, tip>>
    BY ZenonT(60), <1>1, LockCases DEF AbcLock, data, marks, seqs
  <2>2. abc.mostWork # NoBlock => ~Worse(nSequenceId, abc.mostWork, tip)
    <3>1. abc.mostWork # NoBlock => OnBranch(tip, abc.mostWork)
      BY ZenonT(60), <2>1 DEF OnWay, csMainFree
    <3> QED BY ZenonT(60), <1>0, <3>1, Onwards
  <2>3. \A x \in Branch(tip) : ConnectBlock(x) /\ x \notin Failed
    BY ZenonT(60) DEF OnWay, Sound, ActiveValid
  <2>4. StartKept'
    BY ZenonT(60), <1>0, <2>1, <2>2, <2>3 DEF StartKept, ConnectBlock, Failed, csMainFree, Worse
  <2> QED BY ZenonT(60), <2>1, <2>4 DEF GoesOnToStart
<1>2. CASE Settle
  <2>1. csMainFree' /\ candidates' = candidates /\ tip' = tip
    BY ZenonT(60), <1>2, LockCases DEF Settle, csMainFree
  <2>2. abc.start \in candidates => ~Worse(nSequenceId, tip, abc.start)
    <3>1. CASE candidates = {}
      BY <3>1
    <3>2. CASE abc.mostWork = tip
      BY ZenonT(60), <1>0, <1>2, <3>2 DEF Settle, StartKept, csMainFree
    <3>3. CASE Found(tip)
      BY ZenonT(60), <3>3 DEF Found, Examined
    <3> QED BY ZenonT(60), <1>2, <3>1, <3>2, <3>3 DEF Settle
  <2> QED BY ZenonT(60), <2>1, <2>2, Released
<1>3. CASE StepAbort
  <2>1. Needed \in linked
    BY ZenonT(60), <1>0, <1>3, ConnectingFacts DEF StepAbort, Needed
  <2> QED BY ZenonT(60), <1>0, <1>3, <2>1 DEF StepAbort
<1>4. ASSUME NEW c \in Block, FindBlocked(c) PROVE StartKept' /\ GoesOnToStart
  <2>1. /\ ~csMainFree /\ ~csMainFree' /\ ~IsAutomaticReorgAllowed(tip, c)
        /\ candidates' = candidates \ {c} /\ UNCHANGED <<linked, nSequenceId, failedValid, failedChild, abc>>
    BY ZenonT(60), <1>4 DEF FindBlocked, Examined, csMainFree, data, marks, seqs
  <2>2. StartKept'
    BY ZenonT(60), <2>1 DEF StartKept, ConnectBlock, Failed, csMainFree, Worse
  <2> QED BY ZenonT(60), <2>1, <2>2 DEF GoesOnToStart
<1>5. ASSUME NEW c \in Block, FindUnusable(c) PROVE StartKept' /\ GoesOnToStart
  <2>0. /\ ~csMainFree /\ ~csMainFree' /\ c \in candidates
        /\ UNCHANGED <<linked, nSequenceId, failedValid, abc>>
    BY ZenonT(60), <1>5 DEF FindUnusable, Examined, csMainFree, data, seqs
  <2>1. PICK x \in Unusable(c) :
           LET above == {y \in Branch(c) : OnBranch(x, y) /\ y # x} IN
           /\ candidates' = candidates \ (above \cup {x})
           /\ failedChild' \subseteq failedChild \cup above
    BY ZenonT(60), <1>5 DEF FindUnusable
  <2>2. x \in Block /\ x \in Failed
    BY ZenonT(60), <1>0, <2>0, <2>1 DEF Unusable, Branch
  <2>3. x \notin Branch(abc.start)
    BY ZenonT(60), <2>0, <2>2 DEF StartKept
  <2>4. \A y \in Branch(abc.start) : ~OnBranch(x, y)
    BY ZenonT(60), <1>0, <2>2, <2>3, MarksStayOff
  <2>5. abc.start \in Branch(abc.start)
    BY <1>0, BranchFacts
  <2>6. (abc.start \in candidates' <=> abc.start \in candidates)
    BY ZenonT(60), <2>1, <2>3, <2>4, <2>5
  <2>7. \A y \in Branch(abc.start) : y \notin failedValid' \cup failedChild'
    BY ZenonT(60), <2>0, <2>1, <2>4 DEF StartKept, Failed
  <2>8. StartKept'
    BY ZenonT(60), <2>0, <2>6, <2>7 DEF StartKept, ConnectBlock, Failed, csMainFree, Worse
  <2> QED BY ZenonT(60), <2>0, <2>6, <2>8 DEF GoesOnToStart
<1>6. ASSUME NEW c \in Block, StepBegin(c) PROVE StartKept' /\ GoesOnToStart
  <2>1. /\ ~csMainFree /\ UNCHANGED <<linked, nSequenceId, candidates, failedValid, failedChild, tip>>
        /\ abc.pc = "find" /\ (abc.mostWork = c \/ Found(c))
    BY ZenonT(60), <1>6 DEF StepBegin, csMainFree, data, marks, seqs
  <2>2. IsAutomaticReorgAllowed(tip, c) /\ (abc.start \in candidates => ~Worse(nSequenceId, c, abc.start))
    <3>1. CASE abc.mostWork = c
      <4>1. OnBranch(tip, c)
        BY ZenonT(60), <1>0, <2>1, <3>1 DEF OnWay
      <4> QED BY ZenonT(60), <1>0, <2>1, <3>1, <4>1, Onwards DEF StartKept
    <3>2. CASE Found(c)
      BY ZenonT(60), <3>2 DEF Found, Examined
    <3> QED BY <2>1, <3>1, <3>2
  <2>3. /\ abc'.pc = UndoOrConnect(tip, c) /\ abc'.mostWork = c /\ abc'.start = abc.start
    BY ZenonT(60), <1>6, <2>2, StepBeginCases
  <2>4. abc'.pc \in {"undo", "connect"}
    BY ZenonT(60), <2>3 DEF UndoOrConnect
  <2>5. StartKept'
    BY ZenonT(60), <2>1, <2>2, <2>3, <2>4, SameStart
  <2> QED BY ZenonT(60), <2>1, <2>4, <2>5 DEF GoesOnToStart, csMainFree
<1>7. CASE DisconnectTip
  <2>1. /\ ~csMainFree /\ UNCHANGED <<linked, nSequenceId, candidates, failedValid, failedChild>>
        /\ abc'.pc = UndoOrConnect(tip', abc.mostWork)
        /\ abc'.start = abc.start /\ abc'.mostWork = abc.mostWork
    BY ZenonT(60), <1>7, LockCases DEF DisconnectTip, csMainFree, data, marks, seqs
  <2>2. abc'.pc \in {"undo", "connect"}
    BY ZenonT(60), <2>1 DEF UndoOrConnect
  <2>3. StartKept'
    BY ZenonT(60), <2>1, <2>2, SameStart
  <2> QED BY ZenonT(60), <2>1, <2>2, <2>3 DEF GoesOnToStart, csMainFree
<1>8. CASE ConnectTip
  <2>1. /\ ~csMainFree /\ UNCHANGED <<linked, nSequenceId, failedValid, failedChild>>
        /\ candidates' = {d \in candidates : ~Worse(nSequenceId, d, tip')} /\ tip' = Connecting
    BY ZenonT(60), <1>8 DEF ConnectTip, PruneBlockIndexCandidates, csMainFree, data, seqs
  <2>2. abc.start \in candidates \ candidates' => ~Worse(nSequenceId, tip', abc.start)
    <3>1. tip' \in Block
      BY ZenonT(60), <1>8, <2>1, ConnectingFacts DEF ConnectTip
    <3> QED BY ZenonT(60), <1>0, <2>1, <3>1, WorseAsymmetric
  <2>3. csMainFree' => ~Worse(nSequenceId, tip', abc.start)
    BY ZenonT(60), <1>8, <2>1, ConnectTipCases DEF csMainFree
  <2>4. StartKept'
    <3>1. csMainFree' \/ (abc'.start = abc.start /\ abc'.mostWork = abc.mostWork)
      BY ZenonT(60), <1>8, ConnectTipCases DEF csMainFree
    <3>2. abc'.pc # "aborted"
      BY ZenonT(60), <1>8, ConnectTipCases DEF StartKept
    <3> QED BY ZenonT(60), <2>1, <3>1, <3>2 DEF StartKept, ConnectBlock, Failed, csMainFree, Worse
  <2> QED BY ZenonT(60), <2>2, <2>3, <2>4 DEF GoesOnToStart
<1>9. CASE ConnectTipInvalid
  <2>1. /\ ~csMainFree /\ ~ConnectBlock(Connecting) /\ candidates' = candidates \ {Connecting}
        /\ failedValid' = failedValid \cup {Connecting} /\ abc' = StepEnd(tip, NoBlock)
        /\ UNCHANGED <<linked, nSequenceId, failedChild, tip>>
    BY ZenonT(60), <1>9 DEF ConnectTipInvalid, csMainFree, data, seqs
  <2>2. Connecting \notin Branch(abc.start) /\ abc.start \in Branch(abc.start)
    BY ZenonT(60), <1>0, <2>1, BranchFacts DEF StartKept
  <2>3. \/ abc'.pc = "find" /\ abc'.start = abc.start /\ abc'.mostWork = NoBlock
        \/ abc'.pc \in {"idle", "free"} /\ ~Worse(nSequenceId, tip, abc.start)
    BY ZenonT(60), <1>0, <2>1, StepEndCases
  <2>4. abc.start \in candidates' <=> abc.start \in candidates
    BY ZenonT(60), <2>1, <2>2
  <2>5. \A x \in Branch(abc.start) : ConnectBlock(x) /\ x \notin failedValid' \cup failedChild'
    BY ZenonT(60), <2>1, <2>2 DEF StartKept, Failed
  <2>6. StartKept'
    BY ZenonT(60), <2>1, <2>3, <2>4, <2>5 DEF StartKept, ConnectBlock, Failed, csMainFree
  <2> QED BY ZenonT(60), <2>1, <2>3, <2>4, <2>6 DEF GoesOnToStart, csMainFree
<1> QED BY ZenonT(60), <1>1, <1>2, <1>3, <1>4, <1>5, <1>6, <1>7, <1>8, <1>9 DEF Activate

\* Without invalidateblock and pruning, ActivateBestChain goes on as long as the
\* tip it found is a candidate that beats the present one, and loses that
\* candidate only to the rollback limit, however many branches fail meanwhile.
THEOREM GoesOnUnlessBarred ==
    ASSUME "invalidateblock" \notin Ops, "prune" \notin Ops
    PROVE  Spec => ProgressUnlessBarred
<1>1. Init => StartKept
  <2>1. Init => abc.pc = "idle"
    BY DEF Init, Idle
  <2> QED BY <2>1 DEF StartKept, csMainFree
<1>2. ASSUME StartKept, Arrive \/ Operate PROVE StartKept' /\ GoesOnToStart
  <2>1. csMainFree /\ (abc' = abc \/ abc' = Idle)
    BY ZenonT(60), <1>2, OthersNeedLock, OthersLeaveAbc DEF StartKept
  <2>2. abc'.pc \in {"idle", "free"}
    <3>1. Idle.pc = "idle"
      BY DEF Idle
    <3> QED BY <2>1, <3>1 DEF csMainFree
  <2>3. csMainFree' /\ abc'.pc # "aborted"
    BY ZenonT(60), <2>2 DEF csMainFree
  <2> QED BY ZenonT(60), <2>1, <2>3 DEF StartKept, GoesOnToStart
<1>3. Shape /\ Sound /\ Ordered /\ OnWay /\ StartKept /\ [Next]_vars => StartKept' /\ [GoesOnToStart]_vars
  <2>1. ASSUME StartKept, UNCHANGED vars PROVE StartKept'
    BY ZenonT(60), <2>1
       DEF StartKept, vars, data, marks, seqs, ConnectBlock, Failed, csMainFree, Worse
  <2> QED BY ZenonT(60), <1>2, <2>1, ActivateStart DEF Next
<1> QED BY <1>1, <1>3, ShapeHolds, SoundHolds, OrderedHolds, OnWayHolds, PTL DEF Spec, ProgressUnlessBarred

-----------------------------------------------------------------------------
(* What pruning leaves for ActivateBestChain to read.                      *)

\* The height below which pruning keeps MinBlocksToKeep blocks: that of the tip,
\* or, while cs_main is held, of the tip it was taken with if that is higher.
Top == IF csMainFree THEN nHeight(tip) ELSE MaxInt(nHeight(tip), nHeight(abc.start))

\* The blocks ActivateBestChain may have to read without looking for them again.
Stock == Branch(tip) \cup (IF abc.mostWork = NoBlock THEN {} ELSE Branch(abc.mostWork))

Stocked ==
    abc.pc # "aborted" =>
        /\ abc.pc \in {"find", "undo"} => nHeight(tip) <= nHeight(abc.start)
        /\ \A x \in Stock : nHeight(x) + MinBlocksToKeep > Top => x \in haveData

\* Heights are numbers in this and in the next state.
LEMMA HeightFacts ==
    ASSUME Shape, Shape'
    PROVE  /\ nHeight(tip) \in Nat /\ nHeight(abc.start) \in Nat
           /\ nHeight(tip') \in Nat /\ nHeight(abc'.start) \in Nat
           /\ Top \in Nat /\ Top' \in Nat /\ MinBlocksToKeep \in Nat
           /\ \A x \in Block : nHeight(x) \in Nat
<1>1. tip \in Block /\ tip' \in Block /\ abc.start \in Block /\ abc'.start \in Block
  <2>1. tip \in Block /\ abc.start \in Block
    BY ShapeFacts
  <2>2. abc \in AbcState /\ abc' \in AbcState /\ tip' \in index' /\ index' \subseteq Block
    BY DEF Shape, TypeOK
  <2> QED BY <2>1, <2>2 DEF AbcState
<1>2. /\ nHeight(tip) \in Nat /\ nHeight(abc.start) \in Nat
      /\ nHeight(tip') \in Nat /\ nHeight(abc'.start) \in Nat
      /\ \A x \in Block : nHeight(x) \in Nat
  BY ZenonT(60), <1>1, Heights
<1>3. Top \in Nat /\ Top' \in Nat
  BY ZenonT(60), <1>2 DEF Top, MaxInt
<1>4. MinBlocksToKeep \in Nat
  BY ChainStateAssumption
<1> QED BY <1>2, <1>3, <1>4

\* A step after which the limit is as high and no other block may be needed.
LEMMA StockedStep ==
    ASSUME Shape, Shape', Stocked, abc.pc # "aborted", haveData \subseteq haveData',
           abc'.pc \in {"find", "undo"} => nHeight(tip') <= nHeight(abc'.start),
           Top <= Top', Stock' \subseteq Stock \cup haveData
    PROVE  Stocked'
<1>1. ASSUME NEW x \in Stock', nHeight(x) + MinBlocksToKeep > Top' PROVE x \in haveData'
  <2>1. CASE x \in haveData
    BY <2>1
  <2>2. CASE x \in Stock
    <3>1. x \in Block
      BY ZenonT(60), <2>2 DEF Stock, Branch
    <3>2. nHeight(x) + MinBlocksToKeep > Top
      <4>1. nHeight(x) \in Nat /\ Top \in Nat /\ Top' \in Nat /\ MinBlocksToKeep \in Nat
        BY ZenonT(60), <3>1, HeightFacts
      <4> HIDE DEF Top, nHeight
      <4> QED BY <1>1, <4>1
    <3> QED BY ZenonT(60), <2>2, <3>2 DEF Stocked
  <2> QED BY <1>1, <2>1, <2>2
<1> QED BY ZenonT(60), <1>1 DEF Stocked

\* Letting go of cs_main on a tip that is not worse keeps the limit.
LEMMA TopReleased ==
    ASSUME Shape, Shape', ~csMainFree, csMainFree', ~Worse(nSequenceId, tip', abc.start),
           nHeight(tip') >= nHeight(tip)
    PROVE  Top <= Top'
<1>1. nHeight(tip') >= nHeight(abc.start)
  BY HeightFacts DEF Worse
<1>2. Top = MaxInt(nHeight(tip), nHeight(abc.start)) /\ Top' = nHeight(tip')
  BY ZenonT(60) DEF Top
<1> QED BY <1>1, <1>2, HeightFacts DEF MaxInt

\* Taking, keeping and giving up cs_main with the same tip.
LEMMA SameTipTop ==
    ASSUME Shape, Shape', tip' = tip, Advances,
           ~csMainFree' => abc'.start = IF csMainFree THEN tip ELSE abc.start
    PROVE  Top <= Top'
<1>0. nHeight(tip) \in Nat /\ nHeight(abc.start) \in Nat
  BY HeightFacts
<1>1. CASE csMainFree' /\ ~csMainFree
  <2>1. nHeight(tip') >= nHeight(tip)
    BY <1>0
  <2> QED BY ZenonT(60), <1>1, <2>1, TopReleased DEF Advances
<1>2. CASE csMainFree' /\ csMainFree
  <2>1. Top' = nHeight(tip) /\ Top = nHeight(tip)
    BY ZenonT(60), <1>2 DEF Top
  <2> QED BY <1>0, <2>1
<1>3. CASE ~csMainFree' /\ csMainFree
  <2>1. Top' = MaxInt(nHeight(tip), nHeight(tip)) /\ Top = nHeight(tip)
    BY ZenonT(60), <1>3 DEF Top
  <2> QED BY <1>0, <2>1 DEF MaxInt
<1>4. CASE ~csMainFree' /\ ~csMainFree
  <2>1. Top' = Top /\ Top \in Nat
    BY ZenonT(60), <1>4, HeightFacts DEF Top
  <2> QED BY <2>1
<1> QED BY <1>1, <1>2, <1>3, <1>4

\* ActivateBestChain preserves Stocked, if it lets go of cs_main on no worse tip.
LEMMA ActivateStocked ==
    ASSUME Shape, Shape', Stocked, Activate, Advances
    PROVE  Stocked'
<1>0. /\ tip \in Block /\ abc.start \in Block /\ NoBlock \notin Block /\ nHeight(tip) \in Nat
      /\ nHeight(abc.start) \in Nat /\ (abc.mostWork # NoBlock => abc.mostWork \in Block)
      /\ nSequenceId \in [Block -> Int]
  BY ZenonT(60), ShapeFacts, HeightFacts, ChainStateAssumption DEF Shape, TypeOK
<1>1. CASE AbcLock
  <2>1. /\ csMainFree /\ abc'.pc = "find" /\ abc'.start = tip /\ abc'.mostWork = abc.mostWork
        /\ tip' = tip /\ haveData' = haveData
    BY ZenonT(60), <1>1, LockCases DEF AbcLock, data
  <2>2. Top <= Top' /\ nHeight(tip') <= nHeight(abc'.start)
    <3>1. Top <= Top'
      BY ZenonT(60), <2>1, SameTipTop
    <3>2. nHeight(tip') <= nHeight(abc'.start)
      BY <1>0, <2>1
    <3> QED BY <3>1, <3>2
  <2>3. Stock' \subseteq Stock /\ abc.pc # "aborted"
    BY ZenonT(60), <2>1 DEF Stock, csMainFree
  <2> QED BY ZenonT(60), <2>1, <2>2, <2>3, StockedStep
<1>2. CASE Settle
  <2>1. /\ csMainFree' /\ abc'.pc \in {"idle", "free"} /\ abc'.mostWork = NoBlock /\ tip' = tip
        /\ haveData' = haveData /\ abc.pc # "aborted"
    BY ZenonT(60), <1>2, LockCases DEF Settle, csMainFree, data
  <2>2. Top <= Top'
    BY ZenonT(60), <2>1, SameTipTop
  <2>3. Stock' \subseteq Stock
    BY ZenonT(60), <2>1 DEF Stock
  <2> QED BY ZenonT(60), <2>1, <2>2, <2>3, StockedStep
<1>3. CASE StepAbort
  BY ZenonT(60), <1>3, LockCases DEF Stocked
<1>4. ASSUME NEW c \in Block, FindBlocked(c) \/ FindUnusable(c) PROVE Stocked'
  BY ZenonT(60), <1>4 DEF FindBlocked, FindUnusable, data, Stocked, Stock, Top, csMainFree
<1>5. ASSUME NEW c \in Block, StepBegin(c) PROVE Stocked'
  <2>1. /\ ~csMainFree /\ abc.pc = "find" /\ (abc.mostWork = c \/ Found(c))
        /\ tip' = tip /\ haveData' = haveData
    BY ZenonT(60), <1>5 DEF StepBegin, csMainFree, data
  <2>2. /\ abc'.mostWork \in {c, NoBlock} /\ (~csMainFree' => abc'.start = abc.start)
        /\ (abc'.pc \in {"find", "undo"} => ~csMainFree')
    BY ZenonT(60), <1>5, StepBeginCases DEF csMainFree
  <2>3. Top <= Top'
    BY ZenonT(60), <2>1, <2>2, SameTipTop
  <2>4. Stock' \subseteq Stock \cup haveData
    <3>1. CASE abc.mostWork = c
      BY ZenonT(60), <1>0, <2>1, <2>2, <3>1 DEF Stock
    <3>2. CASE Found(c)
      <4>1. Branch(c) \subseteq Branch(tip) \cup haveData
        BY ZenonT(60), <3>2 DEF Found, Unusable
      <4> QED BY ZenonT(60), <2>1, <2>2, <4>1 DEF Stock
    <3> QED BY <2>1, <3>1, <3>2
  <2> QED BY ZenonT(60), <2>1, <2>2, <2>3, <2>4, StockedStep DEF Stocked
<1>6. CASE DisconnectTip
  <2>1. /\ ~csMainFree /\ abc.pc = "undo" /\ tip' = pprev(tip) /\ haveData' = haveData
        /\ abc'.pc = UndoOrConnect(tip', abc.mostWork)
        /\ abc'.start = abc.start /\ abc'.mostWork = abc.mostWork
    BY ZenonT(60), <1>6, LockCases DEF DisconnectTip, csMainFree, data
  <2>2. ~csMainFree'
    BY ZenonT(60), <2>1 DEF UndoOrConnect, csMainFree
  <2>3. nHeight(tip) <= nHeight(abc.start)
    BY ZenonT(60), <2>1 DEF Stocked
  <2>4. nHeight(tip') <= nHeight(tip) /\ nHeight(tip') \in Nat
    <3>1. nHeight(tip') = nHeight(tip) - 1 \/ nHeight(tip') = nHeight(tip)
      BY ZenonT(60), <1>0, <2>1, Parent, GenesisFacts
    <3>2. nHeight(tip') \in Nat
      BY HeightFacts
    <3> QED BY <1>0, <3>1, <3>2
  <2>5. Top = nHeight(abc.start) /\ Top' = nHeight(abc.start)
    <3>1. Top = MaxInt(nHeight(tip), nHeight(abc.start)) /\ Top' = MaxInt(nHeight(tip'), nHeight(abc.start))
      BY ZenonT(60), <2>1, <2>2 DEF Top
    <3> QED BY <1>0, <2>3, <2>4, <3>1 DEF MaxInt
  <2>6. Stock' \subseteq Stock
    <3>1. Branch(pprev(tip)) \subseteq Branch(tip)
      BY ZenonT(60), <1>0, BranchFacts, GenesisFacts
    <3> QED BY ZenonT(60), <2>1, <3>1 DEF Stock
  <2>7. Top <= Top' /\ nHeight(tip') <= nHeight(abc'.start)
    BY <1>0, <2>1, <2>3, <2>4, <2>5
  <2> QED BY ZenonT(60), <2>1, <2>6, <2>7, StockedStep
<1>7. CASE ConnectTip
  <2>1. /\ ~csMainFree /\ abc.pc = "connect" /\ tip' = Connecting /\ haveData' = haveData
    BY ZenonT(60), <1>7 DEF ConnectTip, csMainFree, data
  <2>2. /\ abc.mostWork \in Block /\ Connecting \in Branch(abc.mostWork)
        /\ nHeight(tip') = nHeight(tip) + 1 /\ tip' \in Block
    BY ZenonT(60), <2>1, ConnectingFacts
  <2>3. Stock' \subseteq Stock
    <3>1. Branch(Connecting) \subseteq Branch(abc.mostWork)
      BY ZenonT(60), <2>2, BranchFacts
    <3>2. abc'.mostWork \in {abc.mostWork, NoBlock}
      BY ZenonT(60), <1>7, ConnectTipCases
    <3> QED BY ZenonT(60), <1>0, <2>1, <2>2, <3>1, <3>2 DEF Stock
  <2>4. csMainFree' \/ abc'.start = abc.start
    BY ZenonT(60), <1>7, ConnectTipCases DEF csMainFree
  <2>5. Top <= Top'
    <3>0. nHeight(tip') >= nHeight(tip) /\ nHeight(tip') \in Nat
      BY <1>0, <2>2
    <3>1. CASE csMainFree'
      BY ZenonT(60), <2>1, <3>0, <3>1, TopReleased DEF Advances
    <3>2. CASE ~csMainFree'
      <4>1. Top = MaxInt(nHeight(tip), nHeight(abc.start)) /\ Top' = MaxInt(nHeight(tip'), nHeight(abc.start))
        BY ZenonT(60), <2>1, <2>4, <3>2 DEF Top
      <4> QED BY <1>0, <3>0, <4>1 DEF MaxInt
    <3> QED BY <3>1, <3>2
  <2>6. abc'.pc \in {"find", "undo"} => nHeight(tip') <= nHeight(abc'.start)
    <3>1. abc'.pc \in {"find", "undo"} => Worse(nSequenceId, tip', abc.start) /\ abc'.start = abc.start
      BY ZenonT(60), <1>7, <2>1, ConnectTipCases
    <3>2. Worse(nSequenceId, tip', abc.start) => nHeight(tip') <= nHeight(abc.start)
      BY <1>0, <2>2 DEF Worse
    <3> QED BY ZenonT(60), <3>1, <3>2
  <2> QED BY ZenonT(60), <2>1, <2>3, <2>5, <2>6, StockedStep
<1>8. CASE ConnectTipInvalid
  <2>1. /\ ~csMainFree /\ abc.pc = "connect" /\ tip' = tip /\ haveData' = haveData
        /\ abc' = StepEnd(tip, NoBlock)
    BY ZenonT(60), <1>8 DEF ConnectTipInvalid, csMainFree, data
  <2>2. \/ /\ Worse(nSequenceId, tip, abc.start)
           /\ abc'.pc = "find" /\ abc'.start = abc.start /\ abc'.mostWork = NoBlock
        \/ abc'.pc \in {"idle", "free"} /\ abc'.mostWork = NoBlock
    <3>1. \/ /\ Worse(nSequenceId, tip, abc.start)
             /\ abc'.pc = "find" /\ abc'.start = abc.start /\ abc'.mostWork = NoBlock
          \/ /\ ~Worse(nSequenceId, tip, abc.start)
             /\ abc'.pc \in {"idle", "free"} /\ abc'.mostWork \in {NoBlock, NoBlock}
      BY <1>0, <2>1, StepEndCases
    <3> QED BY ZenonT(60), <3>1
  <2>3. Top <= Top'
    <3>1. ~csMainFree' => abc'.start = abc.start
      BY ZenonT(60), <2>2 DEF csMainFree
    <3> QED BY ZenonT(60), <2>1, <3>1, SameTipTop
  <2>4. Stock' \subseteq Stock
    BY ZenonT(60), <2>1, <2>2 DEF Stock
  <2>5. abc'.pc \in {"find", "undo"} => nHeight(tip') <= nHeight(abc'.start)
    <3>1. Worse(nSequenceId, tip, abc.start) => nHeight(tip) <= nHeight(abc.start)
      BY <1>0 DEF Worse
    <3> QED BY ZenonT(60), <2>1, <2>2, <3>1
  <2> QED BY ZenonT(60), <2>1, <2>3, <2>4, <2>5, StockedStep
<1> QED BY ZenonT(60), <1>1, <1>2, <1>3, <1>4, <1>5, <1>6, <1>7, <1>8 DEF Activate

\* Arriving blocks, the operator's calls and pruning preserve Stocked: pruning
\* takes only blocks that are MinBlocksToKeep below the tip.
LEMMA OthersStocked ==
    ASSUME Shape, Shape', Stocked, Arrive \/ Operate \/ UNCHANGED vars,
           "invalidateblock" \notin Ops, "restart" \notin Ops
    PROVE  Stocked'
<1>1. tip' = tip /\ abc' = abc
  BY ZenonT(60), OthersLeaveAbc
<1>2. Top' = Top /\ Stock' = Stock
  BY ZenonT(60), <1>1 DEF Top, Stock, csMainFree
<1>3. CASE haveData \subseteq haveData'
  BY ZenonT(60), <1>1, <1>2, <1>3 DEF Stocked
<1>4. ASSUME NEW b \in Block, PruneOneBlockFile(b) PROVE Stocked'
  <2>1. haveData' = haveData \ {b} /\ nHeight(b) <= nHeight(tip) - MinBlocksToKeep
    BY ZenonT(60), <1>4 DEF PruneOneBlockFile
  <2>2. nHeight(tip) <= Top
    <3>1. Top = nHeight(tip) \/ Top = MaxInt(nHeight(tip), nHeight(abc.start))
      BY ZenonT(60) DEF Top
    <3> QED BY <3>1, HeightFacts DEF MaxInt
  <2>3. ~(nHeight(b) + MinBlocksToKeep > Top)
    <3>1. /\ nHeight(b) \in Nat /\ nHeight(tip) \in Nat /\ Top \in Nat /\ MinBlocksToKeep \in Nat
      BY ZenonT(60), HeightFacts
    <3> HIDE DEF Top, nHeight
    <3> QED BY <2>1, <2>2, <3>1
  <2> QED BY ZenonT(60), <1>1, <1>2, <2>1, <2>3 DEF Stocked
<1>5. CASE Arrive
  <2>1. haveData \subseteq haveData'
    BY ZenonT(60), <1>5 DEF Arrive, AcceptBlockHeader, AcceptBlock, HeaderRefused,
                            ReceivedBlockTransactions, data
  <2> QED BY <1>3, <2>1
<1>6. CASE Operate
  <2>1. haveData \subseteq haveData' \/ \E b \in Block : PruneOneBlockFile(b)
    BY ZenonT(60), <1>6 DEF Operate, InvalidateBlock, ResetBlockFailureFlags, PreciousBlock,
                            Restart, data
  <2> QED BY <1>3, <1>4, <2>1
<1>7. CASE UNCHANGED vars
  <2>1. haveData \subseteq haveData'
    BY ZenonT(60), <1>7 DEF vars, data
  <2> QED BY <1>3, <2>1
<1> QED BY <1>5, <1>6, <1>7

\* What is stocked is what DisconnectTip and ConnectTip read.
LEMMA StockedIsAvailable ==
    ASSUME Shape, Stocked
    PROVE  DataAvailable
<1> SUFFICES ASSUME abc.pc \in {"undo", "connect"},
                    nHeight(abc.start) - nHeight(Needed) < MinBlocksToKeep
             PROVE  Needed \in haveData
  BY DEF DataAvailable
<1>0. /\ tip \in Block /\ nHeight(tip) \in Nat /\ nHeight(abc.start) \in Nat /\ MinBlocksToKeep \in Nat
  BY ZenonT(60), ShapeFacts, Heights, ChainStateAssumption
<1>1. abc.pc # "aborted" /\ Top = MaxInt(nHeight(tip), nHeight(abc.start))
  BY ZenonT(60) DEF Top, csMainFree
<1>2. CASE abc.pc = "undo"
  <2>1. nHeight(tip) <= nHeight(abc.start) /\ Needed = tip
    BY ZenonT(60), <1>2 DEF Stocked, Needed
  <2>2. nHeight(tip) + MinBlocksToKeep > Top
    BY <1>0, <1>1, <2>1 DEF MaxInt
  <2>3. tip \in Stock
    BY ZenonT(60), <1>0, BranchFacts DEF Stock
  <2> QED BY ZenonT(60), <1>1, <2>1, <2>2, <2>3 DEF Stocked
<1>3. CASE abc.pc = "connect"
  <2>1. /\ Needed = Connecting /\ Connecting \in Branch(abc.mostWork) /\ abc.mostWork \in Block
        /\ nHeight(Connecting) = nHeight(tip) + 1
    BY ZenonT(60), <1>3, ConnectingFacts DEF Needed
  <2>2. nHeight(Connecting) + MinBlocksToKeep > Top
    BY <1>0, <1>1, <2>1 DEF MaxInt
  <2>3. Connecting \in Stock
    BY ZenonT(60), <2>1, ChainStateAssumption DEF Stock
  <2> QED BY ZenonT(60), <1>1, <2>1, <2>2, <2>3 DEF Stocked
<1> QED BY <1>2, <1>3

\* Pruning leaves on disk what DisconnectTip and ConnectTip read within
\* MinBlocksToKeep of the tip cs_main was taken with, as long as ActivateBestChain
\* never lets go of cs_main on a worse tip: MIN_BLOCKS_TO_KEEP is counted from
\* the tip of the moment, so the argument rests on ForwardProgress.  A restart
\* after AbortNode also begins on a lowered tip, and is left out.
THEOREM DataIsAvailable ==
    ASSUME "invalidateblock" \notin Ops, ~({"prune", "restart"} \subseteq Ops)
    PROVE  Spec /\ ForwardProgress => []DataAvailable
<1>1. CASE "prune" \notin Ops
  <2>1. ASSUME Shape, Ordered PROVE DataAvailable
    <3>1. linked \subseteq haveData /\ tip \in linked
      BY ZenonT(60), <2>1 DEF Shape, Ordered
    <3> QED BY ZenonT(60), <2>1, <3>1, ConnectingFacts DEF DataAvailable, Needed
  <2> QED BY <1>1, <2>1, ShapeHolds, OrderedHolds, PTL
<1>2. CASE "restart" \notin Ops
  <2>1. ASSUME Init PROVE Stocked
    <3>1. /\ tip = Genesis /\ haveData = {Genesis} /\ abc.pc = "idle" /\ abc.mostWork = NoBlock
      BY <2>1 DEF Init, Idle
    <3>2. Stock \subseteq haveData
      BY ZenonT(60), <3>1, GenesisFacts DEF Stock
    <3>3. abc.pc \notin {"find", "undo"}
      BY <3>1
    <3> QED BY ZenonT(60), <3>2, <3>3 DEF Stocked
  <2>2. Shape /\ Shape' /\ Stocked /\ [Next]_vars /\ [Advances]_vars => Stocked'
    <3>1. ASSUME Shape, Shape', Stocked, Next, Advances PROVE Stocked'
      BY ZenonT(60), <1>2, <3>1, ActivateStocked, OthersStocked DEF Next
    <3>2. ASSUME Shape, Shape', Stocked, UNCHANGED vars PROVE Stocked'
      BY ZenonT(60), <1>2, <3>2, OthersStocked
    <3> QED BY ZenonT(60), <3>1, <3>2
  <2>3. Shape /\ Stocked => DataAvailable
    BY StockedIsAvailable
  <2> QED BY <2>1, <2>2, <2>3, ShapeHolds, PTL DEF Spec, ForwardProgress
<1> QED BY <1>1, <1>2

-----------------------------------------------------------------------------
(* mapBlocksUnlinked, with pruning, without invalidateblock and            *)
(* reconsiderblock.                                                        *)

\* A failed block of b's branch has no data.  It is refused whenever it is sent,
\* so b waits for ever.
Dead(b) == \E f \in Branch(b) : f \in Failed /\ f \notin haveData

\* A waiting block has its data, and its parent waits too or has none: going
\* down from it one meets the missing block.  A received block that is not linked
\* waits, and a linked parent has linked its children, unless they are dead.
Queued ==
    /\ Genesis \notin unlinked
    /\ unlinked \subseteq haveData
    /\ \A b \in unlinked : pprev(b) \in unlinked \/ pprev(b) \notin haveData \/ Dead(b)
    /\ \A b \in haveData \ linked : b \in unlinked \/ Dead(b)
    /\ \A b \in haveData \ {Genesis} : pprev(b) \in linked => b \in linked \/ Dead(b)
    /\ \A b \in Failed \ linked : Dead(b)
    /\ \A b \in failedValid \ linked : b \notin haveData
    /\ \A b \in Failed : Spoilt(b)

\* What is above a dead block is dead.
LEMMA DeadAbove ==
    ASSUME NEW b \in Block, NEW a \in Branch(b), Dead(a)
    PROVE  Dead(b)
BY ZenonT(60), BranchFacts DEF Dead

\* The lowest block of a branch that is not linked: its parent is linked, and it
\* is above every linked block of the branch.
LEMMA FirstUnlinked ==
    ASSUME Shape, NEW b \in Block, b \notin linked
    PROVE  \E z \in Branch(b) \ linked :
              /\ z # Genesis /\ pprev(z) \in linked
              /\ \A f \in Branch(b) \cap linked : OnBranch(f, z) /\ f # z
<1>0. Branch(b) \subseteq Block /\ Genesis \in linked /\ b \in Branch(b)
  BY ZenonT(60), ShapeFacts, BranchFacts
<1> DEFINE S == {nHeight(x) : x \in Branch(b) \ linked}
<1>1. S \subseteq Nat /\ S # {}
  BY ZenonT(60), <1>0, Heights
<1>2. PICK m \in S : \A n \in S : m <= n
  BY ZenonT(60), <1>1, LeastNatural
<1>3. PICK z \in Branch(b) \ linked : \A y \in Branch(b) \ linked : nHeight(z) <= nHeight(y)
  BY ZenonT(60), <1>2
<1>4. z \in Block /\ z # Genesis
  BY ZenonT(60), <1>0, <1>3
<1>5. pprev(z) \in Branch(b) /\ nHeight(pprev(z)) = nHeight(z) - 1 /\ nHeight(z) \in Nat
  BY ZenonT(60), <1>0, <1>3, <1>4, BranchFacts, Parent, Heights
<1>6. ~(nHeight(z) <= nHeight(pprev(z)))
  BY <1>5
<1>7. pprev(z) \in linked
  BY ZenonT(60), <1>3, <1>5, <1>6
<1>8. ASSUME NEW f \in Branch(b) \cap linked PROVE OnBranch(f, z) /\ f # z
  <2>1. f \in Block /\ OnBranch(f, b) /\ OnBranch(z, b) /\ Len(f) \in Nat /\ Len(z) \in Nat
    BY ZenonT(60), <1>0, <1>3, <1>8, Heights DEF Branch, nHeight
  <2>2. ~OnBranch(z, f)
    BY ZenonT(60), <1>3, <1>4, <1>8 DEF Shape, Branch
  <2>3. ~(Len(z) <= Len(f))
    BY <1>4, <2>1, <2>2, AncestorsComparable
  <2>4. Len(f) <= Len(z)
    BY <2>1, <2>3
  <2> QED BY <1>3, <1>4, <1>8, <2>1, <2>4, AncestorsComparable
<1> QED BY ZenonT(60), <1>3, <1>4, <1>7, <1>8

\* Marks that are added above their cause, on linked or on dead blocks.
LEMMA MarksQueued ==
    ASSUME Queued, UNCHANGED <<haveData, linked, unlinked>>,
           failedValid \subseteq failedValid', failedChild \subseteq failedChild',
           \A b \in Failed' \ Failed : b \in linked \/ Dead(b)',
           \A b \in Failed' \ Failed : Branch(b) \cap failedValid' # {},
           \A b \in failedValid' \ failedValid : b \in linked \/ b \notin haveData
    PROVE  Queued'
<1>1. \A b : Dead(b) => Dead(b)'
  BY ZenonT(60) DEF Dead, Failed, Branch, OnBranch
<1>2. \A b : Branch(b) \cap failedValid' # {} => Spoilt(b)'
  BY ZenonT(60) DEF Spoilt, Branch, OnBranch
<1>3. \A b : Spoilt(b) => Spoilt(b)'
  BY ZenonT(60) DEF Spoilt, Branch, OnBranch
<1>4. \A b \in Failed' : Spoilt(b)'
  BY ZenonT(60), <1>2, <1>3 DEF Queued
<1>5. \A b \in Failed' \ linked' : Dead(b)'
  BY ZenonT(60), <1>1 DEF Queued
<1>6. \A b \in failedValid' \ linked' : b \notin haveData'
  BY ZenonT(60) DEF Queued
<1> QED BY ZenonT(60), <1>1, <1>4, <1>5, <1>6 DEF Queued

\* The state after LoadGenesisBlock satisfies Queued.
LEMMA InitQueued == Init => Queued
BY ZenonT(60) DEF Init, Queued, Failed

\* The blocks marked above a failed one are linked or dead: the lowest that is not
\* linked has no data, and it is marked too.
LEMMA HeaderRefusedQueued ==
    ASSUME Shape, Queued, NEW b \in Block, HeaderRefused(b)
    PROVE  Queued'
<1>1. PICK f \in FailedAncestors(b) :
         failedChild' = failedChild \cup {x \in Branch(pprev(b)) : OnBranch(f, x) /\ x # f}
  BY ZenonT(60) DEF HeaderRefused
<1>2. f \in Block /\ f \in failedValid /\ pprev(b) \in Block
  BY ZenonT(60) DEF FailedAncestors, Shape, TypeOK, HeaderRefused
<1>3. UNCHANGED <<haveData, linked, unlinked, failedValid>>
  BY ZenonT(60) DEF HeaderRefused, data
<1>4. ASSUME NEW x \in Failed' \ Failed PROVE (x \in linked \/ Dead(x)') /\ Branch(x) \cap failedValid' # {}
  <2>1. x \in Branch(pprev(b)) /\ x \in Block /\ f \in Branch(x) /\ OnBranch(f, x)
    BY ZenonT(60), <1>1, <1>2, <1>3, <1>4 DEF Failed, Branch
  <2>2. Branch(x) \cap failedValid' # {}
    BY ZenonT(60), <1>2, <1>3, <2>1
  <2>3. \A a \in Branch(x) : Dead(a) => Dead(x)'
    <3>1. \A a \in Branch(x) : Dead(a) => Dead(x)
      BY ZenonT(60), <2>1, DeadAbove
    <3>2. Dead(x) => Dead(x)'
      BY ZenonT(60), <1>1, <1>3 DEF Dead, Failed, Branch, OnBranch
    <3> QED BY <3>1, <3>2
  <2>4. CASE f \notin linked
    BY ZenonT(60), <1>2, <2>1, <2>2, <2>3, <2>4 DEF Queued, Failed
  <2>5. CASE f \in linked /\ x \notin linked
    <3>1. PICK z \in Branch(x) \ linked :
             /\ z # Genesis /\ pprev(z) \in linked
             /\ \A g \in Branch(x) \cap linked : OnBranch(g, z) /\ g # z
      BY ZenonT(60), <2>1, <2>5, FirstUnlinked
    <3>2. OnBranch(f, z) /\ f # z
      BY ZenonT(60), <2>1, <2>5, <3>1
    <3>3. z \in Branch(pprev(b))
      BY ZenonT(60), <1>2, <2>1, <3>1, BranchFacts
    <3>4. z \in Failed'
      BY ZenonT(60), <1>1, <3>2, <3>3 DEF Failed
    <3>5. CASE z \in haveData
      BY ZenonT(60), <2>2, <2>3, <3>1, <3>5 DEF Queued
    <3>6. CASE z \notin haveData
      <4>1. Dead(x)'
        BY ZenonT(60), <1>3, <3>1, <3>4, <3>6 DEF Dead, Branch, OnBranch
      <4> QED BY <2>2, <4>1
    <3> QED BY <3>5, <3>6
  <2> QED BY <2>2, <2>4, <2>5
<1> QED BY ZenonT(60), <1>1, <1>3, <1>4, MarksQueued

\* The blocks above a gap wait for it again.
LEMMA FindUnusableQueued ==
    ASSUME Shape, Queued, NEW c \in Block, FindUnusable(c)
    PROVE  Queued'
<1>1. PICK x \in Unusable(c) :
         /\ \A y \in Unusable(c) : nHeight(y) <= nHeight(x)
         /\ \/ x \in Failed /\ unlinked' = unlinked
               /\ failedChild' = failedChild \cup {y \in Branch(c) : OnBranch(x, y) /\ y # x}
            \/ x \notin Failed /\ failedChild' = failedChild
               /\ unlinked' = unlinked \cup {y \in Branch(c) : OnBranch(x, y) /\ y # x}
  BY ZenonT(60) DEF FindUnusable, Requeue
<1>2. UNCHANGED <<haveData, linked, failedValid>> /\ c \in linked /\ Branch(c) \subseteq linked
  BY ZenonT(60) DEF FindUnusable, data, Examined, Shape
<1>3. x \in Block /\ x \in Branch(c) /\ x \notin Branch(tip) /\ tip \in Block
  BY ZenonT(60), ShapeFacts DEF Unusable, Branch
<1>4. CASE x \in Failed
  <2>1. ASSUME NEW y \in Failed' \ Failed PROVE y \in linked /\ Branch(y) \cap failedValid' # {}
    <3>1. y \in Branch(c) /\ OnBranch(x, y)
      BY ZenonT(60), <1>1, <1>2, <1>4, <2>1 DEF Failed
    <3>2. y \in Block /\ x \in Branch(y)
      BY ZenonT(60), <1>3, <3>1 DEF Branch
    <3>3. Spoilt(y)
      BY ZenonT(60), <1>4, <3>2, SpoiltBelow DEF Queued
    <3> QED BY ZenonT(60), <1>2, <3>1, <3>3 DEF Spoilt
  <2> QED BY ZenonT(60), <1>1, <1>2, <1>4, <2>1, MarksQueued
<1>5. CASE x \notin Failed
  <2> DEFINE above == {y \in Branch(c) : OnBranch(x, y) /\ y # x}
  <2>1. unlinked' = unlinked \cup above /\ failedChild' = failedChild /\ x \notin haveData
    BY ZenonT(60), <1>1, <1>5 DEF Unusable
  <2>2. ASSUME NEW y \in above
        PROVE  y \in haveData /\ y # Genesis /\ (pprev(y) \in above \/ pprev(y) = x)
    <3>1. y \in Block /\ OnBranch(x, y) /\ y # x /\ nHeight(y) \in Nat /\ nHeight(x) \in Nat
      BY ZenonT(60), <1>3, Heights DEF Branch
    <3>2. y # Genesis
      <4>1. x \in Branch(y)
        BY ZenonT(60), <1>3, <3>1 DEF Branch
      <4>2. Branch(Genesis) = {Genesis}
        BY GenesisFacts
      <4> HIDE DEF above
      <4> QED BY ZenonT(60), <3>1, <4>1, <4>2
    <3>3. pprev(y) \in Branch(c) /\ OnBranch(x, pprev(y))
      BY ZenonT(60), <1>3, <3>1, <3>2, Parent, BranchFacts
    <3>4. y \notin Branch(tip)
      BY ZenonT(60), <1>3, <3>1, BranchFacts DEF Branch
    <3>5. Len(x) <= Len(y) /\ Len(x) # Len(y)
      BY <1>3, <3>1, OnBranchAntisymmetric DEF OnBranch, nHeight
    <3>6. ~(nHeight(y) <= nHeight(x))
      BY <3>1, <3>5 DEF nHeight
    <3>7. y \in haveData
      BY ZenonT(60), <1>1, <3>4, <3>6 DEF Unusable
    <3> QED BY ZenonT(60), <3>2, <3>3, <3>7
  <2>3. \A b : Dead(b)' <=> Dead(b)
    BY ZenonT(60), <1>2, <2>1 DEF Dead, Failed, Branch, OnBranch
  <2>4. \A b : Spoilt(b)' <=> Spoilt(b)
    BY ZenonT(60), <1>2 DEF Spoilt, Branch, OnBranch
  <2> HIDE DEF above
  <2>5. \A b \in unlinked' : pprev(b) \in unlinked' \/ pprev(b) \notin haveData' \/ Dead(b)'
    BY ZenonT(60), <1>2, <2>1, <2>2, <2>3 DEF Queued
  <2> QED BY ZenonT(60), <1>2, <2>1, <2>2, <2>3, <2>4, <2>5 DEF Queued, Failed
<1> QED BY <1>4, <1>5

\* When the data of b comes, everything that waits for b, and nothing else, stops
\* waiting; b itself waits unless its parent is linked or dead.
LEMMA ReceivedBlockTransactionsQueued ==
    ASSUME Shape, Queued, NEW b \in Block, b \notin haveData, b \notin Failed,
           ReceivedBlockTransactions(b), UNCHANGED marks
    PROVE  Queued'
<1>1. /\ haveData' = haveData \cup {b} /\ Failed' = Failed /\ failedValid' = failedValid
      /\ b \notin unlinked /\ \A x : Spoilt(x)' <=> Spoilt(x)
  BY ZenonT(60) DEF ReceivedBlockTransactions, Queued, Failed, Spoilt, Branch, OnBranch, marks
<1>2. \A x : Dead(x)' <=> Dead(x)
  BY ZenonT(60), <1>1 DEF Dead, Branch, OnBranch
<1>3. haveData \subseteq Block /\ unlinked \subseteq Block
  BY ZenonT(60) DEF Shape, TypeOK
<1>4. CASE pprev(b) \in linked
  <2> DEFINE L == NewlyLinked(b)
  <2>1. /\ linked' = linked \cup L /\ unlinked' = unlinked \ (L \ {b}) /\ b \in L
        /\ L \subseteq unlinked \cup {b}
    BY ZenonT(60), <1>4, LinkedClosed DEF ReceivedBlockTransactions, Unqueue
  <2>2. ASSUME NEW y \in unlinked, pprev(y) \in L PROVE y \in L
    <3>1. y \in Block /\ y # Genesis
      BY ZenonT(60), <1>3, <2>2 DEF Queued
    <3>2. /\ pprev(y) \in Block /\ OnBranch(b, pprev(y)) /\ OnBranch(pprev(y), y)
          /\ \A z \in Branch(pprev(y)) : OnBranch(b, z) /\ z # b => z \in unlinked
          /\ Branch(y) = Branch(pprev(y)) \cup {y}
      BY ZenonT(60), <2>2, <3>1, Parent, BranchFacts DEF NewlyLinked
    <3>3. OnBranch(b, y)
      BY <3>1, <3>2, OnBranchTransitive
    <3> QED BY ZenonT(60), <2>2, <3>1, <3>2, <3>3 DEF NewlyLinked
  <2> HIDE DEF L
  <2>3. Genesis \notin unlinked' /\ unlinked' \subseteq haveData'
    BY ZenonT(60), <1>1, <2>1 DEF Queued
  <2>4. ASSUME NEW y \in unlinked' PROVE pprev(y) \in unlinked' \/ pprev(y) \notin haveData' \/ Dead(y)'
    <3>1. y \in unlinked /\ y \notin L
      BY ZenonT(60), <1>1, <2>1, <2>4
    <3>2. pprev(y) \notin L
      BY <2>2, <3>1
    <3> QED BY ZenonT(60), <1>1, <1>2, <2>1, <3>1, <3>2 DEF Queued
  <2>5. ASSUME NEW y \in haveData' \ linked' PROVE y \in unlinked' \/ Dead(y)'
    BY ZenonT(60), <1>1, <1>2, <2>1, <2>5 DEF Queued
  <2>6. ASSUME NEW y \in haveData' \ {Genesis}, pprev(y) \in linked' PROVE y \in linked' \/ Dead(y)'
    <3>1. CASE y = b
      BY ZenonT(60), <2>1, <3>1
    <3>2. CASE y # b /\ pprev(y) \in linked
      BY ZenonT(60), <1>1, <1>2, <2>1, <2>6, <3>2 DEF Queued
    <3>3. CASE y # b /\ pprev(y) \in L /\ y \notin linked
      BY ZenonT(60), <1>1, <1>2, <2>1, <2>2, <2>6, <3>3 DEF Queued
    <3> QED BY ZenonT(60), <2>1, <2>6, <3>1, <3>2, <3>3
  <2>7. \A y \in failedValid' \ linked' : y \notin haveData'
    BY ZenonT(60), <1>1, <2>1 DEF Queued
  <2>8. /\ \A y \in Failed' \ linked' : Dead(y)'
        /\ \A y \in Failed' : Spoilt(y)'
    BY ZenonT(60), <1>1, <1>2, <2>1 DEF Queued
  <2> QED BY ZenonT(60), <2>3, <2>4, <2>5, <2>6, <2>7, <2>8 DEF Queued
<1>5. CASE pprev(b) \notin linked
  <2>1. b # Genesis /\ b \notin linked
    BY ZenonT(60), <1>5, GenesisFacts, ShapeFacts, BranchFacts DEF Shape
  <2>2. linked' = linked /\ unlinked \subseteq unlinked' /\ unlinked' \subseteq unlinked \cup {b}
        /\ (b \in unlinked' \/ pprev(b) \in Failed)
    BY ZenonT(60), <1>5, <2>1 DEF ReceivedBlockTransactions, Queue
  <2>3. pprev(b) \in Failed => Dead(b)
    BY ZenonT(60), <1>5, <2>1, BranchFacts, DeadAbove DEF Queued
  <2>4. b \in unlinked' \/ Dead(b)
    BY <2>2, <2>3
  <2>5. \A y \in Block \ {Genesis} : pprev(y) = b /\ Dead(b) => Dead(y)
    BY ZenonT(60), BranchFacts, DeadAbove
  <2>6. Dead(pprev(b)) => Dead(b)
    BY ZenonT(60), <2>1, BranchFacts, DeadAbove
  <2>7. ASSUME NEW y \in unlinked' PROVE pprev(y) \in unlinked' \/ pprev(y) \notin haveData' \/ Dead(y)'
    <3>1. CASE y = b
      <4>1. pprev(b) # b
        BY ZenonT(60), <2>1, BranchFacts
      <4>2. pprev(b) \in haveData => pprev(b) \in unlinked \/ Dead(pprev(b))
        BY ZenonT(60), <1>5 DEF Queued
      <4> QED BY ZenonT(60), <1>1, <1>2, <2>2, <2>6, <3>1, <4>1, <4>2
    <3>2. CASE y # b
      <4>1. y \in unlinked /\ y \in Block /\ y # Genesis
        BY ZenonT(60), <1>3, <2>2, <2>7, <3>2 DEF Queued
      <4>2. pprev(y) = b => b \in unlinked' \/ Dead(y)
        BY ZenonT(60), <2>4, <2>5, <4>1
      <4>3. pprev(y) # b => pprev(y) \in unlinked' \/ pprev(y) \notin haveData' \/ Dead(y)
        BY ZenonT(60), <1>1, <2>2, <4>1 DEF Queued
      <4> QED BY ZenonT(60), <1>2, <4>2, <4>3
    <3> QED BY <3>1, <3>2
  <2>8. Genesis \notin unlinked' /\ unlinked' \subseteq haveData'
    BY ZenonT(60), <1>1, <2>1, <2>2 DEF Queued
  <2>9. ASSUME NEW y \in haveData' \ linked' PROVE y \in unlinked' \/ Dead(y)'
    BY ZenonT(60), <1>1, <1>2, <2>2, <2>4, <2>9 DEF Queued
  <2>10. ASSUME NEW y \in haveData' \ {Genesis}, pprev(y) \in linked' PROVE y \in linked' \/ Dead(y)'
    BY ZenonT(60), <1>1, <1>2, <1>5, <2>2, <2>10 DEF Queued
  <2>11. /\ \A y \in Failed' \ linked' : Dead(y)' 
         /\ \A y \in failedValid' \ linked' : y \notin haveData'
         /\ \A y \in Failed' : Spoilt(y)'
    BY ZenonT(60), <1>1, <1>2, <2>2 DEF Queued, Failed
  <2> QED BY ZenonT(60), <2>7, <2>8, <2>9, <2>10, <2>11 DEF Queued
<1> QED BY <1>4, <1>5

\* Arriving headers and blocks preserve Queued.
LEMMA ArriveQueued ==
    ASSUME Shape, Queued, Arrive
    PROVE  Queued'
<1>1. CASE UNCHANGED <<data, marks, unlinked>>
  BY ZenonT(60), <1>1, MarksQueued DEF data, marks, Failed
<1>2. ASSUME NEW b \in Block, HeaderRefused(b) PROVE Queued'
  BY <1>2, HeaderRefusedQueued
<1>3. ASSUME NEW b \in Block, NEW requested \in BOOLEAN, AcceptBlock(b, requested) PROVE Queued'
  <2>1. CASE /\ ~Declined(b, requested)
             /\ failedValid' = failedValid \cup {b} /\ UNCHANGED <<data, failedChild, unlinked>>
    <3>1. b \notin haveData /\ b \in Branch(b)
      BY ZenonT(60), <2>1, BranchFacts DEF Declined
    <3>2. UNCHANGED <<haveData, linked, unlinked>> /\ failedValid \subseteq failedValid'
          /\ failedChild \subseteq failedChild'
      BY ZenonT(60), <2>1 DEF data
    <3>3. \A x \in Failed' \ Failed : x = b
      BY ZenonT(60), <2>1 DEF Failed
    <3>4. Dead(b)' /\ Branch(b) \cap failedValid' # {}
      BY ZenonT(60), <2>1, <3>1, <3>2 DEF Dead, Failed, Branch, OnBranch
    <3>5. \A x \in failedValid' \ failedValid : x \in linked \/ x \notin haveData
      BY ZenonT(60), <2>1, <3>1
    <3> QED BY ZenonT(60), <3>2, <3>3, <3>4, <3>5, MarksQueued
  <2>2. CASE /\ ~Declined(b, requested) /\ ReceivedBlockTransactions(b) /\ UNCHANGED marks
             /\ HeaderKnown(b) \/ HeaderNew(b)
    <3>1. b \notin haveData /\ b \notin Failed
      BY ZenonT(60), <2>2 DEF Declined, HeaderKnown, HeaderNew, Failed, Shape, TypeOK
    <3> QED BY ZenonT(60), <2>2, <3>1, ReceivedBlockTransactionsQueued
  <2> QED BY ZenonT(60), <1>1, <1>2, <1>3, <2>1, <2>2 DEF AcceptBlock
<1> QED BY ZenonT(60), <1>1, <1>2, <1>3 DEF Arrive, AcceptBlockHeader

\* ActivateBestChain preserves Queued: what it marks is linked.
LEMMA ActivateQueued ==
    ASSUME Shape, Queued, Activate
    PROVE  Queued'
<1>1. CASE \/ AbcLock \/ Settle \/ StepAbort \/ DisconnectTip \/ ConnectTip
           \/ \E c \in Block : FindBlocked(c) \/ StepBegin(c)
  <2>1. UNCHANGED <<data, failedValid, failedChild, unlinked>>
    BY ZenonT(60), <1>1
       DEF AbcLock, Settle, StepAbort, DisconnectTip, ConnectTip, FindBlocked, StepBegin, marks
  <2> QED BY ZenonT(60), <2>1, MarksQueued DEF data, Failed
<1>2. ASSUME NEW c \in Block, FindUnusable(c) PROVE Queued'
  BY <1>2, FindUnusableQueued
<1>3. CASE ConnectTipInvalid
  <2>1. Connecting \in Branch(Connecting) /\ Connecting \in linked
    <3>1. Connecting \in Block /\ Connecting \in Branch(abc.mostWork) /\ abc.mostWork \in linked
      BY ZenonT(60), <1>3, ConnectingFacts, ShapeFacts DEF ConnectTipInvalid, Shape
    <3> QED BY ZenonT(60), <3>1, BranchFacts DEF Shape
  <2>2. failedValid' = failedValid \cup {Connecting} /\ UNCHANGED <<data, failedChild, unlinked>>
    BY ZenonT(60), <1>3 DEF ConnectTipInvalid
  <2>3. UNCHANGED <<haveData, linked, unlinked>> /\ failedValid \subseteq failedValid'
        /\ failedChild \subseteq failedChild'
    BY ZenonT(60), <2>2 DEF data
  <2>4. \A x \in Failed' \ Failed : x = Connecting
    BY ZenonT(60), <2>2 DEF Failed
  <2>5. \A x \in failedValid' \ failedValid : x = Connecting
    BY ZenonT(60), <2>2
  <2>6. Branch(Connecting) \cap failedValid' # {}
    BY ZenonT(60), <2>1, <2>2
  <2> HIDE DEF Connecting
  <2> QED BY ZenonT(60), <2>1, <2>3, <2>4, <2>5, <2>6, MarksQueued
<1> QED BY <1>1, <1>2, <1>3 DEF Activate

\* A pruned block does not wait any more, and its children wait for it.
LEMMA PruneQueued ==
    ASSUME Queued, NEW b \in Block, PruneOneBlockFile(b)
    PROVE  Queued'
<1>1. /\ haveData' = haveData \ {b} /\ unlinked' = unlinked \ {b}
      /\ UNCHANGED <<linked, failedValid, failedChild>>
  BY ZenonT(60) DEF PruneOneBlockFile
<1>2. \A x : Dead(x) => Dead(x)'
  BY ZenonT(60), <1>1 DEF Dead, Failed, Branch, OnBranch
<1>3. \A x : Spoilt(x)' <=> Spoilt(x)
  BY ZenonT(60), <1>1 DEF Spoilt, Branch, OnBranch
<1>4. \A y \in unlinked' : pprev(y) \in unlinked' \/ pprev(y) \notin haveData' \/ Dead(y)'
  BY ZenonT(60), <1>1, <1>2 DEF Queued
<1>5. \A y \in haveData' \ linked' : y \in unlinked' \/ Dead(y)'
  BY ZenonT(60), <1>1, <1>2 DEF Queued
<1>6. \A y \in haveData' \ {Genesis} : pprev(y) \in linked' => y \in linked' \/ Dead(y)'
  BY ZenonT(60), <1>1, <1>2 DEF Queued
<1>7. Failed' = Failed
  BY ZenonT(60), <1>1 DEF Failed
<1> QED BY ZenonT(60), <1>1, <1>2, <1>3, <1>4, <1>5, <1>6, <1>7 DEF Queued

\* LoadBlockIndex, where nothing was pruned.  A mark that a restart loses is put
\* back on every block above a BLOCK_FAILED_VALID, so that what was dead stays so.
LEMMA RestartQueued ==
    ASSUME Shape, Queued, Restart, haveData = processed
    PROVE  Queued'
<1> DEFINE saved == failedValid \cup (failedChild \ unsaved)
           closed == {b \in index : \E f \in saved : OnBranch(f, b)}
<1>1. /\ linked' = {b \in index : Branch(b) \subseteq processed}
      /\ unlinked' = {b \in processed \ {Genesis} : pprev(b) \notin linked'}
      /\ failedChild' = (failedChild \ unsaved) \cup (closed \ saved)
      /\ UNCHANGED <<index, haveData, processed, failedValid>>
  BY ZenonT(60) DEF Restart, LoadedUnlinked
<1>2. processed \subseteq index /\ index \subseteq Block /\ saved \subseteq Failed /\ Failed \subseteq index
      /\ Genesis \in linked'
  <2>1. processed \subseteq index /\ index \subseteq Block /\ saved \subseteq Failed /\ Failed \subseteq index
    BY ZenonT(60), ShapeFacts DEF Failed, Shape, TypeOK
  <2>2. Genesis \in linked /\ Branch(Genesis) = {Genesis}
    BY ZenonT(60), ShapeFacts, GenesisFacts
  <2>3. Genesis \in linked'
    BY ZenonT(60), <1>1, <2>1, <2>2 DEF Shape
  <2> QED BY <2>1, <2>3
<1>3. closed \subseteq Failed' /\ failedValid \subseteq Failed' /\ failedValid \subseteq saved
  BY ZenonT(60), <1>1 DEF Failed
<1>4. ASSUME NEW b \in Failed' PROVE b \in index /\ Spoilt(b)
  <2>1. CASE b \in saved
    BY ZenonT(60), <1>2, <2>1 DEF Queued
  <2>2. CASE b \in closed
    <3>1. PICK f \in saved : OnBranch(f, b)
      BY ZenonT(60), <2>2
    <3>2. b \in Block /\ b \in index /\ f \in Branch(b) /\ Spoilt(f)
      BY ZenonT(60), <1>2, <2>2, <3>1 DEF Queued, Branch
    <3> QED BY <3>2, SpoiltBelow
  <2> QED BY ZenonT(60), <1>1, <1>4, <2>1, <2>2 DEF Failed
<1>5. \A f \in failedValid, b \in index : OnBranch(f, b) => b \in Failed'
  BY ZenonT(60), <1>3
<1>6. failedValid \subseteq Block
  BY ZenonT(60), <1>2 DEF Failed
<1> HIDE DEF saved, closed
<1>7. \A b \in processed \ {Genesis} : pprev(b) \in linked' => b \in linked'
  <2> TAKE b \in processed \ {Genesis}
  <2> HAVE pprev(b) \in linked'
  <2>1. b \in Block /\ Branch(b) = Branch(pprev(b)) \cup {b}
    BY ZenonT(60), <1>2, BranchFacts
  <2> QED BY ZenonT(60), <1>1, <1>2, <2>1
<1>8. ASSUME NEW b \in failedValid \ linked' PROVE b \notin haveData
  BY ZenonT(60), <1>1, <1>6, <1>8, <1>2 DEF Queued, Shape, Failed
<1>9. ASSUME NEW b \in Failed' \ linked' PROVE Dead(b)'
  <2>1. PICK f \in Branch(b) : f \in failedValid
    BY ZenonT(60), <1>4, <1>9 DEF Spoilt
  <2>2. b \in Block /\ b \in index
    BY ZenonT(60), <1>2, <1>4, <1>9
  <2>3. CASE f \notin haveData
    BY ZenonT(60), <1>1, <1>3, <2>1, <2>3 DEF Dead, Branch, OnBranch
  <2>4. CASE f \in haveData
    <3>1. f \in linked'
      BY ZenonT(60), <1>8, <2>1, <2>4
    <3>2. PICK z \in Branch(b) : z \notin processed
      BY ZenonT(60), <1>1, <1>9, <2>2
    <3>3. Branch(f) \subseteq processed
      BY ZenonT(60), <1>1, <3>1
    <3>4. /\ z \in Block /\ OnBranch(z, b) /\ f \in Block /\ OnBranch(f, b)
          /\ Len(f) \in Nat /\ Len(z) \in Nat
      BY ZenonT(60), <2>1, <3>2, Heights DEF Branch, nHeight
    <3>5. ~OnBranch(z, f)
      BY ZenonT(60), <3>2, <3>3, <3>4 DEF Branch
    <3>6. ~(Len(z) <= Len(f))
      BY <2>2, <3>4, <3>5, AncestorsComparable
    <3>7. OnBranch(f, z)
      BY <2>2, <3>4, <3>6, AncestorsComparable
    <3>8. z \in index
      BY ZenonT(60), <2>2, <3>2 DEF Shape, TypeOK
    <3>9. z \in Failed' /\ z \notin haveData'
      BY ZenonT(60), <1>1, <1>5, <2>1, <3>2, <3>7, <3>8
    <3> QED BY ZenonT(60), <3>2, <3>9 DEF Dead, Branch, OnBranch
  <2> QED BY <2>3, <2>4
<1>10. \A b : Spoilt(b)' <=> Spoilt(b)
  BY ZenonT(60), <1>1 DEF Spoilt, Branch, OnBranch
<1>11. \A b \in unlinked' : pprev(b) \in unlinked' \/ pprev(b) \notin haveData'
  BY ZenonT(60), <1>1, <1>2, <1>7
<1>12. \A b \in haveData' \ linked' : b \in unlinked'
  BY ZenonT(60), <1>1, <1>2, <1>7
<1> QED BY ZenonT(60), <1>1, <1>4, <1>7, <1>8, <1>9, <1>10, <1>11, <1>12 DEF Queued

\* Every step preserves Queued.
LEMMA NextQueued ==
    ASSUME Shape, Queued, [Next]_vars, "invalidateblock" \notin Ops, "reconsiderblock" \notin Ops,
           "restart" \in Ops => haveData = processed
    PROVE  Queued'
<1>1. ASSUME NEW b \in Block, PreciousBlock(b) PROVE Queued'
  BY ZenonT(60), <1>1, MarksQueued DEF PreciousBlock, data, marks, Failed
<1>2. CASE Restart
  BY ZenonT(60), <1>2, RestartQueued DEF Restart
<1>3. CASE Operate
  BY ZenonT(60), <1>1, <1>2, <1>3, PruneQueued DEF Operate, InvalidateBlock, ResetBlockFailureFlags
<1>4. CASE UNCHANGED vars
  BY ZenonT(60), <1>4, MarksQueued DEF vars, data, marks, Failed
<1> QED BY ZenonT(60), <1>3, <1>4, ActivateQueued, ArriveQueued DEF Next

\* Queued holds in every reachable state of a node without invalidateblock and
\* reconsiderblock that is not restarted after pruning.
LEMMA QueuedHolds ==
    ASSUME "invalidateblock" \notin Ops, "reconsiderblock" \notin Ops,
           ~({"prune", "restart"} \subseteq Ops)
    PROVE  Spec => []Queued
<1>1. CASE "prune" \notin Ops
  <2>1. Shape /\ Ordered /\ Queued /\ [Next]_vars => Queued'
    BY ZenonT(60), NextQueued DEF Ordered
  <2> QED BY <1>1, <2>1, InitQueued, ShapeHolds, OrderedHolds, PTL DEF Spec
<1>2. CASE "restart" \notin Ops
  <2>1. Shape /\ Queued /\ [Next]_vars => Queued'
    BY ZenonT(60), <1>2, NextQueued
  <2> QED BY <2>1, InitQueued, ShapeHolds, PTL DEF Spec
<1> QED BY <1>1, <1>2

\* Below a waiting block there is one that has no data: the lowest waiting block
\* of its branch has a parent that does not wait.
LEMMA WaitsForData ==
    ASSUME Shape, Queued, NEW b \in unlinked
    PROVE  ~(Branch(b) \subseteq haveData)
<1> SUFFICES ASSUME Branch(b) \subseteq haveData PROVE FALSE
  OBVIOUS
<1>0. b \in Block /\ Branch(b) \subseteq Block /\ b \in Branch(b)
  BY ZenonT(60), BranchFacts DEF Shape, TypeOK
<1> DEFINE S == {nHeight(x) : x \in Branch(b) \cap unlinked}
<1>1. S \subseteq Nat /\ S # {}
  BY ZenonT(60), <1>0, Heights
<1>2. PICK m \in S : \A n \in S : m <= n
  BY ZenonT(60), <1>1, LeastNatural
<1>3. PICK z \in Branch(b) \cap unlinked : \A y \in Branch(b) \cap unlinked : nHeight(z) <= nHeight(y)
  BY ZenonT(60), <1>2
<1>4. z \in Block /\ z # Genesis
  BY ZenonT(60), <1>0, <1>3 DEF Queued
<1>5. pprev(z) \in Branch(b) /\ nHeight(pprev(z)) = nHeight(z) - 1 /\ nHeight(z) \in Nat
  BY ZenonT(60), <1>0, <1>3, <1>4, BranchFacts, Parent, Heights
<1>6. ~(nHeight(z) <= nHeight(pprev(z)))
  BY <1>5
<1>7. pprev(z) \notin unlinked /\ pprev(z) \in haveData
  BY ZenonT(60), <1>3, <1>5, <1>6
<1>8. ~Dead(z)
  BY ZenonT(60), <1>0, <1>3, BranchFacts DEF Dead
<1> QED BY ZenonT(60), <1>3, <1>7, <1>8 DEF Queued

\* An entry of mapBlocksUnlinked has its data and misses that of an ancestor, as
\* CheckBlockIndex asserts, in whatever order blocks arrive, fail and are pruned.
\* LoadBlockIndex enters pruned blocks too, so a restart after pruning is left out.
THEOREM UnlinkedIsSound ==
    ASSUME "invalidateblock" \notin Ops, "reconsiderblock" \notin Ops,
           ~({"prune", "restart"} \subseteq Ops)
    PROVE  Spec => []UnlinkedSound
<1>1. Shape /\ Queued => UnlinkedSound
  BY ZenonT(60), WaitsForData DEF UnlinkedSound, Queued
<1> QED BY <1>1, ShapeHolds, QueuedHolds, PTL

-----------------------------------------------------------------------------
(* The candidates of a node that prunes, and where nothing else interferes. *)

\* Candidates have their data and do not wait, and no block waits for one of the
\* active chain.
Parked ==
    /\ candidates \subseteq haveData
    /\ unlinked \cap candidates = {}
    /\ \A b \in unlinked : pprev(b) \notin Branch(tip)

\* The state after LoadGenesisBlock satisfies Parked.
LEMMA InitParked == Init => Parked
BY ZenonT(60) DEF Init, Parked

\* Received data makes candidates of the blocks that do not wait any more, and
\* renumbers no candidate.
LEMMA ReceivedBlockTransactionsParked ==
    ASSUME Shape, Queued, Parked, NEW b \in Block, b \notin haveData, ReceivedBlockTransactions(b),
           tip' = tip
    PROVE  Parked' /\ \A c \in candidates : nSequenceId'[c] = nSequenceId[c]
<1>1. haveData' = haveData \cup {b} /\ b \notin unlinked /\ b \notin candidates /\ candidates \subseteq Block
  BY ZenonT(60) DEF ReceivedBlockTransactions, Queued, Parked, Shape, TypeOK
<1>2. CASE pprev(b) \in linked
  <2> DEFINE L == NewlyLinked(b)
  <2>1. PICK f \in Numberings(L, b) :
           LET sq == [x \in Block |-> IF x \in L THEN f[x] ELSE nSequenceId[x]] IN
           nSequenceId' = sq /\ candidates' = candidates \cup Promising(L, sq)
    BY ZenonT(60), <1>2 DEF ReceivedBlockTransactions
  <2>2. unlinked' = unlinked \ (L \ {b}) /\ L \subseteq unlinked \cup {b}
    BY ZenonT(60), <1>2, LinkedClosed DEF ReceivedBlockTransactions, Unqueue
  <2> HIDE DEF L
  <2>3. candidates' \subseteq candidates \cup L
    BY ZenonT(60), <2>1 DEF Promising
  <2>4. L \cap candidates = {}
    BY ZenonT(60), <1>1, <2>2 DEF Parked
  <2>5. \A c \in candidates : nSequenceId'[c] = nSequenceId[c]
    BY ZenonT(60), <1>1, <2>1, <2>4
  <2>6. candidates' \subseteq haveData' /\ unlinked' \cap candidates' = {}
    BY ZenonT(60), <1>1, <2>2, <2>3 DEF Parked, Queued
  <2> QED BY ZenonT(60), <2>2, <2>5, <2>6 DEF Parked
<1>3. CASE pprev(b) \notin linked
  <2>1. unlinked' \subseteq unlinked \cup {b} /\ candidates' = candidates /\ nSequenceId' = nSequenceId
    BY ZenonT(60), <1>3 DEF ReceivedBlockTransactions, Queue, seqs
  <2>2. pprev(b) \notin Branch(tip)
    BY ZenonT(60), <1>3 DEF Shape
  <2> QED BY ZenonT(60), <1>1, <2>1, <2>2 DEF Parked
<1> QED BY <1>2, <1>3

\* Arriving headers and blocks preserve Parked and renumber no candidate.
LEMMA ArriveParked ==
    ASSUME Shape, Queued, Parked, Arrive
    PROVE  Parked' /\ \A c \in candidates : nSequenceId'[c] = nSequenceId[c]
<1>1. CASE UNCHANGED <<data, seqs, candidates, unlinked, tip>>
  BY ZenonT(60), <1>1 DEF Parked, data, seqs
<1>2. ASSUME NEW b \in Block, NEW requested \in BOOLEAN, ~Declined(b, requested),
             ReceivedBlockTransactions(b), tip' = tip
      PROVE  Parked' /\ \A c \in candidates : nSequenceId'[c] = nSequenceId[c]
  BY ZenonT(60), <1>2, ReceivedBlockTransactionsParked DEF Declined
<1> QED BY ZenonT(60), <1>1, <1>2 DEF Arrive, AcceptBlockHeader, AcceptBlock, HeaderRefused

\* ActivateBestChain preserves Parked: a block whose branch has a gap stops being
\* a candidate when it begins to wait, and no block waits for one that is connected.
LEMMA ActivateParked ==
    ASSUME Shape, Sound, Queued, Parked, Activate
    PROVE  Parked'
<1>0. tip \in Block
  BY ShapeFacts
<1>1. CASE \/ AbcLock \/ Settle \/ StepAbort \/ ConnectTipInvalid
           \/ \E c \in Block : FindBlocked(c) \/ StepBegin(c)
  <2>1. UNCHANGED <<haveData, unlinked, tip>> /\ candidates' \subseteq candidates
    BY ZenonT(60), <1>1
       DEF AbcLock, Settle, StepAbort, ConnectTipInvalid, FindBlocked, StepBegin, data
  <2> QED BY ZenonT(60), <2>1 DEF Parked
<1>2. ASSUME NEW c \in Block, FindUnusable(c) PROVE Parked'
  <2> DEFINE above(x) == {y \in Branch(c) : OnBranch(x, y) /\ y # x}
  <2>1. PICK x \in Unusable(c) :
           /\ candidates' = candidates \ (above(x) \cup {x})
           /\ unlinked' \subseteq unlinked \cup above(x)
    BY ZenonT(60), <1>2 DEF FindUnusable, Requeue
  <2>2. UNCHANGED <<haveData, tip>>
    BY ZenonT(60), <1>2 DEF FindUnusable, data
  <2>3. ASSUME NEW y \in above(x) PROVE pprev(y) \notin Branch(tip)
    <3>1. x \in Block /\ x \notin Branch(tip) /\ y \in Block /\ OnBranch(x, y) /\ x # y
      BY ZenonT(60), <2>1, <2>3 DEF Unusable, Branch
    <3>2. x \in Branch(y) /\ Branch(Genesis) = {Genesis}
      BY ZenonT(60), <3>1, GenesisFacts DEF Branch
    <3> HIDE DEF above
    <3>3. y # Genesis
      BY ZenonT(60), <3>1, <3>2
    <3>4. x \in Branch(pprev(y))
      BY ZenonT(60), <3>1, <3>3, Parent DEF Branch
    <3> QED BY ZenonT(60), <1>0, <3>1, <3>4, BranchFacts
  <2> HIDE DEF above
  <2> QED BY ZenonT(60), <2>1, <2>2, <2>3 DEF Parked
<1>3. CASE DisconnectTip
  <2>1. UNCHANGED <<haveData, unlinked, candidates>> /\ tip' = pprev(tip)
    BY ZenonT(60), <1>3 DEF DisconnectTip, data
  <2>2. Branch(pprev(tip)) \subseteq Branch(tip)
    BY ZenonT(60), <1>0, BranchFacts, GenesisFacts
  <2> QED BY ZenonT(60), <2>1, <2>2 DEF Parked
<1>4. CASE ConnectTip
  <2>1. /\ UNCHANGED <<haveData, unlinked>> /\ tip' = Connecting /\ candidates' \subseteq candidates
        /\ abc.pc = "connect" /\ Needed \in haveData
    BY ZenonT(60), <1>4 DEF ConnectTip, data, PruneBlockIndexCandidates
  <2>2. /\ Connecting \in Block /\ Connecting # Genesis /\ pprev(Connecting) = tip
        /\ Connecting \in Branch(abc.mostWork) /\ abc.mostWork \in Block /\ Connecting \in haveData
    BY ZenonT(60), <2>1, ConnectingFacts DEF Needed
  <2>3. Branch(Connecting) = Branch(tip) \cup {Connecting} /\ Branch(Connecting) \cap Failed = {}
    <3>1. Branch(abc.mostWork) \cap Failed = {}
      BY ZenonT(60), <2>2, ChainStateAssumption DEF Sound
    <3> QED BY ZenonT(60), <2>2, <3>1, BranchFacts
  <2>4. ASSUME NEW y \in unlinked, pprev(y) = Connecting PROVE FALSE
    <3>1. tip \in Branch(tip)
      BY <1>0, BranchFacts
    <3>2. Connecting \notin unlinked
      BY ZenonT(60), <2>2, <3>1 DEF Parked
    <3>3. y \in Block /\ y # Genesis /\ y \in haveData
      BY ZenonT(60) DEF Queued, Shape, TypeOK
    <3>4. Branch(y) = Branch(Connecting) \cup {y}
      BY ZenonT(60), <2>4, <3>3, BranchFacts
    <3>5. ~Dead(y)
      BY ZenonT(60), <2>3, <3>3, <3>4 DEF Dead
    <3> QED BY ZenonT(60), <2>2, <2>4, <3>2, <3>5 DEF Queued
  <2> HIDE DEF Connecting
  <2> QED BY ZenonT(60), <2>1, <2>3, <2>4 DEF Parked
<1> QED BY <1>1, <1>2, <1>3, <1>4 DEF Activate

\* Pruning takes no candidate: they are as high as the tip at least.
LEMMA PruneParked ==
    ASSUME Shape, Parked, NEW b \in Block, PruneOneBlockFile(b), MinBlocksToKeep > 0
    PROVE  Parked'
<1>1. /\ haveData' = haveData \ {b} /\ unlinked' = unlinked \ {b} /\ UNCHANGED <<candidates, tip>>
      /\ nHeight(b) <= nHeight(tip) - MinBlocksToKeep
  BY ZenonT(60) DEF PruneOneBlockFile
<1>2. nHeight(b) \in Nat /\ nHeight(tip) \in Nat /\ MinBlocksToKeep \in Nat
  BY ZenonT(60), ShapeFacts, Heights, ChainStateAssumption
<1>3. ~(nHeight(b) >= nHeight(tip))
  BY <1>1, <1>2
<1>4. b \notin candidates
  BY ZenonT(60), <1>3 DEF Shape
<1> QED BY ZenonT(60), <1>1, <1>4 DEF Parked

\* Parked holds in every reachable state of a node where the operator does nothing
\* but let it prune.
LEMMA ParkedHolds ==
    ASSUME Ops \subseteq {"prune"}, MinBlocksToKeep > 0
    PROVE  Spec => []Parked
<1>0. /\ "invalidateblock" \notin Ops /\ "reconsiderblock" \notin Ops
      /\ ~({"prune", "restart"} \subseteq Ops)
  OBVIOUS
<1>1. Shape /\ Sound /\ Queued /\ Parked /\ [Next]_vars => Parked'
  <2>1. ASSUME Parked, UNCHANGED vars PROVE Parked'
    BY ZenonT(60), <2>1 DEF Parked, vars, data
  <2>2. ASSUME Operate PROVE \E b \in Block : PruneOneBlockFile(b)
    BY ZenonT(60), <2>2 DEF Operate, InvalidateBlock, ResetBlockFailureFlags, PreciousBlock, Restart
  <2> QED BY ZenonT(60), <2>1, <2>2, ActivateParked, ArriveParked, PruneParked DEF Next
<1> QED BY <1>0, <1>1, InitParked, ShapeHolds, SoundHolds, QueuedHolds, PTL DEF Spec

\* ReceivedBlockTransactions never changes the sort key of a candidate, however
\* blocks are pruned and downloaded again.
THEOREM PrunedSortKeysAreStable ==
    ASSUME Ops \subseteq {"prune"}, MinBlocksToKeep > 0
    PROVE  Spec => SortKeyStable
<1>0. /\ "invalidateblock" \notin Ops /\ "reconsiderblock" \notin Ops
      /\ ~({"prune", "restart"} \subseteq Ops)
  OBVIOUS
<1>1. Shape /\ Queued /\ Parked /\ [Next]_vars => [KeepsSortKeys]_vars
  <2>1. ASSUME Activate \/ Operate PROVE UNCHANGED nSequenceId
    BY ZenonT(60), <2>1
       DEF Activate, AbcLock, Settle, StepAbort, DisconnectTip, ConnectTip, ConnectTipInvalid,
           FindBlocked, FindUnusable, StepBegin, Operate, InvalidateBlock, ResetBlockFailureFlags,
           PreciousBlock, Restart, PruneOneBlockFile, seqs
  <2> QED BY ZenonT(60), <2>1, ArriveParked DEF Next, KeepsSortKeys
<1> QED BY <1>0, <1>1, ShapeHolds, QueuedHolds, ParkedHolds, PTL DEF Spec, SortKeyStable

-----------------------------------------------------------------------------
(* A node that prunes and meets no block that fails to connect.            *)

\* Every candidate is as good as the tip.
Graded == \A c \in candidates : ~Worse(nSequenceId, c, tip)

\* While cs_main is held, the tip is on the way from the one it was taken with to
\* a target that does not sort before that one, above what the rollback limit
\* protects there.
Underway ==
    ~csMainFree /\ abc.pc # "aborted" =>
        /\ OnBranch(Protected(abc.start), tip)
        /\ abc.mostWork # NoBlock =>
              ~Worse(nSequenceId, abc.mostWork, abc.start) /\ OnBranch(Protected(abc.start), abc.mostWork)
        /\ abc.pc \in {"find", "undo"} => tip = abc.start \/ Worse(nSequenceId, tip, abc.start)
        /\ abc.pc = "undo" => abc.old = abc.start
        /\ abc.pc = "find" /\ abc.mostWork = NoBlock => tip = abc.start

\* The tip by which it is decided what is worth keeping.
Reference == IF csMainFree THEN tip ELSE abc.start

\* A received block that is linked is a candidate or waits, unless there is a
\* reason not to consider it.
Accounted ==
    abc.pc # "aborted" =>
        \A b \in linked \cap haveData :
            \/ b \in candidates \/ b \in unlinked
            \/ Branch(b) \cap Failed # {}
            \/ Worse(nSequenceId, b, Reference) \/ Worse(nSequenceId, b, tip)
            \/ ~IsAutomaticReorgAllowed(Reference, b)

\* What sorts before a block sorts before everything that is as good as that block.
LEMMA WorseTransitive ==
    ASSUME NEW sq \in [Block -> Int], NEW a \in Block, NEW b \in Block, NEW c \in Block,
           Worse(sq, a, b), ~Worse(sq, c, b)
    PROVE  Worse(sq, a, c)
<1>1. /\ nHeight(a) \in Nat /\ nHeight(b) \in Nat /\ nHeight(c) \in Nat
      /\ Addr[a] \in Nat /\ Addr[b] \in Nat /\ Addr[c] \in Nat
      /\ sq[a] \in Int /\ sq[b] \in Int /\ sq[c] \in Int
  BY ZenonT(60), Heights, ChainStateAssumption
<1> HIDE DEF nHeight
<1> QED BY <1>1 DEF Worse

\* The rollback limit only tightens as the chain grows above the block it protects.
LEMMA AllowedBefore ==
    ASSUME NEW s \in Block, NEW t \in Block, NEW b \in Block,
           OnBranch(Protected(s), t), nHeight(t) >= nHeight(s), IsAutomaticReorgAllowed(t, b)
    PROVE  IsAutomaticReorgAllowed(s, b)
<1> DEFINE h == MaxInt(0, nHeight(s) - MaxReorgDepth)
<1>1. nHeight(s) \in Nat /\ nHeight(t) \in Nat /\ nHeight(b) \in Nat /\ MaxReorgDepth \in Nat
  BY ZenonT(60), Heights, ChainStateAssumption
<1>2. h \in 0 .. nHeight(s)
  BY <1>1 DEF MaxInt
<1>3. Protected(s) = GetAncestor(s, h)
  BY ZenonT(60) DEF Protected
<1>4. Protected(s) \in Block /\ nHeight(Protected(s)) = h /\ h \in Nat
  BY ZenonT(60), <1>2, <1>3, AncestorOnBranch, Heights
<1>5. Protected(t) \in Block /\ OnBranch(Protected(t), t) /\ OnBranch(Protected(t), b)
  BY ZenonT(60), ProtectedFacts
<1>6. nHeight(Protected(t)) = MaxInt(0, nHeight(t) - MaxReorgDepth)
  <2>1. MaxInt(0, nHeight(t) - MaxReorgDepth) \in 0 .. nHeight(t)
    BY <1>1 DEF MaxInt
  <2> QED BY ZenonT(60), <2>1, AncestorOnBranch DEF Protected
<1>7. nHeight(Protected(s)) <= nHeight(Protected(t))
  <2>1. h <= MaxInt(0, nHeight(t) - MaxReorgDepth)
    BY <1>1 DEF MaxInt
  <2> QED BY ZenonT(60), <1>4, <1>6, <2>1
<1> HIDE DEF h
<1>8. OnBranch(Protected(s), Protected(t))
  BY ZenonT(60), <1>4, <1>5, <1>7, AncestorsComparable DEF nHeight
<1>9. OnBranch(Protected(s), b)
  BY ZenonT(60), <1>4, <1>5, <1>8, OnBranchTransitive
<1>10. GetAncestor(b, h) = GetAncestor(s, h)
  BY ZenonT(60), <1>3, <1>4, <1>9, AncestorUnique
<1>11. nHeight(b) >= h
  <2>1. nHeight(Protected(s)) <= nHeight(b)
    BY ZenonT(60), <1>9 DEF OnBranch, nHeight
  <2> QED BY <1>1, <1>4, <2>1
<1> QED BY ZenonT(60), <1>10, <1>11 DEF IsAutomaticReorgAllowed, h

\* The steps of ActivateBestChain preserve Graded.
LEMMA ActivateGraded ==
    ASSUME Shape, Graded, Activate
    PROVE  Graded'
<1>0. tip \in Block /\ candidates \subseteq Block /\ \A c \in candidates : nHeight(c) >= nHeight(tip)
  BY ZenonT(60), ShapeFacts DEF Shape, TypeOK
<1>1. CASE DisconnectTip
  <2>1. tip' = pprev(tip) /\ UNCHANGED <<candidates, nSequenceId>> /\ abc.pc = "undo"
    BY ZenonT(60), <1>1 DEF DisconnectTip, seqs
  <2>2. tip # Genesis
    <3>1. ~OnBranch(tip, abc.mostWork) /\ abc.mostWork \in Block
      BY ZenonT(60), <2>1, ShapeFacts DEF Shape, StepShape
    <3> QED BY ZenonT(60), <3>1, Heights
  <2>3. pprev(tip) \in Block /\ nHeight(pprev(tip)) = nHeight(tip) - 1 /\ nHeight(tip) \in Nat
    BY ZenonT(60), <1>0, <2>2, Parent, Heights
  <2>4. ASSUME NEW c \in candidates PROVE ~Worse(nSequenceId, c, pprev(tip))
    <3>1. nHeight(c) \in Nat /\ nHeight(c) >= nHeight(tip) /\ c \in Block
      BY ZenonT(60), <1>0, Heights
    <3>2. nHeight(c) > nHeight(pprev(tip))
      BY <2>3, <3>1
    <3> QED BY ZenonT(60), <2>3, <3>1, <3>2, WorseHeight
  <2> QED BY ZenonT(60), <2>1, <2>4 DEF Graded, Worse
<1>2. CASE ConnectTip
  BY ZenonT(60), <1>2 DEF ConnectTip, PruneBlockIndexCandidates, Graded, Worse, seqs
<1>3. CASE \/ AbcLock \/ Settle \/ StepAbort \/ ConnectTipInvalid
           \/ \E c \in Block : FindBlocked(c) \/ FindUnusable(c) \/ StepBegin(c)
  <2>1. UNCHANGED <<nSequenceId, tip>> /\ candidates' \subseteq candidates
    BY ZenonT(60), <1>3
       DEF AbcLock, Settle, StepAbort, ConnectTipInvalid, FindBlocked, FindUnusable, StepBegin, seqs
  <2> QED BY ZenonT(60), <2>1 DEF Graded, Worse
<1> QED BY <1>1, <1>2, <1>3 DEF Activate

\* A call of ActivateBestChain stays underway, and releases cs_main only on a tip
\* that the one it was taken with does not beat.
LEMMA ActivateUnderway ==
    ASSUME Shape, Shape', OnWay, Graded, Underway, Activate, \A b \in Block : ConnectBlock(b)
    PROVE  Underway' /\ Advances
<1>0. /\ tip \in Block /\ abc.start \in Block /\ NoBlock \notin Block /\ abc \in AbcState
      /\ nSequenceId \in [Block -> Int] /\ (abc.mostWork # NoBlock => abc.mostWork \in Block)
  BY ZenonT(60), ShapeFacts, ChainStateAssumption DEF Shape, TypeOK
<1>1. CASE AbcLock
  <2>1. /\ csMainFree /\ abc'.pc = "find" /\ abc'.start = tip /\ abc'.mostWork = abc.mostWork
        /\ UNCHANGED <<nSequenceId, tip>>
    BY ZenonT(60), <1>1, LockCases DEF AbcLock, seqs
  <2>2. Protected(tip) \in Block /\ OnBranch(Protected(tip), tip)
    BY ZenonT(60), <1>0, ProtectedFacts
  <2>3. ASSUME abc.mostWork # NoBlock
        PROVE  ~Worse(nSequenceId, abc.mostWork, tip) /\ OnBranch(Protected(tip), abc.mostWork)
    <3>1. OnBranch(tip, abc.mostWork) /\ abc.mostWork \in Block
      BY ZenonT(60), <1>0, <2>1, <2>3 DEF OnWay, csMainFree
    <3> QED BY ZenonT(60), <1>0, <2>2, <3>1, Onwards, OnBranchTransitive
  <2>4. Underway'
    BY ZenonT(60), <2>1, <2>2, <2>3 DEF Underway, Worse, Protected
  <2> QED BY ZenonT(60), <2>1, <2>4 DEF Advances
<1>2. CASE Settle
  <2>1. csMainFree' /\ tip' = tip /\ abc.pc = "find" /\ ~csMainFree
    BY ZenonT(60), <1>2, LockCases DEF Settle, csMainFree
  <2>2. ~Worse(nSequenceId, tip, abc.start)
    <3>1. CASE abc.mostWork = NoBlock
      <4>1. tip = abc.start
        BY ZenonT(60), <2>1, <3>1 DEF Underway
      <4> QED BY ZenonT(60), <1>0, <4>1, Onwards, OnBranchReflexive
    <3>2. CASE abc.mostWork = tip
      BY ZenonT(60), <1>0, <2>1, <3>2 DEF Underway
    <3> QED BY ZenonT(60), <1>2, <3>1, <3>2 DEF Settle, Found, Examined
  <2> QED BY ZenonT(60), <2>1, <2>2 DEF Underway, Advances
<1>3. CASE StepAbort
  <2>1. abc'.pc = "aborted"
    BY ZenonT(60), <1>3, LockCases
  <2> QED BY ZenonT(60), <2>1 DEF Underway, Advances, csMainFree
<1>4. ASSUME NEW c \in Block, FindBlocked(c) \/ FindUnusable(c) PROVE Underway' /\ Advances
  <2>1. UNCHANGED <<nSequenceId, tip, abc>>
    BY ZenonT(60), <1>4 DEF FindBlocked, FindUnusable, seqs
  <2> QED BY ZenonT(60), <2>1 DEF Underway, Advances, csMainFree, Worse, Protected
<1>5. ASSUME NEW c \in Block, StepBegin(c) PROVE Underway' /\ Advances
  <2>1. /\ ~csMainFree /\ abc.pc = "find" /\ UNCHANGED <<nSequenceId, tip>>
        /\ (abc.mostWork = c \/ Found(c))
    BY ZenonT(60), <1>5 DEF StepBegin, csMainFree, seqs
  <2>2. /\ IsAutomaticReorgAllowed(tip, c)
        /\ ~Worse(nSequenceId, c, abc.start) /\ OnBranch(Protected(abc.start), c)
        /\ OnBranch(tip, c) \/ tip = abc.start
    <3>1. CASE abc.mostWork = c
      <4>1. OnBranch(tip, c)
        BY ZenonT(60), <1>0, <2>1, <3>1 DEF OnWay
      <4> QED BY ZenonT(60), <1>0, <2>1, <3>1, <4>1, Onwards DEF Underway
    <3>2. CASE Found(c)
      <4>1. abc.mostWork = NoBlock /\ c \in candidates /\ IsAutomaticReorgAllowed(tip, c)
        BY ZenonT(60), <3>2 DEF Found, Examined
      <4>2. tip = abc.start
        BY ZenonT(60), <2>1, <4>1 DEF Underway
      <4>3. OnBranch(Protected(tip), c)
        BY ZenonT(60), <1>0, <4>1, ProtectedFacts
      <4> QED BY ZenonT(60), <4>1, <4>2, <4>3 DEF Graded
    <3> QED BY <2>1, <3>1, <3>2
  <2>3. /\ abc'.pc = UndoOrConnect(tip, c) /\ abc'.mostWork = c /\ abc'.start = abc.start
    BY ZenonT(60), <1>5, <2>2, StepBeginCases
  <2>4. abc'.pc \in {"undo", "connect"} /\ (abc'.pc = "undo" => ~OnBranch(tip, c))
    BY ZenonT(60), <2>3 DEF UndoOrConnect
  <2>5. abc'.old = tip
    <3>1. abc' = [abc EXCEPT !.pc = UndoOrConnect(tip, c), !.mostWork = c, !.old = tip]
      BY ZenonT(60), <1>5, <2>2 DEF StepBegin
    <3> QED BY <1>0, <3>1 DEF AbcState
  <2>6. OnBranch(Protected(abc.start), tip)
    BY ZenonT(60), <2>1 DEF Underway
  <2>7. Underway'
    BY ZenonT(60), <2>1, <2>2, <2>3, <2>4, <2>5, <2>6 DEF Underway, Worse, Protected
  <2> QED BY ZenonT(60), <2>4, <2>7 DEF Advances, csMainFree
<1>6. CASE DisconnectTip
  <2>1. /\ ~csMainFree /\ UNCHANGED nSequenceId /\ abc.pc = "undo" /\ tip' = pprev(tip)
        /\ abc'.pc = UndoOrConnect(tip', abc.mostWork)
        /\ abc'.start = abc.start /\ abc'.mostWork = abc.mostWork
    BY ZenonT(60), <1>6, LockCases DEF DisconnectTip, csMainFree, seqs
  <2>2. abc'.old = abc.old
    <3>1. abc' = [abc EXCEPT !.pc = UndoOrConnect(tip', abc.mostWork)]
      BY ZenonT(60), <1>6 DEF DisconnectTip
    <3> QED BY <1>0, <3>1 DEF AbcState
  <2>3. abc'.pc \in {"undo", "connect"}
    BY ZenonT(60), <2>1 DEF UndoOrConnect
  <2>4. abc.old = abc.start /\ OnBranch(Protected(abc.start), tip')
    <3>1. abc.old = abc.start
      BY ZenonT(60), <2>1 DEF Underway
    <3>2. OnBranch(Protected(abc'.old), tip')
      BY ZenonT(60), <2>3 DEF Shape, StepShape, Protected
    <3> QED BY ZenonT(60), <2>2, <3>1, <3>2
  <2>5. Worse(nSequenceId, tip', abc.start)
    <3>1. tip # Genesis
      <4>1. ~OnBranch(tip, abc.mostWork) /\ abc.mostWork \in Block
        BY ZenonT(60), <2>1, ShapeFacts DEF Shape, StepShape
      <4> QED BY ZenonT(60), <4>1, Heights
    <3>2. /\ tip' \in Block /\ nHeight(tip') = nHeight(tip) - 1
          /\ nHeight(tip) \in Nat /\ nHeight(abc.start) \in Nat
      BY ZenonT(60), <1>0, <2>1, <3>1, Parent, Heights
    <3>3. nHeight(abc.start) >= nHeight(tip)
      <4>1. tip = abc.start \/ Worse(nSequenceId, tip, abc.start)
        BY ZenonT(60), <2>1 DEF Underway
      <4>2. CASE tip = abc.start
        BY <3>2, <4>2
      <4> QED BY ZenonT(60), <1>0, <4>1, <4>2, WorseHeight
    <3>4. nHeight(tip') < nHeight(abc.start)
      BY <3>2, <3>3
    <3> QED BY ZenonT(60), <3>4 DEF Worse
  <2>6. Underway'
    BY ZenonT(60), <2>1, <2>2, <2>3, <2>4, <2>5 DEF Underway, Worse, Protected
  <2> QED BY ZenonT(60), <2>3, <2>6 DEF Advances, csMainFree
<1>7. CASE ConnectTip
  <2>1. ~csMainFree /\ UNCHANGED nSequenceId /\ tip' = Connecting /\ abc.pc = "connect"
    BY ZenonT(60), <1>7 DEF ConnectTip, csMainFree, seqs
  <2>2. /\ tip' \in Block /\ OnBranch(tip, tip') /\ abc.mostWork # NoBlock
    BY ZenonT(60), <1>0, <2>1, ConnectingFacts
  <2>3. OnBranch(Protected(abc.start), tip')
    <3>1. OnBranch(Protected(abc.start), tip) /\ Protected(abc.start) \in Block
      BY ZenonT(60), <1>0, <2>1, ProtectedFacts DEF Underway
    <3> QED BY ZenonT(60), <1>0, <2>2, <3>1, OnBranchTransitive
  <2>4. CASE abc' = abc
    BY ZenonT(60), <2>1, <2>2, <2>3, <2>4 DEF Underway, Advances, csMainFree, Worse, Protected
  <2>5. CASE /\ Worse(nSequenceId, tip', abc.start)
             /\ abc'.pc = "find" /\ abc'.start = abc.start /\ abc'.mostWork = abc.mostWork
    <3>1. Underway'
      BY ZenonT(60), <2>1, <2>2, <2>3, <2>5 DEF Underway, Worse, Protected
    <3> QED BY ZenonT(60), <2>5, <3>1 DEF Advances, csMainFree
  <2>6. CASE ~Worse(nSequenceId, tip', abc.start) /\ abc'.pc \in {"idle", "free"}
    BY ZenonT(60), <2>6 DEF Underway, Advances, csMainFree
  <2> QED BY ZenonT(60), <1>7, <2>4, <2>5, <2>6, ConnectTipCases
<1>8. ~ConnectTipInvalid
  BY ZenonT(60), ConnectingFacts DEF ConnectTipInvalid
<1> QED BY ZenonT(60), <1>1, <1>2, <1>3, <1>4, <1>5, <1>6, <1>7, <1>8 DEF Activate

\* With a stocked active chain that nothing waits for, received data leaves the sort
\* key of the tip alone.
LEMMA TipKeepsKey ==
    ASSUME Shape, Queued, Parked, Stocked, MinBlocksToKeep > 0, csMainFree,
           NEW b \in Block, b \notin haveData, ReceivedBlockTransactions(b)
    PROVE  /\ pprev(b) \in linked => tip \notin NewlyLinked(b)
           /\ nSequenceId'[tip] = nSequenceId[tip]
<1>1. tip \in Block /\ nHeight(tip) \in Nat /\ MinBlocksToKeep \in Nat
  BY ZenonT(60), ShapeFacts, Heights, ChainStateAssumption
<1>2. tip \in haveData
  <2>1. Top = nHeight(tip) /\ abc.pc # "aborted"
    BY ZenonT(60) DEF Top, csMainFree
  <2>2. nHeight(tip) + MinBlocksToKeep > Top
    BY <1>1, <2>1
  <2>3. tip \in Stock
    BY ZenonT(60), <1>1, BranchFacts DEF Stock
  <2> QED BY ZenonT(60), <2>1, <2>2, <2>3 DEF Stocked
<1>3. tip \notin unlinked
  <2>1. tip # Genesis => pprev(tip) \in Branch(tip)
    BY ZenonT(60), <1>1, BranchFacts
  <2> QED BY ZenonT(60), <2>1 DEF Parked, Queued
<1>4. CASE pprev(b) \in linked
  <2> DEFINE L == NewlyLinked(b)
  <2>1. PICK f \in Numberings(L, b) :
           nSequenceId' = [x \in Block |-> IF x \in L THEN f[x] ELSE nSequenceId[x]]
    BY ZenonT(60), <1>4 DEF ReceivedBlockTransactions
  <2>2. tip \notin L
    BY ZenonT(60), <1>2, <1>3, <1>4, LinkedClosed
  <2> HIDE DEF L
  <2>3. nSequenceId'[tip] = nSequenceId[tip]
    BY ZenonT(60), <1>1, <2>1, <2>2
  <2> QED BY <2>2, <2>3 DEF L
<1>5. CASE pprev(b) \notin linked
  BY ZenonT(60), <1>5 DEF ReceivedBlockTransactions, seqs
<1> QED BY <1>4, <1>5

\* Received data adds only candidates that are as good as the tip.
LEMMA ReceivedBlockTransactionsGraded ==
    ASSUME Shape, Queued, Parked, Stocked, Graded, MinBlocksToKeep > 0, csMainFree,
           NEW b \in Block, b \notin haveData, ReceivedBlockTransactions(b), tip' = tip
    PROVE  Graded'
<1>1. nSequenceId'[tip] = nSequenceId[tip]
  BY ZenonT(60), TipKeepsKey
<1>2. \A c \in candidates : nSequenceId'[c] = nSequenceId[c]
  BY ZenonT(60), ReceivedBlockTransactionsParked
<1>3. \A c \in candidates : ~Worse(nSequenceId', c, tip)
  BY ZenonT(60), <1>1, <1>2 DEF Graded, Worse
<1>4. \A c \in candidates' \ candidates : ~Worse(nSequenceId', c, tip)
  <2>1. CASE pprev(b) \in linked
    <3> DEFINE L == NewlyLinked(b)
    <3>1. candidates' = candidates \cup Promising(L, nSequenceId')
      BY ZenonT(60), <2>1 DEF ReceivedBlockTransactions
    <3> HIDE DEF L
    <3> QED BY ZenonT(60), <3>1 DEF Promising
  <2>2. CASE pprev(b) \notin linked
    BY ZenonT(60), <2>2 DEF ReceivedBlockTransactions
  <2> QED BY <2>1, <2>2
<1> QED BY ZenonT(60), <1>3, <1>4 DEF Graded, Worse

\* An arriving block is received, or leaves the data and the candidates alone; a
\* header only adds marks.
LEMMA ArriveCases ==
    ASSUME Arrive
    PROVE  /\ csMainFree /\ tip' = tip /\ abc' = abc
           /\ failedValid \subseteq failedValid' /\ failedChild \subseteq failedChild'
           /\ \/ UNCHANGED <<haveData, linked, nSequenceId, candidates, unlinked>>
              \/ \E b \in Block : b \notin haveData /\ ReceivedBlockTransactions(b)
<1>1. ASSUME NEW b \in Block, AcceptBlockHeader(b) \/ HeaderRefused(b)
      PROVE  /\ tip' = tip /\ abc' = abc
             /\ failedValid \subseteq failedValid' /\ failedChild \subseteq failedChild'
             /\ UNCHANGED <<haveData, linked, nSequenceId, candidates, unlinked>>
  BY ZenonT(60), <1>1 DEF AcceptBlockHeader, HeaderRefused, data, seqs, marks
<1>2. ASSUME NEW b \in Block, NEW r \in BOOLEAN, AcceptBlock(b, r)
      PROVE  /\ tip' = tip /\ abc' = abc
             /\ failedValid \subseteq failedValid' /\ failedChild \subseteq failedChild'
             /\ \/ UNCHANGED <<haveData, linked, nSequenceId, candidates, unlinked>>
                \/ \E x \in Block : x \notin haveData /\ ReceivedBlockTransactions(x)
  <2>1. CASE HeaderRefused(b)
    BY ZenonT(60), <1>1, <2>1
  <2>2. CASE Declined(b, r) /\ UNCHANGED <<data, marks, seqs, candidates, unlinked, tip, abc>>
    BY ZenonT(60), <2>2 DEF data, seqs, marks
  <2>3. CASE /\ failedValid' = failedValid \cup {b}
             /\ UNCHANGED <<data, failedChild, unsaved, failedBlocks, seqs, candidates, unlinked, tip, abc>>
    BY ZenonT(60), <2>3 DEF data, seqs
  <2>4. CASE ~Declined(b, r) /\ ReceivedBlockTransactions(b) /\ UNCHANGED <<marks, tip, abc>>
    BY ZenonT(60), <2>4 DEF marks, Declined
  <2> QED BY ZenonT(60), <1>2, <2>1, <2>2, <2>3, <2>4 DEF AcceptBlock
<1>3. csMainFree
  BY ZenonT(60) DEF Arrive, AcceptBlockHeader, AcceptBlock
<1> QED BY ZenonT(60), <1>1, <1>2, <1>3 DEF Arrive

\* All that the operator does on a node that only prunes.
LEMMA OnlyPrunes ==
    ASSUME Ops \subseteq {"prune"}, Operate
    PROVE  \E b \in Block : PruneOneBlockFile(b)
BY ZenonT(60) DEF Operate, InvalidateBlock, ResetBlockFailureFlags, PreciousBlock, Restart

\* The invariants of a node that only prunes and meets no block that fails to
\* connect, and the progress it makes: both go by one induction, since pruning spares
\* the active chain only as long as the tip is not lowered.
LEMMA ProgressInvariant ==
    ASSUME Ops \subseteq {"prune"}, MinBlocksToKeep > 0, \A b \in Block : ConnectBlock(b)
    PROVE  Spec => [](Stocked /\ Graded /\ Underway) /\ ForwardProgress
<1>0. /\ "invalidateblock" \notin Ops /\ "reconsiderblock" \notin Ops /\ "restart" \notin Ops
      /\ ~({"prune", "restart"} \subseteq Ops)
  OBVIOUS
<1> DEFINE I == Stocked /\ Graded /\ Underway
<1>1. ASSUME Init PROVE I
  <2>1. /\ tip = Genesis /\ haveData = {Genesis} /\ candidates = {Genesis}
        /\ abc.pc = "idle" /\ abc.mostWork = NoBlock
    BY <1>1 DEF Init, Idle
  <2>2. Stock \subseteq haveData /\ abc.pc \notin {"find", "undo"}
    BY ZenonT(60), <2>1, GenesisFacts DEF Stock
  <2>3. Stocked
    BY ZenonT(60), <2>2 DEF Stocked
  <2>4. nSequenceId \in [Block -> Int] /\ Genesis \in Block /\ OnBranch(Genesis, Genesis)
    BY ZenonT(60), <1>1, InitShape, GenesisFacts, OnBranchReflexive DEF Shape, TypeOK
  <2>5. Graded
    BY ZenonT(60), <2>1, <2>4, Onwards DEF Graded
  <2>6. Underway
    BY ZenonT(60), <2>1 DEF Underway, csMainFree
  <2> QED BY <2>3, <2>5, <2>6
<1>2. ASSUME Shape, Shape', OnWay, I, Activate PROVE I' /\ Advances
  BY ZenonT(60), <1>2, ActivateUnderway, ActivateGraded, ActivateStocked
<1>3. ASSUME Shape, Shape', Queued, Parked, I, Arrive PROVE I' /\ Advances
  <2>1. Stocked'
    BY ZenonT(60), <1>0, <1>3, OthersStocked
  <2>2. csMainFree /\ tip' = tip /\ abc' = abc
    BY ZenonT(60), <1>3, ArriveCases
  <2>3. Underway' /\ Advances
    BY ZenonT(60), <2>2 DEF Underway, Advances, csMainFree
  <2>4. Graded'
    <3>1. CASE UNCHANGED <<haveData, linked, nSequenceId, candidates, unlinked>>
      BY ZenonT(60), <1>3, <2>2, <3>1 DEF Graded, Worse
    <3>2. ASSUME NEW b \in Block, b \notin haveData, ReceivedBlockTransactions(b) PROVE Graded'
      BY ZenonT(60), <1>3, <2>2, <3>2, ReceivedBlockTransactionsGraded
    <3> QED BY ZenonT(60), <1>3, <3>1, <3>2, ArriveCases
  <2> QED BY <2>1, <2>3, <2>4
<1>4. ASSUME Shape, Shape', I, Operate \/ UNCHANGED vars PROVE I' /\ [Advances]_vars
  <2>1. Stocked'
    BY ZenonT(60), <1>0, <1>4, OthersStocked
  <2>2. UNCHANGED <<nSequenceId, candidates, tip, abc>>
    <3>1. CASE Operate
      BY ZenonT(60), <3>1, OnlyPrunes DEF PruneOneBlockFile, seqs
    <3>2. CASE UNCHANGED vars
      BY ZenonT(60), <3>2 DEF vars, seqs
    <3> QED BY <1>4, <3>1, <3>2
  <2>3. Graded' /\ Underway' /\ Advances
    BY ZenonT(60), <1>4, <2>2 DEF Graded, Underway, Advances, csMainFree, Worse, Protected
  <2> QED BY <2>1, <2>3
<1>5. Shape /\ Shape' /\ OnWay /\ Queued /\ Parked /\ I /\ [Next]_vars => I' /\ [Advances]_vars
  BY ZenonT(60), <1>2, <1>3, <1>4 DEF Next
<1> HIDE DEF I
<1>6. Spec => []I /\ ForwardProgress
  BY <1>0, <1>1, <1>5, ShapeHolds, OnWayHolds, QueuedHolds, ParkedHolds, PTL DEF Spec, ForwardProgress
<1> QED BY <1>6 DEF I

\* ActivateBestChain "absolutely may not unlock cs_main until we've made forward
\* progress": it does not, on a node that only prunes and meets no block that fails
\* to connect.  With two branches that fail in one call it does.
THEOREM ForwardProgressWithoutFailures ==
    ASSUME Ops \subseteq {"prune"}, MinBlocksToKeep > 0, \A b \in Block : ConnectBlock(b)
    PROVE  Spec => ForwardProgress
BY ProgressInvariant, PTL

\* So what DisconnectTip and ConnectTip read is on disk.
THEOREM DataIsAvailableWithoutFailures ==
    ASSUME Ops \subseteq {"prune"}, MinBlocksToKeep > 0, \A b \in Block : ConnectBlock(b)
    PROVE  Spec => []DataAvailable
<1>1. "invalidateblock" \notin Ops /\ ~({"prune", "restart"} \subseteq Ops)
  OBVIOUS
<1> QED BY <1>1, ForwardProgressWithoutFailures, DataIsAvailable, PTL

\* A smaller domain, more marks and the same keys keep Accounted.
LEMMA SameAccounted ==
    ASSUME Accounted, abc.pc # "aborted", Reference' = Reference, UNCHANGED <<nSequenceId, tip>>,
           linked' \cap haveData' \subseteq linked \cap haveData,
           \A b \in linked' \cap haveData' :
              (b \in candidates \/ b \in unlinked) => (b \in candidates' \/ b \in unlinked'),
           failedValid \subseteq failedValid', failedChild \subseteq failedChild'
    PROVE  Accounted'
<1>1. ASSUME NEW b \in linked' \cap haveData'
      PROVE  \/ b \in candidates' \/ b \in unlinked'
             \/ Branch(b) \cap (failedValid' \cup failedChild') # {}
             \/ Worse(nSequenceId, b, Reference) \/ Worse(nSequenceId, b, tip)
             \/ ~IsAutomaticReorgAllowed(Reference, b)
  BY ZenonT(60), <1>1 DEF Accounted, Failed
<1> QED BY ZenonT(60), <1>1 DEF Accounted, Failed, Worse, IsAutomaticReorgAllowed

\* Received data accounts for the blocks it links.
LEMMA ReceivedBlockTransactionsAccounted ==
    ASSUME Shape, Queued, Parked, Stocked, Accounted, MinBlocksToKeep > 0, csMainFree,
           NEW b \in Block, b \notin haveData, ReceivedBlockTransactions(b), tip' = tip, abc' = abc,
           failedValid \subseteq failedValid', failedChild \subseteq failedChild'
    PROVE  Accounted'
<1>0. abc.pc # "aborted" /\ Reference = tip /\ Reference' = tip /\ linked \subseteq Block
  BY ZenonT(60), ShapeFacts DEF csMainFree, Reference
<1>1. nSequenceId'[tip] = nSequenceId[tip] /\ haveData' = haveData \cup {b}
  BY ZenonT(60), TipKeepsKey DEF ReceivedBlockTransactions
<1>2. CASE pprev(b) \in linked
  <2> DEFINE L == NewlyLinked(b)
  <2>1. PICK f \in Numberings(L, b) :
           LET sq == [x \in Block |-> IF x \in L THEN f[x] ELSE nSequenceId[x]] IN
           nSequenceId' = sq /\ candidates' = candidates \cup Promising(L, sq)
    BY ZenonT(60), <1>2 DEF ReceivedBlockTransactions
  <2>2. unlinked' = unlinked \ (L \ {b}) /\ linked' = linked \cup L /\ b \in L
    <3>1. b \in L
      BY ZenonT(60), <1>2, LinkedClosed
    <3> QED BY ZenonT(60), <1>2, <3>1 DEF ReceivedBlockTransactions, Unqueue
  <2> HIDE DEF L
  <2>3. \A x \in L : x \in candidates' \/ Worse(nSequenceId', x, tip)
    BY ZenonT(60), <2>1 DEF Promising
  <2>4. ASSUME NEW x \in linked \cap haveData, x \notin L
        PROVE  \/ x \in candidates' \/ x \in unlinked'
               \/ Branch(x) \cap (failedValid' \cup failedChild') # {}
               \/ Worse(nSequenceId', x, tip)
               \/ ~IsAutomaticReorgAllowed(tip, x)
    <3>1. nSequenceId'[x] = nSequenceId[x] /\ (x \in candidates => x \in candidates')
          /\ (x \in unlinked => x \in unlinked')
      BY ZenonT(60), <1>0, <2>1, <2>2, <2>4
    <3>2. Worse(nSequenceId, x, tip) => Worse(nSequenceId', x, tip)
      BY ZenonT(60), <1>1, <3>1 DEF Worse
    <3> QED BY ZenonT(60), <1>0, <3>1, <3>2 DEF Accounted, Failed
  <2>5. \A x \in linked' \cap haveData' : x \in L \/ x \in linked \cap haveData
    BY ZenonT(60), <1>1, <2>2
  <2> QED BY ZenonT(60), <1>0, <2>3, <2>4, <2>5 DEF Accounted, Failed, Worse, IsAutomaticReorgAllowed
<1>3. CASE pprev(b) \notin linked
  <2>1. /\ linked' = linked \ {b} /\ nSequenceId' = nSequenceId /\ candidates' = candidates
        /\ unlinked \subseteq unlinked'
    BY ZenonT(60), <1>3 DEF ReceivedBlockTransactions, Queue, seqs
  <2> QED BY ZenonT(60), <1>0, <1>1, <2>1, SameAccounted
<1> QED BY <1>2, <1>3

\* Letting go of cs_main on a tip that the one it was taken with does not beat keeps
\* the reasons for which blocks are left out.
LEMMA ReleasedAccounted ==
    ASSUME NEW s \in Block, NEW t \in Block, NEW b \in Block, NEW sq \in [Block -> Int],
           OnBranch(Protected(s), t), ~Worse(sq, t, s),
           Worse(sq, b, s) \/ ~IsAutomaticReorgAllowed(s, b)
    PROVE  Worse(sq, b, t) \/ ~IsAutomaticReorgAllowed(t, b)
<1>1. Worse(sq, b, s) => Worse(sq, b, t)
  BY ZenonT(60), WorseTransitive
<1>2. nHeight(t) >= nHeight(s)
  <2>1. nHeight(s) \in Nat /\ nHeight(t) \in Nat
    BY ZenonT(60), Heights
  <2> HIDE DEF nHeight
  <2> QED BY <2>1 DEF Worse
<1>3. IsAutomaticReorgAllowed(t, b) => IsAutomaticReorgAllowed(s, b)
  BY ZenonT(60), <1>2, AllowedBefore
<1> QED BY <1>1, <1>3

\* The steps of ActivateBestChain account for the candidates they drop.
LEMMA ActivateAccounted ==
    ASSUME Shape, OnWay, Graded, Underway, Accounted, Activate, Advances,
           \A b \in Block : ConnectBlock(b)
    PROVE  Accounted'
<1>0. /\ tip \in Block /\ abc.start \in Block /\ NoBlock \notin Block
      /\ nSequenceId \in [Block -> Int] /\ (abc.mostWork # NoBlock => abc.mostWork \in Block)
      /\ linked \subseteq Block
  BY ZenonT(60), ShapeFacts, ChainStateAssumption DEF Shape, TypeOK
<1>1. CASE AbcLock
  <2>1. /\ csMainFree /\ abc'.pc = "find" /\ abc'.start = tip
        /\ UNCHANGED <<haveData, linked, nSequenceId, candidates, unlinked, failedValid, failedChild, tip>>
    BY ZenonT(60), <1>1, LockCases DEF AbcLock, data, seqs, marks
  <2>2. Reference' = Reference /\ abc.pc # "aborted"
    BY ZenonT(60), <2>1 DEF Reference, csMainFree
  <2> QED BY ZenonT(60), <2>1, <2>2, SameAccounted
<1>2. CASE Settle
  <2>1. /\ csMainFree' /\ ~csMainFree /\ tip' = tip /\ abc.pc = "find"
        /\ UNCHANGED <<haveData, linked, nSequenceId, candidates, unlinked, failedValid, failedChild, tip>>
    BY ZenonT(60), <1>2, LockCases DEF Settle, csMainFree, data, seqs, marks
  <2>2. Reference = abc.start /\ Reference' = tip /\ abc.pc # "aborted"
    BY ZenonT(60), <2>1 DEF Reference
  <2>3. OnBranch(Protected(abc.start), tip) /\ ~Worse(nSequenceId, tip, abc.start)
    BY ZenonT(60), <2>1 DEF Underway, Advances
  <2>4. ASSUME NEW b \in linked \cap haveData
        PROVE  \/ b \in candidates \/ b \in unlinked \/ Branch(b) \cap Failed # {}
               \/ Worse(nSequenceId, b, tip) \/ ~IsAutomaticReorgAllowed(tip, b)
    <3>1. Worse(nSequenceId, b, abc.start) \/ ~IsAutomaticReorgAllowed(abc.start, b) =>
             Worse(nSequenceId, b, tip) \/ ~IsAutomaticReorgAllowed(tip, b)
      BY ZenonT(60), <1>0, <2>3, ReleasedAccounted
    <3> QED BY ZenonT(60), <2>2, <3>1 DEF Accounted
  <2> QED BY ZenonT(60), <2>1, <2>2, <2>4 DEF Accounted, Failed, Worse, IsAutomaticReorgAllowed
<1>3. CASE StepAbort
  BY ZenonT(60), <1>3, LockCases DEF Accounted
<1>4. ASSUME NEW c \in Block, FindBlocked(c) PROVE Accounted'
  <2>1. /\ ~csMainFree /\ abc.pc = "find" /\ abc.mostWork = NoBlock /\ ~IsAutomaticReorgAllowed(tip, c)
        /\ candidates' = candidates \ {c}
        /\ UNCHANGED <<haveData, linked, nSequenceId, unlinked, failedValid, failedChild, tip, abc>>
    BY ZenonT(60), <1>4 DEF FindBlocked, Examined, csMainFree, data, seqs, marks
  <2>2. Reference = tip /\ Reference' = tip /\ abc.pc # "aborted"
    BY ZenonT(60), <2>1 DEF Underway, Reference, csMainFree
  <2> QED BY ZenonT(60), <2>1, <2>2 DEF Accounted, Failed, Worse, IsAutomaticReorgAllowed
<1>5. ASSUME NEW c \in Block, FindUnusable(c) PROVE Accounted'
  <2> DEFINE above(x) == {y \in Branch(c) : OnBranch(x, y) /\ y # x}
  <2>1. /\ ~csMainFree /\ abc.pc = "find"
        /\ UNCHANGED <<haveData, linked, nSequenceId, failedValid, tip, abc>>
    BY ZenonT(60), <1>5 DEF FindUnusable, Examined, csMainFree, data, seqs
  <2>2. PICK x \in Unusable(c) :
           /\ candidates' = candidates \ (above(x) \cup {x})
           /\ failedChild \subseteq failedChild' /\ unlinked \subseteq unlinked'
           /\ x \in Failed \/ (x \notin Failed /\ unlinked' = unlinked \cup above(x))
    BY ZenonT(60), <1>5 DEF FindUnusable, Requeue
  <2>3. Reference' = Reference /\ abc.pc # "aborted"
    BY ZenonT(60), <2>1 DEF Reference, csMainFree
  <2>4. ASSUME NEW b \in linked \cap haveData, b \in above(x) \cup {x}
        PROVE  b \in unlinked' \/ Branch(b) \cap (failedValid' \cup failedChild') # {}
    <3>1. CASE x \in Failed
      <4>1. x \in Branch(b)
        BY ZenonT(60), <1>0, <2>2, <2>4, OnBranchReflexive DEF Unusable, Branch
      <4> QED BY ZenonT(60), <2>1, <2>2, <3>1, <4>1 DEF Failed
    <3>2. CASE x \notin Failed
      BY ZenonT(60), <2>2, <2>4, <3>2 DEF Unusable
    <3> QED BY <3>1, <3>2
  <2>5. ASSUME NEW b \in linked \cap haveData, b \notin above(x) \cup {x}
        PROVE  \/ b \in candidates' \/ b \in unlinked'
               \/ Branch(b) \cap (failedValid' \cup failedChild') # {}
               \/ Worse(nSequenceId, b, Reference) \/ Worse(nSequenceId, b, tip)
               \/ ~IsAutomaticReorgAllowed(Reference, b)
    BY ZenonT(60), <2>1, <2>2, <2>3, <2>5 DEF Accounted, Failed
  <2> HIDE DEF above
  <2> QED BY ZenonT(60), <2>1, <2>3, <2>4, <2>5 DEF Accounted, Failed, Worse, IsAutomaticReorgAllowed
<1>6. ASSUME NEW c \in Block, StepBegin(c) PROVE Accounted'
  <2>1. /\ ~csMainFree /\ abc.pc = "find" /\ (abc.mostWork = c \/ Found(c))
        /\ UNCHANGED <<haveData, linked, nSequenceId, candidates, unlinked, failedValid, failedChild, tip>>
    BY ZenonT(60), <1>6 DEF StepBegin, csMainFree, data, seqs, marks
  <2>2. IsAutomaticReorgAllowed(tip, c)
    <3>1. CASE abc.mostWork = c
      <4>1. OnBranch(tip, c)
        BY ZenonT(60), <1>0, <2>1, <3>1 DEF OnWay
      <4> QED BY ZenonT(60), <1>0, <4>1, Onwards
    <3> QED BY ZenonT(60), <2>1, <3>1 DEF Found
  <2>3. abc'.pc = UndoOrConnect(tip, c) /\ abc'.start = abc.start
    BY ZenonT(60), <1>6, <2>2, StepBeginCases
  <2>4. Reference' = Reference /\ abc.pc # "aborted"
    BY ZenonT(60), <2>1, <2>3 DEF Reference, csMainFree, UndoOrConnect
  <2> QED BY ZenonT(60), <2>1, <2>4, SameAccounted
<1>7. CASE DisconnectTip
  <2>1. /\ ~csMainFree /\ abc.pc = "undo" /\ abc'.pc = UndoOrConnect(tip', abc.mostWork)
        /\ abc'.start = abc.start
        /\ UNCHANGED <<haveData, linked, nSequenceId, candidates, unlinked, failedValid, failedChild>>
    BY ZenonT(60), <1>7, LockCases DEF DisconnectTip, csMainFree, data, seqs, marks
  <2>2. Reference = abc.start /\ Reference' = abc.start /\ abc.pc # "aborted"
    BY ZenonT(60), <2>1 DEF Reference, csMainFree, UndoOrConnect
  <2>3. ASSUME NEW b \in linked, Worse(nSequenceId, b, tip) PROVE Worse(nSequenceId, b, abc.start)
    <3>1. tip = abc.start \/ ~Worse(nSequenceId, abc.start, tip)
      BY ZenonT(60), <1>0, <2>1, WorseAsymmetric DEF Underway
    <3> QED BY ZenonT(60), <1>0, <2>3, <3>1, WorseTransitive
  <2>4. \A b \in linked \cap haveData :
           \/ b \in candidates \/ b \in unlinked \/ Branch(b) \cap Failed # {}
           \/ Worse(nSequenceId, b, abc.start) \/ ~IsAutomaticReorgAllowed(abc.start, b)
    BY ZenonT(60), <2>2, <2>3 DEF Accounted
  <2> QED BY ZenonT(60), <2>1, <2>2, <2>4 DEF Accounted, Failed, Worse, IsAutomaticReorgAllowed
<1>8. CASE ConnectTip
  <2>1. /\ ~csMainFree /\ abc.pc = "connect" /\ tip' = Connecting
        /\ candidates' = {d \in candidates : ~Worse(nSequenceId, d, tip')}
        /\ UNCHANGED <<haveData, linked, nSequenceId, unlinked, failedValid, failedChild>>
    BY ZenonT(60), <1>8 DEF ConnectTip, PruneBlockIndexCandidates, csMainFree, data, seqs, marks
  <2>2. tip' \in Block /\ OnBranch(tip, tip')
    BY ZenonT(60), <2>1, ConnectingFacts
  <2>3. Reference = abc.start /\ abc.pc # "aborted"
    BY ZenonT(60), <2>1 DEF Reference
  <2>4. ASSUME NEW b \in linked, Worse(nSequenceId, b, tip) PROVE Worse(nSequenceId, b, tip')
    <3>1. ~Worse(nSequenceId, tip', tip)
      BY ZenonT(60), <1>0, <2>2, Onwards
    <3> QED BY ZenonT(60), <1>0, <2>2, <2>4, <3>1, WorseTransitive
  <2>5. ASSUME NEW b \in linked \cap haveData
        PROVE  \/ b \in candidates' \/ b \in unlinked' \/ Branch(b) \cap Failed # {}
               \/ Worse(nSequenceId, b, abc.start) \/ Worse(nSequenceId, b, tip')
               \/ ~IsAutomaticReorgAllowed(abc.start, b)
    BY ZenonT(60), <2>1, <2>3, <2>4, <2>5 DEF Accounted
  <2>6. CASE csMainFree'
    <3>1. Reference' = tip' /\ ~Worse(nSequenceId, tip', abc.start)
      BY ZenonT(60), <2>1, <2>6 DEF Reference, Advances
    <3>2. OnBranch(Protected(abc.start), tip')
      <4>1. OnBranch(Protected(abc.start), tip) /\ Protected(abc.start) \in Block
        BY ZenonT(60), <1>0, <2>1, ProtectedFacts DEF Underway
      <4> QED BY ZenonT(60), <1>0, <2>2, <4>1, OnBranchTransitive
    <3>3. ASSUME NEW b \in linked, Worse(nSequenceId, b, abc.start) \/ ~IsAutomaticReorgAllowed(abc.start, b)
          PROVE  Worse(nSequenceId, b, tip') \/ ~IsAutomaticReorgAllowed(tip', b)
      <4> DEFINE t == tip'
      <4>1. t \in Block /\ b \in Block /\ OnBranch(Protected(abc.start), t) /\ ~Worse(nSequenceId, t, abc.start)
        BY ZenonT(60), <1>0, <2>2, <3>1, <3>2
      <4> HIDE DEF t
      <4>2. Worse(nSequenceId, b, t) \/ ~IsAutomaticReorgAllowed(t, b)
        BY ZenonT(60), <1>0, <3>3, <4>1, ReleasedAccounted
      <4> QED BY <4>2 DEF t
    <3>4. \A b \in linked \cap haveData :
             \/ b \in candidates' \/ b \in unlinked' \/ Branch(b) \cap Failed # {}
             \/ Worse(nSequenceId, b, tip') \/ ~IsAutomaticReorgAllowed(tip', b)
      BY ZenonT(60), <2>5, <3>3
    <3> QED BY ZenonT(60), <2>1, <3>1, <3>4 DEF Accounted, Failed, Worse, IsAutomaticReorgAllowed
  <2>7. CASE ~csMainFree'
    <3>1. Reference' = abc.start
      <4>1. abc'.start = abc.start
        BY ZenonT(60), <1>8, <2>7, ConnectTipCases DEF csMainFree
      <4> QED BY ZenonT(60), <2>7, <4>1 DEF Reference
    <3> QED BY ZenonT(60), <2>1, <2>5, <3>1 DEF Accounted, Failed, Worse, IsAutomaticReorgAllowed
  <2> QED BY <2>6, <2>7
<1>9. ~ConnectTipInvalid
  BY ZenonT(60), ConnectingFacts DEF ConnectTipInvalid
<1> QED BY ZenonT(60), <1>1, <1>2, <1>3, <1>4, <1>5, <1>6, <1>7, <1>8, <1>9 DEF Activate

\* A received block is a candidate, waits, or is left out for a reason, on a node
\* that only prunes and meets no block that fails to connect.
LEMMA AccountedHolds ==
    ASSUME Ops \subseteq {"prune"}, MinBlocksToKeep > 0, \A b \in Block : ConnectBlock(b)
    PROVE  Spec => []Accounted
<1>0. /\ "invalidateblock" \notin Ops /\ "reconsiderblock" \notin Ops
      /\ ~({"prune", "restart"} \subseteq Ops)
  OBVIOUS
<1>1. Init => Accounted
  BY ZenonT(60) DEF Init, Accounted
<1>2. ASSUME Shape, OnWay, Graded, Underway, Accounted, Activate, Advances PROVE Accounted'
  BY ZenonT(60), <1>2, ActivateAccounted
<1>3. ASSUME Shape, Queued, Parked, Stocked, Accounted, Arrive PROVE Accounted'
  <2>1. /\ csMainFree /\ tip' = tip /\ abc' = abc
        /\ failedValid \subseteq failedValid' /\ failedChild \subseteq failedChild'
    BY ZenonT(60), <1>3, ArriveCases
  <2>2. CASE UNCHANGED <<haveData, linked, nSequenceId, candidates, unlinked>>
    <3>1. Reference' = Reference /\ abc.pc # "aborted"
      BY ZenonT(60), <2>1 DEF Reference, csMainFree
    <3> QED BY ZenonT(60), <1>3, <2>1, <2>2, <3>1, SameAccounted
  <2>3. ASSUME NEW b \in Block, b \notin haveData, ReceivedBlockTransactions(b) PROVE Accounted'
    BY ZenonT(60), <1>3, <2>1, <2>3, ReceivedBlockTransactionsAccounted
  <2> QED BY ZenonT(60), <1>3, <2>2, <2>3, ArriveCases
<1>4. ASSUME Accounted, Operate \/ UNCHANGED vars PROVE Accounted'
  <2>1. CASE Operate
    <3>1. PICK b \in Block : PruneOneBlockFile(b)
      BY ZenonT(60), <2>1, OnlyPrunes
    <3>2. /\ haveData' = haveData \ {b} /\ unlinked' = unlinked \ {b} /\ abc.pc # "aborted"
          /\ UNCHANGED <<linked, nSequenceId, candidates, failedValid, failedChild, tip, abc>>
      BY ZenonT(60), <3>1 DEF PruneOneBlockFile, seqs
    <3>3. Reference' = Reference
      BY ZenonT(60), <3>2 DEF Reference, csMainFree
    <3> QED BY ZenonT(60), <1>4, <3>2, <3>3, SameAccounted
  <2>2. CASE UNCHANGED vars
    <3>1. UNCHANGED <<haveData, linked, nSequenceId, candidates, unlinked, failedValid, failedChild, tip, abc>>
      BY ZenonT(60), <2>2 DEF vars, data, seqs, marks
    <3> QED BY ZenonT(60), <1>4, <3>1
            DEF Accounted, Failed, Worse, IsAutomaticReorgAllowed, Reference, csMainFree
  <2> QED BY <1>4, <2>1, <2>2
<1>5. Shape /\ OnWay /\ Queued /\ Parked /\ Stocked /\ Graded /\ Underway /\ Accounted
      /\ [Next]_vars /\ [Advances]_vars => Accounted'
  BY ZenonT(60), <1>2, <1>3, <1>4 DEF Next
<1>6. Spec => [](Stocked /\ Graded /\ Underway) /\ [][Advances]_vars
  BY ProgressInvariant, PTL DEF ForwardProgress
<1> QED BY <1>0, <1>1, <1>5, <1>6, ShapeHolds, OnWayHolds, QueuedHolds, ParkedHolds, PTL DEF Spec

\* A block of a branch without failed blocks is not dead.
LEMMA NotDead ==
    ASSUME Shape, Queued, NEW b \in haveData, Branch(b) \cap failedValid = {}
    PROVE  ~Dead(b) /\ Branch(b) \cap Failed = {}
<1>1. b \in Block
  BY ZenonT(60) DEF Shape, TypeOK
<1>2. ASSUME NEW f \in Branch(b), f \in Failed PROVE FALSE
  <2>1. Branch(f) \cap failedValid # {} /\ Branch(f) \subseteq Branch(b)
    BY ZenonT(60), <1>1, <1>2, BranchFacts DEF Queued, Spoilt
  <2> QED BY ZenonT(60), <2>1
<1> QED BY ZenonT(60), <1>2 DEF Dead

\* mapBlocksUnlinked holds exactly the received blocks that wait for the data of an
\* ancestor: whatever is received in whatever order, when nothing is pruned; and
\* through every pruning and every new download, when nothing else happens and no
\* block fails to connect.
THEOREM UnlinkedIsExact ==
    ASSUME "invalidateblock" \notin Ops, "reconsiderblock" \notin Ops,
           \/ "prune" \notin Ops
           \/ Ops \subseteq {"prune"} /\ MinBlocksToKeep > 0 /\ \A b \in Block : ConnectBlock(b)
    PROVE  Spec => []UnlinkedExact
<1>0. ~({"prune", "restart"} \subseteq Ops)
  OBVIOUS
<1>1. CASE "prune" \notin Ops
  <2>1. CompleteIndex => UnlinkedComplete
    BY DEF CompleteIndex
  <2> QED BY <1>0, <1>1, <2>1, IndexIsComplete, UnlinkedIsSound, PTL DEF UnlinkedExact
<1>2. CASE Ops \subseteq {"prune"} /\ MinBlocksToKeep > 0 /\ \A b \in Block : ConnectBlock(b)
  <2>1. ASSUME Shape, Queued, Accounted PROVE UnlinkedComplete
    <3> SUFFICES ASSUME csMainFree, NEW b \in haveData \ {Genesis}, Branch(b) \cap failedValid = {},
                        \/ ~(Branch(b) \subseteq processed)
                        \/ /\ b \in linked \ candidates
                           /\ ~Worse(nSequenceId, b, tip) /\ IsAutomaticReorgAllowed(tip, b)
                 PROVE  b \in unlinked
      BY ZenonT(60) DEF UnlinkedComplete
    <3>1. ~Dead(b) /\ Branch(b) \cap Failed = {}
      BY ZenonT(60), <2>1, NotDead
    <3>2. CASE b \notin linked
      BY ZenonT(60), <2>1, <3>1, <3>2 DEF Queued
    <3>3. CASE b \in linked
      <4>1. Branch(b) \subseteq processed
        BY ZenonT(60), <2>1, <3>3 DEF Shape
      <4>2. abc.pc # "aborted" /\ Reference = tip
        BY ZenonT(60) DEF csMainFree, Reference
      <4> QED BY ZenonT(60), <2>1, <3>1, <3>3, <4>1, <4>2 DEF Accounted
    <3> QED BY <3>2, <3>3
  <2>2. Spec => []UnlinkedComplete
    BY <1>0, <1>2, <2>1, ShapeHolds, QueuedHolds, AccountedHolds, PTL
  <2> QED BY <1>0, <2>2, UnlinkedIsSound, PTL DEF UnlinkedExact
<1> QED BY <1>1, <1>2
=============================================================================
