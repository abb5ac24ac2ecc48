--------------------------- MODULE BaseIndexProofs ---------------------------
(***************************************************************************)
(* Proofs about the transaction index (module BaseIndex), for every tree   *)
(* of blocks, every contents of the blocks and every bound, when no fault  *)
(* comes between a locator of ThreadSync and its block (~GapFaults).       *)
(*                                                                         *)
(* The queue may hold callbacks that were sent before the index took over  *)
(* from ThreadSync, and the index skips a callback whose block does not    *)
(* connect.  What makes it end at the tip all the same: at every point of  *)
(* the queue, the block that was connected last either has the tip on its  *)
(* branch, or some later callback of the queue connects to it.             *)
(***************************************************************************)
EXTENDS BaseIndex, BlockTreeTheorems, SequenceTheorems

\* Callback i of the queue q is a BlockConnected.
Connecting(q, i) == q[i].kind = "connected"

\* With x as the best block, the callbacks low .. high of q lead to a best block
\* with t on its branch: x has it, or one of the callbacks connects to x.
LeadsTo(q, t, x, low, high) ==
    \/ OnBranch(t, x)
    \/ \E j \in low .. high : Connecting(q, j) /\ OnBranch(pprev(q[j].block), x)

\* Whichever of the first n callbacks is taken, the ones after it lead to t.
Chained(q, t, n) ==
    \A i \in 1 .. n : Connecting(q, i) => LeadsTo(q, t, q[i].block, i + 1, n)

\* The best block, or the one that a callback is about to make the best block.
Current == IF callback.kind \in {"connected", "written"} THEN callback.block ELSE m_best_block_index

\* The genesis block is not connected by a callback.
QueueBlocks == \A i \in 1 .. Len(queue) : Connecting(queue, i) => queue[i].block # Genesis

\* A marker in the queue is that of the waiting caller.
Markers ==
    \A i \in 1 .. Len(queue) : queue[i] = Marker =>
        caller = "waiting" /\ \A j \in 1 .. Len(queue) : queue[j] = Marker => j = i

\* How the thread, the callbacks and the callers take turns.
TurnInv ==
    /\ sync # "done" => ~m_synced
    /\ callback # Idle => m_synced
    /\ caller # "out" => m_synced
    /\ sync \in {"picked", "located"} => pindex # Genesis
    /\ sync = "located" => locator = pindex
    /\ callback.kind \in {"connected", "written"} =>
          callback.block # Genesis /\ OnBranch(pprev(callback.block), m_best_block_index)
    /\ callback.kind = "flushed" => OnBranch(callback.block, m_best_block_index)

\* What is indexed: the branch of the best block, that of the thread's block once
\* it is written, and that of the stored locator.
IndexedInv ==
    /\ BranchIndexed(m_best_block_index)
    /\ sync = "loop" => BranchIndexed(pindex)
    /\ sync \in {"picked", "located"} => BranchIndexed(pprev(pindex))
    /\ callback.kind = "written" => BranchIndexed(callback.block)
    /\ LocatorBehind

\* The queue leads the index to the tip.
QueueInv ==
    /\ Chained(queue, tip, Len(queue))
    /\ m_synced => LeadsTo(queue, tip, Current, 1, Len(queue))

\* With x as the best block, some of the first n callbacks of q lead to t.
Promised(q, t, x, n) == \E h \in 0 .. n : Chained(q, t, h) /\ LeadsTo(q, t, x, 1, h)

\* The tip that a caller has seen is indexed, or the callbacks that it waits for
\* lead to it.
CallerInv ==
    /\ caller \in {"drain", "waiting", "true"} => chain_tip \in Block
    /\ caller = "true" => BranchIndexed(chain_tip)
    /\ caller = "drain" => BranchIndexed(chain_tip) \/ Promised(queue, chain_tip, Current, Len(queue))
    /\ \A i \in 1 .. Len(queue) : queue[i] = Marker =>
          BranchIndexed(chain_tip) \/ Promised(queue, chain_tip, Current, i - 1)

\* The positions of b's branch are those of its own blocks.
BranchPositions(b) == \A a \in Branch(b) \ {Genesis} : \A t \in vtx[a] : txpos[t] = a

\* The transactions of a branch are in one of its blocks each.  The index never
\* looks: ConnectBlock refuses a block that breaks this (bad-txns-BIP30), save for
\* the heights where it takes it to follow from the height in the coinbase.
TransactionsOnce == \A b \in Block : \A a \in Branch(b) \ {b} : vtx[a] \cap vtx[b] = {}

\* Before the first restart, the positions are those of what was written last.
PositionsInv ==
    restarts = 0 =>
        /\ m_synced /\ callback.kind # "written" => BranchPositions(m_best_block_index)
        /\ m_synced /\ callback.kind = "written" => BranchPositions(callback.block)
        /\ sync = "loop" => BranchPositions(pindex)
        /\ sync \in {"picked", "located"} => BranchPositions(pprev(pindex))

-----------------------------------------------------------------------------
(* The fork, the callbacks and what leads to what.                         *)

\* FindFork returns the last block of both branches.
LEMMA Fork ==
    ASSUME NEW a \in Block, NEW b \in Block
    PROVE  /\ FindFork(a, b) \in Block
           /\ OnBranch(FindFork(a, b), a) /\ OnBranch(FindFork(a, b), b)
           /\ \A g \in Block : OnBranch(g, a) /\ OnBranch(g, b) => OnBranch(g, FindFork(a, b))
<1>1. /\ FindFork(a, b) \in Branch(a) \cap Branch(b)
      /\ \A g \in Branch(a) \cap Branch(b) : nHeight(g) <= nHeight(FindFork(a, b))
  BY ZenonT(60), LastCommon DEF FindFork
<1>2. \A g \in Block : OnBranch(g, a) /\ OnBranch(g, b) => OnBranch(g, FindFork(a, b))
  BY ZenonT(60), <1>1, LastCommon
<1> QED BY <1>1, <1>2 DEF Branch

\* When the fork is the tip itself, the tip is on the branch.
LEMMA ForkIsTip ==
    ASSUME NEW a \in Block, NEW b \in Block
    PROVE  FindFork(a, b) = b <=> OnBranch(b, a)
<1>1. ASSUME FindFork(a, b) = b PROVE OnBranch(b, a)
  BY <1>1, Fork
<1>2. ASSUME OnBranch(b, a) PROVE FindFork(a, b) = b
  <2>1. OnBranch(b, FindFork(a, b)) /\ OnBranch(FindFork(a, b), b) /\ FindFork(a, b) \in Block
    BY <1>2, Fork, OnBranchReflexive
  <2> QED BY <2>1, OnBranchAntisymmetric DEF OnBranch
<1> QED BY <1>1, <1>2

\* The block above the fork, on the way to b.
LEMMA AboveFork ==
    ASSUME NEW b \in Block, NEW f \in Block, OnBranch(f, b),
           NEW i \in 1 .. (nHeight(b) - nHeight(f))
    PROVE  LET c == GetAncestor(b, nHeight(f) + i)
           IN  /\ c \in Block /\ c # Genesis /\ OnBranch(c, b) /\ nHeight(c) = nHeight(f) + i
               /\ pprev(c) = GetAncestor(b, nHeight(f) + i - 1)
               /\ i = 1 => pprev(c) = f
<1> DEFINE c == GetAncestor(b, nHeight(f) + i)
<1>1. nHeight(b) \in Nat /\ nHeight(f) \in Nat
  BY Heights
<1>2. nHeight(f) + i \in 0 .. nHeight(b) /\ nHeight(f) + i - 1 \in 0 .. nHeight(b) /\ nHeight(f) + i > 0
  BY <1>1
<1>3. c \in Block /\ OnBranch(c, b) /\ nHeight(c) = nHeight(f) + i
  BY <1>2, AncestorOnBranch
<1> HIDE DEF c
<1>4. c # Genesis
  BY <1>2, <1>3, Heights
<1>5. pprev(c) \in Block /\ nHeight(pprev(c)) = nHeight(f) + i - 1 /\ OnBranch(pprev(c), c)
  BY <1>1, <1>3, <1>4, Parent
<1>6. OnBranch(pprev(c), b)
  BY <1>3, <1>5, OnBranchTransitive
<1>7. pprev(c) = GetAncestor(b, nHeight(f) + i - 1)
  BY <1>5, <1>6, AncestorUnique
<1>8. i = 1 => pprev(c) = f
  <2>1. i = 1 => nHeight(f) + i - 1 = nHeight(f)
    BY <1>1
  <2> QED BY <1>7, <2>1, AncestorUnique
<1> QED BY <1>3, <1>4, <1>7, <1>8 DEF c

\* The block after the fork on the way from a to t.
LEMMA NextAboveFork ==
    ASSUME NEW a \in Block, NEW t \in Block, FindFork(a, t) # t
    PROVE  LET c == GetAncestor(t, nHeight(FindFork(a, t)) + 1)
           IN  c \in Block /\ c # Genesis /\ OnBranch(c, t) /\ pprev(c) = FindFork(a, t)
<1> DEFINE f == FindFork(a, t)
<1>1. f \in Block /\ OnBranch(f, t) /\ f # t
  BY Fork
<1> HIDE DEF f
<1>2. nHeight(t) \in Nat /\ nHeight(f) \in Nat /\ nHeight(f) <= nHeight(t)
  BY <1>1, Heights DEF OnBranch, nHeight
<1>3. nHeight(f) # nHeight(t)
  BY <1>1, <1>2, OnBranchAntisymmetric DEF nHeight
<1>4. 1 \in 1 .. (nHeight(t) - nHeight(f))
  BY <1>2, <1>3
<1> QED BY <1>1, <1>4, AboveFork DEF f

\* A callback that connects a block names it.
LEMMA CallbackBlock ==
    ASSUME NEW e \in Callback
    PROVE  /\ e.kind \in {"connected", "flushed"} => e.block \in Block
           /\ e.kind \in {"connected", "flushed", "marker"}
           /\ e.kind = "marker" <=> e = Marker
BY DEF Callback, Marker

\* More callbacks at the end of the queue leave what the first n lead to alone.
LEMMA LeadsSame ==
    ASSUME NEW q, NEW r, NEW n \in Nat, \A i \in 1 .. n : r[i] = q[i], NEW t
    PROVE  /\ \A x : \A low \in Nat \ {0} : LeadsTo(q, t, x, low, n) => LeadsTo(r, t, x, low, n)
           /\ Chained(q, t, n) => Chained(r, t, n)
<1>1. ASSUME NEW x, NEW low \in Nat \ {0}, LeadsTo(q, t, x, low, n) PROVE LeadsTo(r, t, x, low, n)
  <2>1. CASE OnBranch(t, x)
    BY <2>1 DEF LeadsTo
  <2>2. ASSUME NEW j \in low .. n, Connecting(q, j), OnBranch(pprev(q[j].block), x)
        PROVE  LeadsTo(r, t, x, low, n)
    <3>1. j \in 1 .. n
      OBVIOUS
    <3> QED BY <2>2, <3>1 DEF LeadsTo, Connecting
  <2> QED BY <1>1, <2>1, <2>2 DEF LeadsTo
<1>2. ASSUME Chained(q, t, n), NEW i \in 1 .. n, Connecting(r, i)
      PROVE  LeadsTo(r, t, r[i].block, i + 1, n)
  <2>1. LeadsTo(q, t, q[i].block, i + 1, n)
    BY <1>2 DEF Chained, Connecting
  <2> QED BY <1>1, <2>1
<1> QED BY <1>1, <1>2 DEF Chained

\* A callback at the end of the queue that connects nothing changes nothing.
LEMMA LeadsAppend ==
    ASSUME NEW q \in Seq(Callback), NEW e \in Callback, e.kind # "connected", NEW t
    PROVE  LET r == Append(q, e)
           IN  /\ Chained(q, t, Len(q)) => Chained(r, t, Len(r))
               /\ \A x : LeadsTo(q, t, x, 1, Len(q)) => LeadsTo(r, t, x, 1, Len(r))
<1> DEFINE r == Append(q, e)
           n == Len(q)
<1>1. Len(r) = n + 1 /\ n \in Nat /\ r[n + 1] = e /\ \A i \in 1 .. n : r[i] = q[i]
  BY AppendProperties, LenProperties
<1> HIDE DEF r, n
<1>2. \A x : \A low \in Nat \ {0} : LeadsTo(q, t, x, low, n) => LeadsTo(r, t, x, low, n)
  BY ZenonT(60), <1>1, LeadsSame
<1>3. \A x : \A low \in Nat \ {0} : LeadsTo(r, t, x, low, n) => LeadsTo(r, t, x, low, n + 1)
  BY <1>1 DEF LeadsTo
<1>4. ASSUME Chained(q, t, n), NEW i \in 1 .. n + 1, Connecting(r, i)
      PROVE  LeadsTo(r, t, r[i].block, i + 1, n + 1)
  <2>1. i \in 1 .. n
    BY <1>1, <1>4 DEF Connecting
  <2>2. LeadsTo(q, t, q[i].block, i + 1, n)
    BY <1>1, <1>4, <2>1 DEF Chained, Connecting
  <2> QED BY <1>1, <1>2, <1>3, <2>1, <2>2
<1> QED BY <1>1, <1>2, <1>3, <1>4 DEF Chained, r, n

\* The callbacks of a move to b.
Moved(f, b) == [i \in 1 .. (nHeight(b) - nHeight(f)) |-> Connected(BlocksAbove(f, b)[i])]

\* A move from f up to b queues one BlockConnected per block, in the order of height.
LEMMA MovedType ==
    ASSUME NEW b \in Block, NEW f \in Block, OnBranch(f, b)
    PROVE  /\ Moved(f, b) \in Seq(Callback)
           /\ Len(Moved(f, b)) = nHeight(b) - nHeight(f) /\ Len(Moved(f, b)) \in Nat
           /\ \A i \in 1 .. Len(Moved(f, b)) :
                 Moved(f, b)[i] = Connected(GetAncestor(b, nHeight(f) + i))
<1> DEFINE n == nHeight(b) - nHeight(f)
<1>1. nHeight(b) \in Nat /\ nHeight(f) \in Nat /\ nHeight(f) <= nHeight(b)
  BY Heights DEF OnBranch, nHeight
<1>2. n \in Nat
  BY <1>1
<1>3. \A i \in 1 .. n : Connected(GetAncestor(b, nHeight(f) + i)) \in Callback
  <2> TAKE i \in 1 .. n
  <2>1. GetAncestor(b, nHeight(f) + i) \in Block
    BY AboveFork
  <2> QED BY <2>1 DEF Connected, Callback
<1> HIDE DEF n
<1>4. Moved(f, b) = [i \in 1 .. n |-> Connected(GetAncestor(b, nHeight(f) + i))]
  BY DEF Moved, BlocksAbove, n
<1>5. Moved(f, b) \in Seq(Callback) /\ Len(Moved(f, b)) = n
  BY <1>2, <1>3, <1>4
<1> QED BY <1>2, <1>4, <1>5 DEF n

\* When the chain moves from t to b, what led to t leads to b once the callbacks
\* of the move are queued.
LEMMA LeadsMove ==
    ASSUME NEW q \in Seq(Callback), NEW t \in Block, NEW b \in Block,
           \A i \in 1 .. Len(q) : Connecting(q, i) => q[i].block \in Block
    PROVE  LET r == q \o Moved(FindFork(t, b), b)
           IN  /\ Chained(q, t, Len(q)) => Chained(r, b, Len(r))
               /\ \A x \in Block : LeadsTo(q, t, x, 1, Len(q)) => LeadsTo(r, b, x, 1, Len(r))
<1> DEFINE f == FindFork(t, b)
           m == Moved(f, b)
           r == q \o m
           n == Len(q)
           k == Len(m)
<1>1. f \in Block /\ OnBranch(f, t) /\ OnBranch(f, b)
  BY Fork
<1> HIDE DEF f
<1>2. m \in Seq(Callback) /\ k = nHeight(b) - nHeight(f) /\ k \in Nat
      /\ \A i \in 1 .. k : m[i] = Connected(GetAncestor(b, nHeight(f) + i))
  BY <1>1, MovedType
<1>3. Len(r) = n + k /\ n \in Nat /\ (\A i \in 1 .. n : r[i] = q[i]) /\ \A i \in 1 .. k : r[n + i] = m[i]
  BY <1>2, ConcatProperties, LenProperties
<1> HIDE DEF m, r, n, k
<1>4. \A i \in 1 .. k :
        /\ Connecting(r, n + i) /\ r[n + i].block = GetAncestor(b, nHeight(f) + i)
        /\ r[n + i].block \in Block
        /\ pprev(r[n + i].block) = GetAncestor(b, nHeight(f) + i - 1)
        /\ i = 1 => pprev(r[n + i].block) = f
  <2> TAKE i \in 1 .. k
  <2>1. r[n + i] = Connected(GetAncestor(b, nHeight(f) + i))
    BY <1>2, <1>3
  <2>2. i \in 1 .. (nHeight(b) - nHeight(f))
    BY <1>2
  <2> QED BY <1>1, <2>1, <2>2, AboveFork DEF Connecting, Connected
<1>5. ASSUME NEW x \in Block, OnBranch(t, x), NEW low \in 1 .. n + 1
      PROVE  LeadsTo(r, b, x, low, n + k)
  <2>1. OnBranch(f, x)
    BY <1>1, <1>5, OnBranchTransitive
  <2>2. CASE k = 0
    <3>1. nHeight(b) = nHeight(f)
      BY <1>1, <1>2, <2>2, Heights
    <3>2. b = f
      BY <1>1, <3>1, OnBranchAntisymmetric, Heights DEF nHeight
    <3> QED BY <2>1, <3>2 DEF LeadsTo
  <2>3. CASE k # 0
    <3>1. n + 1 \in low .. n + k /\ 1 \in 1 .. k
      BY <1>2, <1>3, <2>3
    <3>2. Connecting(r, n + 1) /\ OnBranch(pprev(r[n + 1].block), x)
      BY <1>4, <2>1, <3>1
    <3> QED BY <3>1, <3>2 DEF LeadsTo
  <2> QED BY <2>2, <2>3
<1>6. ASSUME NEW x \in Block, NEW low \in 1 .. n + 1, LeadsTo(q, t, x, low, n)
      PROVE  LeadsTo(r, b, x, low, n + k)
  <2>1. ASSUME NEW j \in low .. n, Connecting(q, j), OnBranch(pprev(q[j].block), x)
        PROVE  LeadsTo(r, b, x, low, n + k)
    <3>1. j \in 1 .. n /\ j \in low .. n + k
      BY <1>2, <1>3
    <3>2. Connecting(r, j) /\ OnBranch(pprev(r[j].block), x)
      BY <1>3, <2>1, <3>1 DEF Connecting
    <3> QED BY <3>1, <3>2 DEF LeadsTo
  <2> QED BY <1>5, <1>6, <2>1 DEF LeadsTo
<1>7. ASSUME Chained(q, t, n), NEW i \in 1 .. n + k, Connecting(r, i)
      PROVE  LeadsTo(r, b, r[i].block, i + 1, n + k)
  <2>1. CASE i \in 1 .. n
    <3>1. r[i] = q[i] /\ Connecting(q, i) /\ q[i].block \in Block /\ i + 1 \in 1 .. n + 1
      BY <1>3, <1>7, <2>1 DEF Connecting, n
    <3>2. LeadsTo(q, t, q[i].block, i + 1, n)
      BY <1>7, <2>1, <3>1 DEF Chained
    <3> QED BY <1>6, <3>1, <3>2
  <2>2. CASE i \notin 1 .. n
    <3> DEFINE j == i - n
    <3>1. j \in 1 .. k /\ i = n + j
      BY <1>2, <1>3, <2>2
    <3> HIDE DEF j
    <3>2. r[i].block \in Block /\ r[i].block = GetAncestor(b, nHeight(f) + j)
      BY <1>4, <3>1
    <3>3. CASE j = k
      <4>1. nHeight(f) + j = nHeight(b) /\ nHeight(b) \in 0 .. nHeight(b)
        BY <1>1, <1>2, <3>3, Heights
      <4>2. r[i].block = b
        BY <3>2, <4>1, OnBranchReflexive, AncestorUnique
      <4> QED BY <4>2, OnBranchReflexive DEF LeadsTo
    <3>4. CASE j # k
      <4>1. j + 1 \in 1 .. k /\ i + 1 = n + (j + 1) /\ i + 1 \in i + 1 .. n + k
        BY <1>2, <1>3, <3>1, <3>4
      <4>2. nHeight(f) + (j + 1) - 1 = nHeight(f) + j
        BY <1>1, <1>2, <3>1, Heights
      <4>3. Connecting(r, i + 1) /\ pprev(r[i + 1].block) = r[i].block
        BY <1>4, <3>2, <4>1, <4>2
      <4> QED BY <3>2, <4>1, <4>3, OnBranchReflexive DEF LeadsTo
    <3> QED BY <3>3, <3>4
  <2> QED BY <2>1, <2>2
<1> QED BY <1>3, <1>6, <1>7 DEF Chained, r, m, f, n

\* Taking the first callback of the queue.
LEMMA LeadsTail ==
    ASSUME NEW q \in Seq(Callback), q # <<>>, NEW t, NEW n \in 1 .. Len(q), Chained(q, t, n)
    PROVE  LET r == Tail(q)
           IN  /\ Chained(r, t, n - 1)
               /\ Connecting(q, 1) => LeadsTo(r, t, q[1].block, 1, n - 1)
               /\ \A x : /\ LeadsTo(q, t, x, 1, n)
                         /\ ~(Connecting(q, 1) /\ OnBranch(pprev(q[1].block), x))
                         => LeadsTo(r, t, x, 1, n - 1)
<1> DEFINE r == Tail(q)
<1>1. n \in Nat /\ n - 1 \in Nat /\ \A i \in 1 .. n - 1 : r[i] = q[i + 1]
  BY HeadTailProperties, LenProperties
<1> HIDE DEF r
<1>2. ASSUME NEW x, NEW low \in Nat \ {0}, LeadsTo(q, t, x, low + 1, n)
      PROVE  LeadsTo(r, t, x, low, n - 1)
  <2>1. ASSUME NEW j \in low + 1 .. n, Connecting(q, j), OnBranch(pprev(q[j].block), x)
        PROVE  LeadsTo(r, t, x, low, n - 1)
    <3>1. j - 1 \in low .. n - 1 /\ r[j - 1] = q[j]
      BY <1>1
    <3> QED BY <2>1, <3>1 DEF LeadsTo, Connecting
  <2> QED BY <1>2, <2>1 DEF LeadsTo
<1>3. ASSUME NEW i \in 1 .. n - 1, Connecting(r, i)
      PROVE  LeadsTo(r, t, r[i].block, i + 1, n - 1)
  <2>1. i + 1 \in 1 .. n /\ r[i] = q[i + 1] /\ Connecting(q, i + 1)
    BY <1>1, <1>3 DEF Connecting
  <2>2. LeadsTo(q, t, q[i + 1].block, (i + 1) + 1, n)
    BY <2>1 DEF Chained
  <2> QED BY <1>2, <2>1, <2>2
<1>4. ASSUME Connecting(q, 1) PROVE LeadsTo(r, t, q[1].block, 1, n - 1)
  <2>1. LeadsTo(q, t, q[1].block, 1 + 1, n)
    BY <1>1, <1>4 DEF Chained
  <2> QED BY <1>2, <2>1
<1>5. ASSUME NEW x, LeadsTo(q, t, x, 1, n), ~(Connecting(q, 1) /\ OnBranch(pprev(q[1].block), x))
      PROVE  LeadsTo(r, t, x, 1, n - 1)
  <2>1. LeadsTo(q, t, x, 1 + 1, n)
    BY <1>1, <1>5 DEF LeadsTo
  <2> QED BY <1>2, <2>1
<1> QED BY <1>3, <1>4, <1>5 DEF Chained, r

-----------------------------------------------------------------------------
(* Types.                                                                  *)

USE BaseIndexAssumption

\* The initial states are well typed.
LEMMA InitType == Init => TypeOK
<1> SUFFICES ASSUME Init PROVE TypeOK
  OBVIOUS
<1>1. Genesis \in Block
  BY BlockTreeAssumption
<1>2. queue \in Seq(Callback)
  BY DEF Init
<1>3. m_synced \in BOOLEAN /\ m_interrupt \in BOOLEAN
  BY ZenonT(60) DEF Init
<1>4. txpos \in [Tx -> Block \cup {NoBlock}]
  BY DEF Init
<1>5. moves \in 0 .. MaxMoves /\ flushes \in 0 .. MaxFlushes /\ restarts \in 0 .. MaxRestarts
  BY DEF Init
<1>6. sync \in {"loop", "picked", "located", "done"}
  BY ZenonT(60) DEF Init
<1> QED BY ZenonT(60), <1>1, <1>2, <1>3, <1>4, <1>5, <1>6 DEF Init, TypeOK

\* The callbacks of a move extend the queue.
LEMMA MoveQueue ==
    ASSUME TypeOK, NEW b \in Block, MoveTip(b)
    PROVE  \E q \in Seq(Callback) :
             /\ q = queue \/ \E e \in Block : q = Append(queue, Flushed(e))
             /\ queue' = q \o Moved(FindFork(tip, b), b)
             /\ queue' \in Seq(Callback)
             /\ coinsTip' \in Block
             /\ flushes' \in 0 .. MaxFlushes
<1> DEFINE f == FindFork(tip, b)
<1>1. /\ tip \in Block /\ queue \in Seq(Callback) /\ coinsTip \in Block
      /\ f \in Block /\ OnBranch(f, tip) /\ OnBranch(f, b)
      /\ flushes \in 0 .. MaxFlushes
  BY Fork DEF TypeOK
<1>2. Moved(f, b) \in Seq(Callback)
  BY <1>1, MovedType
<1> HIDE DEF f
<1>3. CASE queue' = queue \o Moved(f, b) /\ UNCHANGED <<coinsTip, flushes>>
  <2>1. queue' \in Seq(Callback)
    BY <1>1, <1>2, <1>3, ConcatProperties
  <2> QED BY ZenonT(60), <1>1, <1>3, <2>1 DEF f
<1>4. ASSUME NEW x \in FlushesOnTheWay(b), flushes < MaxFlushes, flushes' = flushes + 1,
             queue' = Append(queue, Flushed(x.block)) \o Moved(f, b), coinsTip' = x.coins
      PROVE  \E q \in Seq(Callback) :
             /\ q = queue \/ \E e \in Block : q = Append(queue, Flushed(e))
             /\ queue' = q \o Moved(f, b)
             /\ queue' \in Seq(Callback)
             /\ coinsTip' \in Block
             /\ flushes' \in 0 .. MaxFlushes
  <2>1. x.block \in Block /\ x.coins \in Block
    <3>1. ASSUME NEW d \in Branch(tip) \ Branch(f), x = [coins |-> pprev(d), block |-> d]
          PROVE  x.block \in Block /\ x.coins \in Block
      <4>1. d \in Block /\ d # Genesis
        BY <1>1, Heights DEF Branch
      <4> QED BY <3>1, <4>1, Parent
    <3>2. ASSUME NEW c \in Branch(b) \ Branch(f), x = [coins |-> c, block |-> pprev(c)]
          PROVE  x.block \in Block /\ x.coins \in Block
      <4>1. c \in Block /\ c # Genesis
        BY <1>1, Heights DEF Branch
      <4> QED BY <3>2, <4>1, Parent
    <3> QED BY <1>4, <3>1, <3>2 DEF FlushesOnTheWay, f
  <2>2. Flushed(x.block) \in Callback
    BY <2>1 DEF Flushed, Callback
  <2> DEFINE q == Append(queue, Flushed(x.block))
  <2>3. q \in Seq(Callback)
    BY <1>1, <2>2, AppendProperties
  <2>4. queue' \in Seq(Callback)
    BY <1>2, <1>4, <2>3, ConcatProperties
  <2>5. flushes' \in 0 .. MaxFlushes
    BY <1>1, <1>4
  <2> QED BY ZenonT(60), <1>4, <2>1, <2>3, <2>4, <2>5
<1> QED BY ZenonT(60), <1>3, <1>4 DEF MoveTip, Moved, f

\* Every step of the validation thread, the queue and the index keeps the types.
LEMMA TypeStep ==
    ASSUME TypeOK, [Next]_vars
    PROVE  TypeOK'
<1>1. ASSUME NEW b \in Block, MoveTip(b) PROVE TypeOK'
  <2>1. queue' \in Seq(Callback) /\ coinsTip' \in Block /\ flushes' \in 0 .. MaxFlushes
    BY ZenonT(60), <1>1, MoveQueue
  <2>2. moves' \in 0 .. MaxMoves
    BY <1>1 DEF MoveTip, TypeOK
  <2> QED BY <1>1, <2>1, <2>2 DEF MoveTip, TypeOK, index, thread, call
<1>2. CASE FlushStateToDisk
  <2>1. tip \in Block /\ queue \in Seq(Callback) /\ Flushed(tip) \in Callback
    BY DEF TypeOK, Flushed, Callback
  <2>2. queue' \in Seq(Callback)
    BY <1>2, <2>1, AppendProperties DEF FlushStateToDisk
  <2>3. flushes' \in 0 .. MaxFlushes
    BY <1>2 DEF FlushStateToDisk, TypeOK
  <2> QED BY <1>2, <2>2, <2>3 DEF FlushStateToDisk, TypeOK, index, thread, call
<1>3. CASE SyncInterrupted
  BY <1>3 DEF SyncInterrupted, TypeOK, index, call, count
<1>4. CASE SyncNext
  <2>1. pindex \in Block /\ tip \in Block
    BY DEF TypeOK
  <2>4. pindex' \in Block
    BY <1>4, <2>1, NextAboveFork DEF SyncNext
  <2> QED BY <1>4, <2>4 DEF SyncNext, TypeOK, disk, index, call, count
<1>5. CASE SyncLocator
  BY <1>5 DEF SyncLocator, TypeOK, index, call, count
<1>6. CASE SyncWrite
  BY <1>6 DEF SyncWrite, WriteBlock, TypeOK, index, call, count
<1>7. CASE SyncDone
  BY <1>7 DEF SyncDone, TypeOK, call, count
<1>8. CASE SyncFails
  BY <1>8 DEF SyncFails, TypeOK, disk, index, call, count
<1>9. ASSUME TakeCallback PROVE queue' \in Seq(Callback) /\ Head(queue) \in Callback
  BY <1>9, HeadTailProperties DEF TakeCallback, TypeOK
<1>10. CASE BlockConnected
  <2>1. queue' \in Seq(Callback) /\ Head(queue) \in Callback
    BY <1>9, <1>10 DEF BlockConnected
  <2>2. callback' \in [kind : {"connected", "written", "flushed"}, block : Block] \cup {Idle}
    BY <1>10, <2>1 DEF BlockConnected, Callback, Marker
  <2> QED BY <1>10, <2>1, <2>2 DEF BlockConnected, TypeOK, disk, index, thread, call, count
<1>11. CASE BlockConnectedWrites
  <2>1. callback \in [kind : {"connected", "written", "flushed"}, block : Block]
    BY <1>11 DEF BlockConnectedWrites, TypeOK, Idle
  <2>2. callback' \in [kind : {"connected", "written", "flushed"}, block : Block]
    BY <1>11, <2>1 DEF BlockConnectedWrites
  <2>3. txpos' \in [Tx -> Block \cup {NoBlock}]
    BY <1>11, <2>1 DEF BlockConnectedWrites, WriteBlock, TypeOK
  <2> QED BY <1>11, <2>2, <2>3 DEF BlockConnectedWrites, TypeOK, index, thread, call, count
<1>12. CASE BlockConnectedReturns
  <2>1. callback.block \in Block
    BY <1>12 DEF BlockConnectedReturns, TypeOK, Idle
  <2> QED BY <1>12, <2>1 DEF BlockConnectedReturns, TypeOK, disk, thread, call, count
<1>13. CASE ChainStateFlushed
  <2>1. queue' \in Seq(Callback) /\ Head(queue) \in Callback
    BY <1>9, <1>13 DEF ChainStateFlushed
  <2>2. callback' \in [kind : {"connected", "written", "flushed"}, block : Block] \cup {Idle}
    BY <1>13, <2>1 DEF ChainStateFlushed, Callback, Marker
  <2> QED BY <1>13, <2>1, <2>2 DEF ChainStateFlushed, TypeOK, disk, index, thread, call, count
<1>14. CASE ChainStateFlushedWrites
  <2>1. callback.block \in Block
    BY <1>14 DEF ChainStateFlushedWrites, TypeOK, Idle
  <2> QED BY <1>14, <2>1 DEF ChainStateFlushedWrites, TypeOK, index, thread, call, count
<1>15. CASE MarkerRuns
  <2>1. queue' \in Seq(Callback)
    BY <1>9, <1>15 DEF MarkerRuns
  <2> QED BY <1>15, <2>1 DEF MarkerRuns, TypeOK, disk, index, thread, count
<1>16. CASE CallBlockUntilSynced
  BY <1>16 DEF CallBlockUntilSynced, TypeOK, disk, index, thread, count
<1>17. CASE CheckTip
  BY <1>17 DEF CheckTip, TypeOK, disk, index, thread, count
<1>18. CASE SyncWithValidationInterfaceQueue
  <2>1. queue' \in Seq(Callback)
    BY ZenonT(60), <1>18, AppendProperties DEF SyncWithValidationInterfaceQueue, TypeOK, Callback
  <2> QED BY <1>18, <2>1 DEF SyncWithValidationInterfaceQueue, TypeOK, disk, index, thread, count
<1>19. CASE CallerLeaves
  BY <1>19 DEF CallerLeaves, TypeOK, disk, index, thread, count
<1>20. CASE Interrupt
  BY <1>20 DEF Interrupt, TypeOK, disk, index, thread, call, count
<1>21. ASSUME NEW t \in Block, Boot(t), restarts < MaxRestarts PROVE TypeOK'
  <2>1. Start(t) /\ queue' \in Seq(Callback) /\ restarts' \in 0 .. MaxRestarts
    BY <1>21 DEF Boot, TypeOK
  <2>2. m_best_block_index' \in Block /\ pindex' \in Block
    BY <2>1, Fork, BlockTreeAssumption DEF Start, TypeOK
  <2>3. m_synced' \in BOOLEAN /\ sync' \in {"loop", "picked", "located", "done"}
    BY ZenonT(60), <2>1 DEF Start
  <2> QED BY ZenonT(60), <1>21, <2>1, <2>2, <2>3 DEF Boot, TypeOK
<1>22. CASE Restart
  BY <1>21, <1>22 DEF Restart, TypeOK
<1>23. CASE Crash
  BY <1>21, <1>23 DEF Crash, TypeOK
<1>24. CASE UNCHANGED vars
  BY <1>24 DEF vars, TypeOK, disk, index, thread, call, count
<1> QED BY ZenonT(60), <1>1, <1>2, <1>3, <1>4, <1>5, <1>6, <1>7, <1>8, <1>10, <1>11, <1>12, <1>13, <1>14, <1>15, <1>16, <1>17, <1>18, <1>19, <1>20, <1>22, <1>23, <1>24 DEF Next, ThreadSync, ProcessQueue, BlockUntilSyncedToCurrentChain

-----------------------------------------------------------------------------
(* Turns.                                                                  *)

\* Every step leaves the queue alone, moves the chain, appends a callback that
\* connects nothing, takes the first callback, or starts a process.
LEMMA QueueStep ==
    ASSUME TypeOK, [Next]_vars
    PROVE  \/ queue' = queue
           \/ \E b \in Block : MoveTip(b)
           \/ FlushStateToDisk \/ SyncWithValidationInterfaceQueue
           \/ TakeCallback
           \/ queue' = <<>>
BY ZenonT(60) DEF Next, ThreadSync, ProcessQueue, BlockUntilSyncedToCurrentChain, vars,
    SyncInterrupted, SyncNext, SyncLocator, SyncWrite, SyncDone, SyncFails,
    BlockConnected, BlockConnectedWrites, BlockConnectedReturns,
    ChainStateFlushed, ChainStateFlushedWrites, MarkerRuns,
    CallBlockUntilSynced, CheckTip, CallerLeaves, Interrupt, Restart, Crash, Boot

\* A move only appends, and no marker.
LEMMA MoveEntries ==
    ASSUME TypeOK, NEW b \in Block, MoveTip(b)
    PROVE  /\ Len(queue) \in Nat /\ Len(queue') \in Nat /\ Len(queue) <= Len(queue')
           /\ \A i \in 1 .. Len(queue) : queue'[i] = queue[i]
           /\ \A i \in 1 .. Len(queue') : i > Len(queue) =>
                 (queue'[i] # Marker /\ queue'[i].block # Genesis) \/ queue'[i].kind = "flushed"
<1> DEFINE f == FindFork(tip, b)
           m == Moved(f, b)
<1>1. queue \in Seq(Callback) /\ tip \in Block /\ Len(queue) \in Nat
  BY LenProperties DEF TypeOK
<1>2. PICK q \in Seq(Callback) : /\ q = queue \/ \E e \in Block : q = Append(queue, Flushed(e))
                                 /\ queue' = q \o m
  BY ZenonT(60), MoveQueue
<1>3. f \in Block /\ OnBranch(f, b)
  BY <1>1, Fork
<1> HIDE DEF f
<1>4. /\ m \in Seq(Callback)
      /\ Len(m) = nHeight(b) - nHeight(f) /\ Len(m) \in Nat
      /\ \A i \in 1 .. Len(m) : m[i] = Connected(GetAncestor(b, nHeight(f) + i))
  BY <1>3, MovedType
<1> HIDE DEF m
<1>5. \A i \in 1 .. Len(m) : m[i] # Marker /\ m[i].block # Genesis
  <2> TAKE i \in 1 .. Len(m)
  <2>1. GetAncestor(b, nHeight(f) + i) # Genesis
    BY <1>3, <1>4, AboveFork
  <2> QED BY <1>4, <2>1 DEF Connected, Marker
<1>6. /\ Len(queue') = Len(q) + Len(m) /\ Len(q) \in Nat
      /\ \A i \in 1 .. Len(queue') : queue'[i] = IF i <= Len(q) THEN q[i] ELSE m[i - Len(q)]
  BY <1>2, <1>4, ConcatProperties, LenProperties
<1>7. /\ Len(q) >= Len(queue)
      /\ \A i \in 1 .. Len(queue) : q[i] = queue[i]
      /\ \A i \in 1 .. Len(q) : i > Len(queue) => q[i].kind = "flushed"
  <2>1. CASE q = queue
    BY <1>1, <2>1
  <2>2. ASSUME NEW e \in Block, q = Append(queue, Flushed(e)) PROVE <1>7
    <3>1. Flushed(e) \in Callback /\ Flushed(e).kind = "flushed"
      BY DEF Flushed, Callback
    <3> QED BY <1>1, <2>2, <3>1, AppendProperties
  <2> QED BY <1>2, <2>1, <2>2
<1>8. ASSUME NEW i \in 1 .. Len(queue'), i > Len(queue)
      PROVE  (queue'[i] # Marker /\ queue'[i].block # Genesis) \/ queue'[i].kind = "flushed"
  <2>1. CASE i <= Len(q)
    BY <1>6, <1>7, <1>8, <2>1
  <2>2. CASE ~(i <= Len(q))
    <3>1. i - Len(q) \in 1 .. Len(m)
      BY <1>4, <1>6, <2>2
    <3> QED BY <1>5, <1>6, <2>2, <3>1
  <2> QED BY <2>1, <2>2
<1>9. \A i \in 1 .. Len(queue) : queue'[i] = queue[i]
  BY <1>1, <1>4, <1>6, <1>7
<1> QED BY <1>1, <1>4, <1>6, <1>7, <1>8, <1>9

\* No step queues the BlockConnected of the genesis block.
LEMMA QueueBlocksStep ==
    ASSUME TypeOK, QueueBlocks, [Next]_vars
    PROVE  QueueBlocks'
<1>1. queue \in Seq(Callback) /\ tip \in Block /\ Len(queue) \in Nat
  BY LenProperties DEF TypeOK
<1>a. ASSUME NEW e \in Callback, e.kind # "connected", queue' = Append(queue, e) PROVE QueueBlocks'
  BY <1>1, <1>a, AppendProperties DEF Connecting, QueueBlocks
<1>2. ASSUME NEW b \in Block, MoveTip(b) PROVE QueueBlocks'
  <2>1. /\ Len(queue) \in Nat /\ Len(queue') \in Nat /\ Len(queue) <= Len(queue')
        /\ \A i \in 1 .. Len(queue) : queue'[i] = queue[i]
        /\ \A i \in 1 .. Len(queue') : i > Len(queue) =>
              queue'[i].block # Genesis \/ queue'[i].kind = "flushed"
    BY ZenonT(60), <1>2, MoveEntries
  <2> QED BY <2>1 DEF QueueBlocks, Connecting
<1>3. CASE FlushStateToDisk
  <2>1. Flushed(tip) \in Callback /\ Flushed(tip).kind # "connected"
    BY <1>1 DEF Flushed, Callback
  <2> QED BY <1>3, <1>a, <2>1 DEF FlushStateToDisk
<1>4. CASE SyncWithValidationInterfaceQueue
  <2>1. Marker \in Callback /\ Marker.kind # "connected"
    BY DEF Marker, Callback
  <2> QED BY <1>4, <1>a, <2>1 DEF SyncWithValidationInterfaceQueue
<1>5. CASE TakeCallback
  <2>1. Len(queue') = Len(queue) - 1 /\ \A i \in 1 .. Len(queue') : queue'[i] = queue[i + 1]
    BY <1>1, <1>5, HeadTailProperties DEF TakeCallback
  <2> QED BY <1>1, <2>1 DEF QueueBlocks, Connecting
<1>6. CASE queue' = <<>>
  BY <1>6 DEF QueueBlocks
<1>7. CASE queue' = queue
  BY <1>7 DEF QueueBlocks, Connecting
<1> QED BY <1>2, <1>3, <1>4, <1>5, <1>6, <1>7, QueueStep

\* The caller gets its answer from a marker, and leaves it alone otherwise.
LEMMA CallerStep ==
    ASSUME [Next]_vars
    PROVE  \/ caller' = caller
           \/ MarkerRuns \/ SyncWithValidationInterfaceQueue
           \/ caller # "waiting" /\ queue' = queue
           \/ queue' = <<>>
BY ZenonT(60) DEF Next, ThreadSync, ProcessQueue, BlockUntilSyncedToCurrentChain, vars, call,
    MoveTip, FlushStateToDisk,
    SyncInterrupted, SyncNext, SyncLocator, SyncWrite, SyncDone, SyncFails,
    BlockConnected, BlockConnectedWrites, BlockConnectedReturns,
    ChainStateFlushed, ChainStateFlushedWrites,
    CallBlockUntilSynced, CheckTip, CallerLeaves, Interrupt, Restart, Crash, Boot

\* Every step keeps the marker of the waiting caller the only one in the queue.
LEMMA MarkersStep ==
    ASSUME TypeOK, Markers, [Next]_vars
    PROVE  Markers'
<1>1. queue \in Seq(Callback) /\ tip \in Block /\ Len(queue) \in Nat
  BY LenProperties DEF TypeOK
<1>2. ASSUME NEW b \in Block, MoveTip(b) PROVE Markers'
  <2>1. /\ Len(queue) \in Nat /\ Len(queue') \in Nat /\ Len(queue) <= Len(queue')
        /\ \A i \in 1 .. Len(queue) : queue'[i] = queue[i]
        /\ \A i \in 1 .. Len(queue') : i > Len(queue) =>
              queue'[i] # Marker \/ queue'[i].kind = "flushed"
    BY ZenonT(60), <1>2, MoveEntries
  <2>2. \A i \in 1 .. Len(queue') : queue'[i] = Marker => i \in 1 .. Len(queue)
    BY <2>1 DEF Marker
  <2>3. caller' = caller
    BY <1>2 DEF MoveTip, call
  <2> QED BY <2>1, <2>2, <2>3 DEF Markers
<1>3. CASE FlushStateToDisk
  <2>1. Flushed(tip) \in Callback /\ Flushed(tip) # Marker
    BY <1>1 DEF Flushed, Callback, Marker
  <2>2. caller' = caller /\ queue' = Append(queue, Flushed(tip))
    BY <1>3 DEF FlushStateToDisk, call
  <2> QED BY <1>1, <2>1, <2>2, AppendProperties DEF Markers
<1>4. CASE SyncWithValidationInterfaceQueue
  <2>1. Marker \in Callback
    BY DEF Callback
  <2>2. caller = "drain" /\ caller' = "waiting" /\ queue' = Append(queue, Marker)
    BY <1>4 DEF SyncWithValidationInterfaceQueue
  <2>3. \A i \in 1 .. Len(queue) : queue[i] # Marker
    BY <2>2 DEF Markers
  <2> QED BY <1>1, <2>1, <2>2, <2>3, AppendProperties DEF Markers
<1>5. CASE TakeCallback
  <2>1. /\ Len(queue') = Len(queue) - 1 /\ Head(queue) = queue[1] /\ Len(queue) >= 1
        /\ \A i \in 1 .. Len(queue') : queue'[i] = queue[i + 1]
    BY <1>1, <1>5, HeadTailProperties, EmptySeq DEF TakeCallback
  <2>2. CASE caller' = caller
    BY <1>1, <2>1, <2>2 DEF Markers
  <2>3. CASE MarkerRuns
    <3>1. queue[1] = Marker
      BY <2>1, <2>3 DEF MarkerRuns
    <3>2. \A i \in 1 .. Len(queue') : queue'[i] # Marker
      BY <1>1, <2>1, <3>1 DEF Markers
    <3> QED BY <3>2 DEF Markers
  <2>4. queue' # queue
    BY <1>1, <2>1
  <2>5. ~SyncWithValidationInterfaceQueue
    BY <1>1, <2>1, AppendProperties DEF SyncWithValidationInterfaceQueue, Callback
  <2>6. CASE queue' = <<>>
    BY <2>6 DEF Markers
  <2> QED BY <2>2, <2>3, <2>4, <2>5, <2>6, CallerStep
<1>6. CASE queue' = <<>>
  BY <1>6 DEF Markers
<1>7. CASE queue' = queue
  <2>1. CASE caller' = caller
    BY <1>7, <2>1 DEF Markers
  <2>2. CASE caller # "waiting"
    BY <1>7, <2>2 DEF Markers
  <2>3. CASE MarkerRuns
    BY <1>5, <2>3 DEF MarkerRuns
  <2> QED BY <1>4, <1>6, <2>1, <2>2, <2>3, CallerStep
<1> QED BY <1>2, <1>3, <1>4, <1>5, <1>6, <1>7, QueueStep

\* Every step keeps the turns of ThreadSync, the callbacks and the callers.
LEMMA TurnStep ==
    ASSUME TypeOK, TurnInv, QueueBlocks, Markers, [Next]_vars
    PROVE  TurnInv'
<1>0. callback.kind \in {"idle", "connected", "written", "flushed"} /\ Idle.kind = "idle"
      /\ (callback # Idle => callback.block \in Block)
      /\ (callback = Idle <=> callback.kind = "idle")
  BY DEF TypeOK, Idle
<1>1. CASE SyncInterrupted
  BY <1>1 DEF TurnInv, SyncInterrupted, index, call
<1>2. CASE SyncNext
  <2>1. pindex \in Block /\ tip \in Block
    BY DEF TypeOK
  <2>2. pindex' # Genesis
    BY <1>2, <2>1, NextAboveFork DEF SyncNext
  <2> QED BY <1>2, <2>2 DEF TurnInv, SyncNext, disk, index, call
<1>3. CASE SyncLocator
  BY <1>3 DEF TurnInv, SyncLocator, index, call
<1>4. CASE SyncWrite
  BY <1>4 DEF TurnInv, SyncWrite, index, call
<1>5. CASE SyncDone
  BY ZenonT(60), <1>0, <1>5 DEF TurnInv, SyncDone, call
<1>6. CASE SyncFails
  BY <1>6 DEF TurnInv, SyncFails, disk, index, call
<1>7. CASE BlockConnected
  <2>1. queue \in Seq(Callback) /\ queue # <<>> /\ Len(queue) \in Nat
    BY <1>7, LenProperties DEF TypeOK, BlockConnected, TakeCallback
  <2>2. Head(queue) = queue[1] /\ 1 \in 1 .. Len(queue)
    BY <2>1, EmptySeq
  <2>3. Head(queue).block # Genesis
    BY <1>7, <2>2 DEF QueueBlocks, BlockConnected, Connecting
  <2>4. TurnInv!4' /\ TurnInv!5'
    BY <1>7 DEF TurnInv, BlockConnected, disk, thread
  <2> QED BY ZenonT(60), <1>0, <1>7, <2>3, <2>4 DEF TurnInv, BlockConnected, Connects, index, thread, call
<1>8. CASE BlockConnectedWrites
  <2>1. callback \in [kind : {"connected", "written", "flushed"}, block : Block]
    BY <1>8 DEF BlockConnectedWrites, TypeOK, Idle
  <2>2. callback'.kind = "written" /\ callback'.block = callback.block
    BY <1>8, <2>1 DEF BlockConnectedWrites
  <2> QED BY <1>0, <1>8, <2>2 DEF TurnInv, BlockConnectedWrites, index, thread, call
<1>9. CASE BlockConnectedReturns
  BY <1>0, <1>9 DEF TurnInv, BlockConnectedReturns, disk, thread, call
<1>10. CASE ChainStateFlushed
  BY ZenonT(60), <1>0, <1>10 DEF TurnInv, ChainStateFlushed, LocatorIndexed, disk, index, thread, call
<1>11. CASE ChainStateFlushedWrites
  BY <1>0, <1>11 DEF TurnInv, ChainStateFlushedWrites, index, thread, call
<1>12. CASE MarkerRuns \/ CheckTip \/ SyncWithValidationInterfaceQueue \/ CallerLeaves \/ CallBlockUntilSynced
  <2>1. MarkerRuns => caller = "waiting"
    <3>1. ASSUME MarkerRuns PROVE queue[1] = Marker /\ 1 \in 1 .. Len(queue)
      BY <3>1, EmptySeq, LenProperties DEF MarkerRuns, TakeCallback, TypeOK
    <3> QED BY <3>1 DEF Markers
  <2> QED BY ZenonT(60), <1>12, <2>1 DEF TurnInv, MarkerRuns, CheckTip, SyncWithValidationInterfaceQueue, CallerLeaves,
       CallBlockUntilSynced, disk, index, thread
<1>13. ASSUME NEW b \in Block, MoveTip(b) PROVE TurnInv'
  BY ZenonT(60), <1>13 DEF TurnInv, MoveTip, index, thread, call
<1>14. CASE FlushStateToDisk \/ Interrupt
  BY <1>14 DEF TurnInv, FlushStateToDisk, Interrupt, disk, index, thread, call
<1>15. ASSUME NEW t, Boot(t) PROVE TurnInv'
  BY ZenonT(60), <1>0, <1>15 DEF TurnInv, Boot, Start
<1>16. CASE UNCHANGED vars
  BY ZenonT(60), <1>16 DEF TurnInv, vars, disk, index, thread, call
<1> QED BY ZenonT(60), <1>1, <1>2, <1>3, <1>4, <1>5, <1>6, <1>7, <1>8, <1>9, <1>10, <1>11, <1>12, <1>13, <1>14, <1>15, <1>16 DEF Next, ThreadSync, ProcessQueue, BlockUntilSyncedToCurrentChain,
    Restart, Crash

-----------------------------------------------------------------------------
(* What is indexed.                                                        *)

\* When every block of b's branch is written, so is every block of an ancestor's branch.
LEMMA IndexedDown ==
    ASSUME NEW a \in Block, NEW b \in Block, OnBranch(a, b), BranchIndexed(b)
    PROVE  BranchIndexed(a)
<1>1. \A c \in Branch(a) : c \in Branch(b)
  BY OnBranchTransitive DEF Branch
<1> QED BY ZenonT(60), <1>1 DEF BranchIndexed

\* Nothing of the genesis block has to be written.
LEMMA IndexedGenesis == BranchIndexed(Genesis)
<1>1. \A c \in Branch(Genesis) : c = Genesis
  <2> TAKE c \in Branch(Genesis)
  <2>1. c \in Block /\ OnBranch(c, Genesis) /\ Genesis \in Block
    BY BlockTreeAssumption DEF Branch
  <2>2. nHeight(c) = 0
    BY <2>1, Heights DEF OnBranch, nHeight
  <2> QED BY <2>1, <2>2, Heights
<1> QED BY <1>1 DEF BranchIndexed

\* WriteBlock forgets nothing, and completes the branch of its block.
LEMMA WriteIndexes ==
    ASSUME TypeOK, NEW b \in Block, b # Genesis, WriteBlock(b)
    PROVE  /\ \A c \in Block : BranchIndexed(c) => BranchIndexed(c)'
           /\ BranchIndexed(pprev(b)) => BranchIndexed(b)'
<1>1. \A c \in Block : vtx[c] \subseteq Tx
  OBVIOUS
<1>2. txpos' = [t \in Tx |-> IF t \in vtx[b] THEN b ELSE txpos[t]] /\ b # NoBlock
  BY DEF WriteBlock
<1>3. \A t \in Tx : txpos[t] # NoBlock => txpos'[t] # NoBlock
  BY <1>2
<1>4. \A c \in Block : Indexed(c) => Indexed(c)'
  BY <1>1, <1>3 DEF Indexed
<1>5. Indexed(b)'
  BY <1>1, <1>2 DEF Indexed
<1>6. \A c \in Block : BranchIndexed(c) => BranchIndexed(c)'
  BY ZenonT(60), <1>4 DEF BranchIndexed, Branch
<1>7. ASSUME BranchIndexed(pprev(b)), NEW a \in Branch(b) \ {Genesis} PROVE Indexed(a)'
  <2>1. a \in Block /\ OnBranch(a, b) /\ (a # b => OnBranch(a, pprev(b)))
    BY Parent DEF Branch
  <2> QED BY ZenonT(60), <1>4, <1>5, <1>7, <2>1 DEF BranchIndexed, Branch
<1> QED BY ZenonT(60), <1>6, <1>7 DEF BranchIndexed

\* A step writes a block or leaves the positions alone.
LEMMA PositionStep ==
    ASSUME [Next]_vars
    PROVE  SyncWrite \/ BlockConnectedWrites \/ txpos' = txpos
BY ZenonT(60) DEF Next, ThreadSync, ProcessQueue, BlockUntilSyncedToCurrentChain, vars, disk,
    MoveTip, FlushStateToDisk,
    SyncInterrupted, SyncNext, SyncLocator, SyncDone, SyncFails,
    BlockConnected, BlockConnectedReturns, ChainStateFlushed, ChainStateFlushedWrites,
    CallBlockUntilSynced, CheckTip, CallerLeaves, MarkerRuns, SyncWithValidationInterfaceQueue,
    Interrupt, Restart, Crash, Boot

\* The index never loses a branch.
LEMMA IndexedGrows ==
    ASSUME TypeOK, TurnInv, [Next]_vars
    PROVE  \A c \in Block : BranchIndexed(c) => BranchIndexed(c)'
<1>1. CASE SyncWrite
  BY <1>1, WriteIndexes DEF SyncWrite, TypeOK, TurnInv
<1>2. CASE BlockConnectedWrites
  <2>1. callback.block \in Block /\ callback.block # Genesis
    BY <1>2 DEF BlockConnectedWrites, TypeOK, TurnInv, Idle
  <2> QED BY <1>2, <2>1, WriteIndexes DEF BlockConnectedWrites
<1>3. CASE txpos' = txpos
  BY ZenonT(60), <1>3 DEF BranchIndexed, Indexed
<1> QED BY <1>1, <1>2, <1>3, PositionStep

\* Once it is complete, the branch of the thread's block stays so; the rest of
\* the step is about the block itself.
LEMMA IndexedStep ==
    ASSUME ~GapFaults, TypeOK, TurnInv, IndexedInv, [Next]_vars
    PROVE  IndexedInv'
<1>0. \A c \in Block : BranchIndexed(c) => BranchIndexed(c)'
  BY IndexedGrows
<1>t. /\ tip \in Block /\ m_best_block_index \in Block /\ pindex \in Block /\ coinsTip \in Block
      /\ locator \in Block \cup {NoBlock}
      /\ callback \in [kind : {"connected", "written", "flushed"}, block : Block] \cup {Idle}
      /\ Idle.kind = "idle"
  BY DEF TypeOK, Idle
<1>b. callback.kind \in {"connected", "written", "flushed"} => callback.block \in Block
  BY <1>t
<1>p. pindex # Genesis => pprev(pindex) \in Block
  BY <1>t, Parent
<1>s. ASSUME UNCHANGED <<m_best_block_index, sync, pindex, callback, locator>> PROVE IndexedInv'
  BY <1>0, <1>t, <1>b, <1>p, <1>s DEF IndexedInv, LocatorBehind, TurnInv
<1>1. CASE SyncInterrupted
  BY <1>0, <1>t, <1>b, <1>1 DEF IndexedInv, LocatorBehind, SyncInterrupted, index
<1>2. CASE SyncNext
  <2>1. FindFork(pindex, tip) # tip /\ pindex' = GetAncestor(tip, nHeight(FindFork(pindex, tip)) + 1)
    BY <1>2 DEF SyncNext
  <2>2. pprev(pindex') = FindFork(pindex, tip)
    BY <1>t, <2>1, NextAboveFork
  <2>3. BranchIndexed(FindFork(pindex, tip))
    BY <1>t, <1>2, Fork, IndexedDown DEF SyncNext, IndexedInv
  <2>4. BranchIndexed(pprev(pindex))'
    BY <1>0, <1>t, <2>2, <2>3, Fork
  <2> QED BY <1>0, <1>t, <1>b, <1>2, <2>4 DEF IndexedInv, LocatorBehind, SyncNext, disk, index
<1>3. CASE SyncLocator
  BY <1>0, <1>t, <1>b, <1>p, <1>3 DEF IndexedInv, LocatorBehind, SyncLocator, index, TurnInv
<1>4. CASE SyncWrite
  <2>1. BranchIndexed(pindex)'
    BY <1>t, <1>4, WriteIndexes DEF SyncWrite, IndexedInv, TurnInv
  <2> QED BY <1>0, <1>t, <1>b, <1>4, <2>1 DEF IndexedInv, LocatorBehind, SyncWrite, index, TurnInv
<1>5. CASE SyncDone
  BY <1>0, <1>t, <1>b, <1>5 DEF IndexedInv, LocatorBehind, SyncDone
<1>6. CASE SyncFails
  BY <1>0, <1>t, <1>b, <1>6 DEF IndexedInv, LocatorBehind, SyncFails, disk, index
<1>7. CASE BlockConnected
  <2>1. callback'.kind # "written"
    BY <1>t, <1>7 DEF BlockConnected
  <2> QED BY <1>0, <1>t, <1>p, <1>7, <2>1 DEF IndexedInv, LocatorBehind, BlockConnected, disk, index, thread, TurnInv
<1>8. CASE BlockConnectedWrites
  <2>1. callback.block \in Block /\ callback.block # Genesis
        /\ OnBranch(pprev(callback.block), m_best_block_index)
    BY <1>b, <1>8 DEF BlockConnectedWrites, TurnInv
  <2>2. BranchIndexed(pprev(callback.block))
    BY <1>t, <2>1, IndexedDown, Parent DEF IndexedInv
  <2>3. BranchIndexed(callback.block)'
    <3> DEFINE c == callback.block
    <3>1. c \in Block /\ c # Genesis /\ WriteBlock(c) /\ BranchIndexed(pprev(c))
      BY <1>8, <2>1, <2>2 DEF BlockConnectedWrites
    <3>2. callback'.block = c
      BY <1>t, <1>8 DEF BlockConnectedWrites, Idle
    <3> HIDE DEF c
    <3> QED BY <3>1, <3>2, WriteIndexes
  <2> QED BY <1>0, <1>t, <1>p, <1>8, <2>3 DEF IndexedInv, LocatorBehind, BlockConnectedWrites, index, thread, TurnInv
<1>9. CASE BlockConnectedReturns
  BY ZenonT(60), <1>0, <1>t, <1>b, <1>p, <1>9 DEF IndexedInv, LocatorBehind, BlockConnectedReturns, disk, thread, TurnInv
<1>10. CASE ChainStateFlushed
  <2>1. callback'.kind # "written"
    BY <1>t, <1>10 DEF ChainStateFlushed
  <2> QED BY ZenonT(60), <1>0, <1>t, <1>p, <1>10, <2>1 DEF IndexedInv, LocatorBehind, ChainStateFlushed, disk, index, thread, TurnInv
<1>11. CASE ChainStateFlushedWrites
  <2>1. callback.block \in Block /\ OnBranch(callback.block, m_best_block_index)
    BY ZenonT(60), <1>b, <1>11 DEF ChainStateFlushedWrites, TurnInv
  <2>2. BranchIndexed(callback.block)
    BY <1>t, <2>1, IndexedDown DEF IndexedInv
  <2> QED BY <1>0, <1>t, <1>p, <1>11, <2>1, <2>2 DEF IndexedInv, LocatorBehind, ChainStateFlushedWrites, index, thread, TurnInv
<1>12. CASE MarkerRuns \/ CheckTip \/ SyncWithValidationInterfaceQueue \/ CallerLeaves
            \/ CallBlockUntilSynced \/ FlushStateToDisk \/ Interrupt \/ UNCHANGED vars
  BY ZenonT(60), <1>s, <1>12 DEF MarkerRuns, CheckTip, SyncWithValidationInterfaceQueue, CallerLeaves,
       CallBlockUntilSynced, FlushStateToDisk, Interrupt, vars, disk, index, thread
<1>13. ASSUME NEW b \in Block, MoveTip(b) PROVE IndexedInv'
  BY <1>s, <1>13 DEF MoveTip, index, thread
<1>14. ASSUME NEW t \in Block, Boot(t), sync # "located" PROVE IndexedInv'
  <2>1. BranchIndexed(m_best_block_index)'
    <3>1. CASE locator = NoBlock
      BY <1>14, <3>1, IndexedGenesis, <1>0, BlockTreeAssumption DEF Boot, Start
    <3>2. CASE locator # NoBlock
      <4>1. BranchIndexed(FindFork(locator, t)) /\ FindFork(locator, t) \in Block
        BY <1>t, <1>14, <3>2, Fork, IndexedDown DEF IndexedInv, LocatorBehind
      <4>2. m_best_block_index' = FindFork(locator, t)
        BY <1>14, <3>2 DEF Boot, Start
      <4> QED BY <1>0, <4>1, <4>2
    <3> QED BY <3>1, <3>2
  <2>2. pindex' = m_best_block_index' /\ sync' \in {"done", "loop"} /\ callback' = Idle /\ locator' = locator
    BY ZenonT(60), <1>14 DEF Boot, Start
  <2>3. LocatorBehind'
    BY <1>0, <1>t, <1>14, <2>2 DEF LocatorBehind, IndexedInv
  <2> QED BY <1>t, <2>1, <2>2, <2>3 DEF IndexedInv
<1>15. CASE Restart
  BY <1>t, <1>14, <1>15 DEF Restart
<1>16. CASE Crash
  BY <1>t, <1>14, <1>16 DEF Crash
<1> QED BY ZenonT(60), <1>1, <1>2, <1>3, <1>4, <1>5, <1>6, <1>7, <1>8, <1>9, <1>10, <1>11, <1>12, <1>13, <1>15, <1>16 DEF Next, ThreadSync, ProcessQueue, BlockUntilSyncedToCurrentChain

-----------------------------------------------------------------------------
(* The queue leads to the tip.                                             *)

\* What the callbacks make of the best block.
LEMMA CurrentFacts ==
    ASSUME TypeOK
    PROVE  /\ callback = Idle => Current = m_best_block_index
           /\ callback.kind = "flushed" => Current = m_best_block_index
           /\ callback.kind \in {"connected", "written"} => Current = callback.block
           /\ Current \in Block
BY DEF TypeOK, Current, Idle

\* The index takes a callback: a BlockConnected that connects becomes current,
\* everything else is skipped.
LEMMA TakeCurrent ==
    ASSUME TypeOK, TurnInv, BlockConnected \/ ChainStateFlushed \/ MarkerRuns
    PROVE  /\ callback = Idle /\ queue \in Seq(Callback) /\ queue # <<>> /\ queue' = Tail(queue)
           /\ Len(queue) \in Nat \ {0} /\ queue[1] = Head(queue)
           /\ m_best_block_index' = m_best_block_index /\ m_synced' = m_synced
           /\ tip' = tip
           /\ m_synced =>
                 IF Connecting(queue, 1) /\ OnBranch(pprev(queue[1].block), Current)
                 THEN Current' = queue[1].block ELSE Current' = Current
<1>1. callback = Idle /\ queue \in Seq(Callback) /\ queue # <<>> /\ queue' = Tail(queue)
  BY ZenonT(60) DEF BlockConnected, ChainStateFlushed, MarkerRuns, TakeCallback, TypeOK
<1>2. Len(queue) \in Nat \ {0} /\ queue[1] = Head(queue)
  BY <1>1, EmptySeq
<1>3. m_best_block_index' = m_best_block_index /\ m_synced' = m_synced /\ tip' = tip
  BY DEF BlockConnected, ChainStateFlushed, MarkerRuns, index
<1>4. Current = m_best_block_index
  BY <1>1, CurrentFacts
<1>5. CASE BlockConnected /\ m_synced
  <2>1. Connecting(queue, 1)
    BY ZenonT(60), <1>2, <1>5 DEF BlockConnected, Connecting
  <2>2. callback' = IF OnBranch(pprev(queue[1].block), m_best_block_index) THEN queue[1] ELSE Idle
    BY <1>2, <1>5 DEF BlockConnected, Connects
  <2> QED BY ZenonT(60), <1>1, <1>2, <1>3, <1>4, <2>1, <2>2 DEF Current, Connecting, Idle
<1>6. CASE ChainStateFlushed
  <2>1. ~Connecting(queue, 1) /\ (callback' = Idle \/ callback' = queue[1]) /\ queue[1].kind = "flushed"
    BY ZenonT(60), <1>2, <1>6 DEF ChainStateFlushed, Connecting
  <2> QED BY ZenonT(60), <1>1, <1>2, <1>3, <1>4, <2>1 DEF Current, Idle
<1>7. CASE MarkerRuns
  <2>1. ~Connecting(queue, 1) /\ callback' = callback
    BY <1>2, <1>7 DEF MarkerRuns, Connecting, Marker
  <2> QED BY <1>1, <1>2, <1>3, <2>1 DEF Current
<1> QED BY ZenonT(60), <1>1, <1>2, <1>3, <1>5, <1>6, <1>7

\* Other steps leave the current block alone once the index is in sync.
LEMMA CurrentStep ==
    ASSUME TypeOK, TurnInv, [Next]_vars, m_synced
    PROVE  \/ Current' = Current /\ m_synced'
           \/ BlockConnected \/ ChainStateFlushed \/ MarkerRuns
           \/ \E t \in Block : Boot(t)
<1>t. /\ callback \in [kind : {"connected", "written", "flushed"}, block : Block] \cup {Idle}
      /\ Idle.kind = "idle" /\ sync = "done" /\ tip \in Block /\ coinsTip \in Block
  BY ZenonT(60) DEF TypeOK, Idle, TurnInv
<1>1. CASE UNCHANGED <<callback, m_best_block_index, m_synced>>
  BY <1>1 DEF Current
<1>2. CASE BlockConnectedWrites
  BY <1>t, <1>2 DEF BlockConnectedWrites, Current, index
<1>3. CASE BlockConnectedReturns
  BY <1>t, <1>3 DEF BlockConnectedReturns, Current
<1>4. CASE ChainStateFlushedWrites
  BY <1>t, <1>4 DEF ChainStateFlushedWrites, Current, index
<1>5. ~SyncDone /\ ~SyncInterrupted /\ ~SyncNext /\ ~SyncLocator /\ ~SyncWrite /\ ~SyncFails
  BY ZenonT(60), <1>t DEF SyncDone, SyncInterrupted, SyncNext, SyncLocator, SyncWrite, SyncFails
<1>6. CASE Restart \/ Crash
  BY <1>t, <1>6 DEF Restart, Crash
<1>7. CASE FlushStateToDisk \/ CallBlockUntilSynced \/ CheckTip \/ SyncWithValidationInterfaceQueue
           \/ CallerLeaves \/ Interrupt \/ (\E b \in Block : MoveTip(b)) \/ UNCHANGED vars
  BY ZenonT(60), <1>1, <1>7 DEF FlushStateToDisk, CallBlockUntilSynced, CheckTip,
       SyncWithValidationInterfaceQueue, CallerLeaves, Interrupt, MoveTip, vars, index
<1> QED BY ZenonT(60), <1>2, <1>3, <1>4, <1>5, <1>6, <1>7
     DEF Next, ThreadSync, ProcessQueue, BlockUntilSyncedToCurrentChain

\* The index takes a callback of a queue whose first n callbacks lead to t.
LEMMA TakeLeads ==
    ASSUME TypeOK, TurnInv, BlockConnected \/ ChainStateFlushed \/ MarkerRuns, m_synced,
           NEW t, NEW n \in 1 .. Len(queue),
           Chained(queue, t, n), LeadsTo(queue, t, Current, 1, n)
    PROVE  Chained(queue', t, n - 1) /\ LeadsTo(queue', t, Current', 1, n - 1)
<1>1. /\ queue \in Seq(Callback) /\ queue # <<>> /\ queue' = Tail(queue)
      /\ IF Connecting(queue, 1) /\ OnBranch(pprev(queue[1].block), Current)
         THEN Current' = queue[1].block ELSE Current' = Current
  BY ZenonT(60), TakeCurrent
<1>2. /\ Chained(queue', t, n - 1)
      /\ Connecting(queue, 1) => LeadsTo(queue', t, queue[1].block, 1, n - 1)
      /\ \A x : /\ LeadsTo(queue, t, x, 1, n)
                /\ ~(Connecting(queue, 1) /\ OnBranch(pprev(queue[1].block), x))
                => LeadsTo(queue', t, x, 1, n - 1)
  BY ZenonT(60), <1>1, LeadsTail
<1> DEFINE c == Current
           d == Current'
<1>3. LeadsTo(queue, t, c, 1, n)
      /\ IF Connecting(queue, 1) /\ OnBranch(pprev(queue[1].block), c)
         THEN d = queue[1].block ELSE d = c
  BY <1>1
<1> HIDE DEF c, d
<1>4. LeadsTo(queue', t, d, 1, n - 1)
  BY ZenonT(60), <1>2, <1>3
<1> QED BY <1>2, <1>4 DEF d

\* Every step keeps the queued callbacks leading the index to the tip.
LEMMA QueueInvStep ==
    ASSUME TypeOK, TypeOK', TurnInv, QueueBlocks, QueueInv, [Next]_vars
    PROVE  QueueInv'
<1>t. queue \in Seq(Callback) /\ tip \in Block /\ Len(queue) \in Nat /\ Current \in Block
  BY ZenonT(60), LenProperties, CurrentFacts DEF TypeOK
<1>a. \A i \in 1 .. Len(queue) : Connecting(queue, i) => queue[i].block \in Block
  BY <1>t, CallbackBlock, ElementOfSeq DEF Connecting
<1>1. ASSUME NEW b \in Block, MoveTip(b) PROVE QueueInv'
  <2>1. PICK q \in Seq(Callback) : /\ q = queue \/ \E e \in Block : q = Append(queue, Flushed(e))
                                   /\ queue' = q \o Moved(FindFork(tip, b), b)
    BY ZenonT(60), <1>1, MoveQueue
  <2>2. /\ Chained(queue, tip, Len(queue)) => Chained(q, tip, Len(q))
        /\ \A x : LeadsTo(queue, tip, x, 1, Len(queue)) => LeadsTo(q, tip, x, 1, Len(q))
        /\ \A i \in 1 .. Len(q) : Connecting(q, i) => q[i].block \in Block
    <3>1. CASE q = queue
      BY <1>a, <3>1
    <3>2. ASSUME NEW e \in Block, q = Append(queue, Flushed(e)) PROVE <2>2
      <4>1. Flushed(e) \in Callback /\ Flushed(e).kind # "connected"
        BY DEF Flushed, Callback
      <4>2. \A i \in 1 .. Len(q) : Connecting(q, i) => q[i].block \in Block
        BY <1>t, CallbackBlock, ElementOfSeq DEF Connecting
      <4> QED BY ZenonT(60), <1>t, <3>2, <4>1, <4>2, LeadsAppend
    <3> QED BY ZenonT(60), <2>1, <3>1, <3>2
  <2>3. /\ Chained(q, tip, Len(q)) => Chained(queue', b, Len(queue'))
        /\ \A x \in Block : LeadsTo(q, tip, x, 1, Len(q)) => LeadsTo(queue', b, x, 1, Len(queue'))
    BY ZenonT(60), <1>t, <2>1, <2>2, LeadsMove
  <2>4. tip' = b /\ Current' = Current /\ m_synced' = m_synced
    BY ZenonT(60), <1>1 DEF MoveTip, Current, index
  <2> QED BY ZenonT(60), <1>t, <2>2, <2>3, <2>4 DEF QueueInv
<1>2. ASSUME NEW e \in Callback, e.kind # "connected", queue' = Append(queue, e),
             tip' = tip, m_synced' = m_synced, Current' = Current
      PROVE  QueueInv'
  <2>1. /\ Chained(queue, tip, Len(queue)) => Chained(queue', tip, Len(queue'))
        /\ \A x : LeadsTo(queue, tip, x, 1, Len(queue)) => LeadsTo(queue', tip, x, 1, Len(queue'))
    BY ZenonT(60), <1>t, <1>2, LeadsAppend
  <2> QED BY <1>2, <2>1 DEF QueueInv
<1>3. CASE FlushStateToDisk
  <2>1. Flushed(tip) \in Callback /\ Flushed(tip).kind # "connected"
    BY <1>t DEF Flushed, Callback
  <2>2. Current' = Current
    BY <1>3 DEF FlushStateToDisk, Current, index
  <2> QED BY <1>2, <1>3, <2>1, <2>2 DEF FlushStateToDisk, index
<1>4. CASE SyncWithValidationInterfaceQueue
  <2>1. Marker \in Callback /\ Marker.kind # "connected"
    BY DEF Marker, Callback
  <2>2. Current' = Current
    BY <1>4 DEF SyncWithValidationInterfaceQueue, Current, index
  <2> QED BY <1>2, <1>4, <2>1, <2>2 DEF SyncWithValidationInterfaceQueue, index
<1>5. CASE BlockConnected \/ ChainStateFlushed \/ MarkerRuns
  <2>1. /\ queue # <<>> /\ queue' = Tail(queue) /\ Len(queue) \in Nat \ {0}
        /\ m_synced' = m_synced /\ tip' = tip
    BY ZenonT(60), <1>5, TakeCurrent
  <2>2. Len(queue') = Len(queue) - 1 /\ Len(queue) \in 1 .. Len(queue)
    BY <1>t, <2>1, HeadTailProperties
  <2>3. Chained(queue', tip, Len(queue'))
    BY <1>t, <2>1, <2>2, LeadsTail DEF QueueInv
  <2>4. m_synced => LeadsTo(queue', tip, Current', 1, Len(queue'))
    BY <1>5, <2>2, TakeLeads DEF QueueInv
  <2> QED BY <2>1, <2>3, <2>4 DEF QueueInv
<1>6. CASE SyncDone
  <2>1. callback = Idle /\ pindex \in Block /\ FindFork(pindex, tip) = tip
    BY ZenonT(60), <1>6 DEF SyncDone, TurnInv, TypeOK
  <2>2. OnBranch(tip, pindex)
    BY <1>t, <2>1, ForkIsTip
  <2>3. Current' = pindex /\ tip' = tip /\ queue' = queue
    BY <1>6, <2>1 DEF SyncDone, Current, Idle
  <2> QED BY <2>2, <2>3 DEF QueueInv, LeadsTo
<1>7. ASSUME NEW t \in Block, Boot(t) PROVE QueueInv'
  <2>1. tip' = t /\ queue' = <<>> /\ callback' = Idle /\ (m_synced' => m_best_block_index' = t)
    BY ZenonT(60), <1>7 DEF Boot, Start
  <2>2. Current' = m_best_block_index'
    BY <2>1 DEF Current, Idle
  <2>3. m_synced' => OnBranch(tip', Current')
    BY <2>1, <2>2, OnBranchReflexive
  <2>4. Chained(queue', tip', Len(queue'))
    BY <2>1 DEF Chained
  <2> QED BY <2>3, <2>4 DEF QueueInv, LeadsTo
<1>8. ASSUME queue' = queue, tip' = tip, m_synced => Current' = Current, m_synced' = m_synced
      PROVE  QueueInv'
  BY <1>8 DEF QueueInv
<1>9. CASE SyncInterrupted \/ SyncNext \/ SyncLocator \/ SyncWrite \/ SyncFails
  BY ZenonT(60), <1>8, <1>9 DEF SyncInterrupted, SyncNext, SyncLocator, SyncWrite, SyncFails, index, Current
<1>10. CASE BlockConnectedWrites \/ BlockConnectedReturns \/ ChainStateFlushedWrites
  <2>1. queue' = queue /\ tip' = tip /\ m_synced' = m_synced /\ callback # Idle
    BY <1>10 DEF BlockConnectedWrites, BlockConnectedReturns, ChainStateFlushedWrites, index, Idle
  <2>2. Current' = Current
    <3>1. /\ callback \in [kind : {"connected", "written", "flushed"}, block : Block] \cup {Idle}
          /\ Idle.kind = "idle"
      BY ZenonT(60) DEF TypeOK, Idle
    <3>2. CASE BlockConnectedWrites
      BY <3>1, <3>2 DEF BlockConnectedWrites, Current, index
    <3>3. CASE BlockConnectedReturns
      BY <3>1, <3>3 DEF BlockConnectedReturns, Current
    <3>4. CASE ChainStateFlushedWrites
      BY <3>1, <3>4 DEF ChainStateFlushedWrites, Current, index
    <3> QED BY <1>10, <3>2, <3>3, <3>4
  <2> QED BY <1>8, <2>1, <2>2
<1>11. CASE CallBlockUntilSynced \/ CheckTip \/ CallerLeaves \/ Interrupt \/ UNCHANGED vars
  BY ZenonT(60), <1>8, <1>11 DEF CallBlockUntilSynced, CheckTip, CallerLeaves, Interrupt, vars, index, Current
<1>12. CASE Restart \/ Crash
  BY ZenonT(60), <1>7, <1>12 DEF Restart, Crash, TypeOK
<1> QED BY ZenonT(60), <1>1, <1>3, <1>4, <1>5, <1>6, <1>9, <1>10, <1>11, <1>12
     DEF Next, ThreadSync, ProcessQueue, BlockUntilSyncedToCurrentChain

-----------------------------------------------------------------------------
(* The caller.                                                             *)

\* With nothing before it in the queue, what a caller is promised is there.
LEMMA PromisedNow ==
    ASSUME TypeOK, IndexedInv, chain_tip \in Block, callback = Idle,
           Promised(queue, chain_tip, Current, 0)
    PROVE  BranchIndexed(chain_tip)
<1>1. Current = m_best_block_index /\ m_best_block_index \in Block
  BY ZenonT(60), CurrentFacts DEF TypeOK
<1>2. \A h \in 0 .. 0 : h = 0
  OBVIOUS
<1>3. LeadsTo(queue, chain_tip, m_best_block_index, 1, 0)
  BY <1>1, <1>2 DEF Promised
<1>4. OnBranch(chain_tip, m_best_block_index)
  BY <1>3 DEF LeadsTo
<1> QED BY ZenonT(60), <1>1, <1>4, IndexedDown DEF IndexedInv

\* A queue that begins with the same callbacks, and maybe more of them.
LEMMA PromisedKept ==
    ASSUME NEW q, NEW r, NEW t, NEW x, NEW n \in Nat, NEW m \in Nat, n <= m,
           \A i \in 1 .. n : r[i] = q[i], Promised(q, t, x, n)
    PROVE  Promised(r, t, x, m)
<1>1. PICK h \in 0 .. n : Chained(q, t, h) /\ LeadsTo(q, t, x, 1, h)
  BY ZenonT(60) DEF Promised
<1>2. h \in Nat /\ h \in 0 .. m /\ \A i \in 1 .. h : r[i] = q[i]
  OBVIOUS
<1>3. Chained(r, t, h) /\ LeadsTo(r, t, x, 1, h)
  BY <1>1, <1>2, LeadsSame
<1> QED BY <1>2, <1>3 DEF Promised

\* The index takes one of the n callbacks.
LEMMA PromisedTaken ==
    ASSUME TypeOK, TurnInv, IndexedInv, m_synced, chain_tip \in Block,
           BlockConnected \/ ChainStateFlushed \/ MarkerRuns,
           NEW n \in 1 .. Len(queue), Promised(queue, chain_tip, Current, n)
    PROVE  BranchIndexed(chain_tip) \/ Promised(queue', chain_tip, Current', n - 1)
<1>1. callback = Idle /\ Len(queue) \in Nat
  BY ZenonT(60), LenProperties DEF TypeOK, BlockConnected, ChainStateFlushed, MarkerRuns, TakeCallback
<1>2. PICK h \in 0 .. n : Chained(queue, chain_tip, h) /\ LeadsTo(queue, chain_tip, Current, 1, h)
  BY DEF Promised
<1>3. CASE h = 0
  <2>1. Promised(queue, chain_tip, Current, 0)
    BY <1>2, <1>3 DEF Promised
  <2> QED BY <1>1, <2>1, PromisedNow
<1>4. CASE h # 0
  <2>1. h \in 1 .. Len(queue) /\ h - 1 \in 0 .. n - 1
    BY <1>1, <1>4
  <2>2. Chained(queue', chain_tip, h - 1) /\ LeadsTo(queue', chain_tip, Current', 1, h - 1)
    BY <1>2, <2>1, TakeLeads
  <2> QED BY <2>1, <2>2 DEF Promised
<1> QED BY <1>3, <1>4

\* The steps of CallerInv that neither a marker nor the caller itself takes.
LEMMA CallerIndexed ==
    ASSUME TypeOK, TurnInv, [Next]_vars, chain_tip \in Block, chain_tip' = chain_tip,
           BranchIndexed(chain_tip)
    PROVE  CallerInv'
<1>1. BranchIndexed(chain_tip)'
  BY IndexedGrows
<1> QED BY ZenonT(60), <1>1 DEF CallerInv

\* Every step keeps what a caller of BlockUntilSyncedToCurrentChain may rely on.
LEMMA CallerInvStep ==
    ASSUME ~GapFaults, TypeOK, TypeOK', TurnInv, Markers, Markers', IndexedInv, QueueInv, CallerInv,
           [Next]_vars
    PROVE  CallerInv'
<1>t. /\ queue \in Seq(Callback) /\ queue' \in Seq(Callback) /\ tip \in Block
      /\ Len(queue) \in Nat /\ Len(queue') \in Nat
      /\ m_best_block_index \in Block
  BY ZenonT(60), LenProperties DEF TypeOK
<1>n. ASSUME caller' \in {"out", "called"}, \A i \in 1 .. Len(queue') : queue'[i] # Marker
      PROVE  CallerInv'
  BY <1>n DEF CallerInv
<1>w. caller \in {"out", "called", "true"} => \A i \in 1 .. Len(queue) : queue[i] # Marker
  BY DEF Markers
\* Steps that leave the caller alone and only append to the queue.
<1>1. ASSUME UNCHANGED <<caller, chain_tip>>, m_synced => Current' = Current,
             Len(queue) <= Len(queue'), \A i \in 1 .. Len(queue) : queue'[i] = queue[i],
             \A i \in 1 .. Len(queue') : i > Len(queue) => queue'[i] # Marker
      PROVE  CallerInv'
  <2>0. \A i \in 1 .. Len(queue') : queue'[i] = Marker => i \in 1 .. Len(queue) /\ queue[i] = Marker
    BY <1>t, <1>1
  <2>1. CASE caller \in {"out", "called"}
    BY ZenonT(60), <1>1, <1>n, <1>w, <2>0, <2>1
  <2>2. CASE caller \in {"drain", "waiting", "true"}
    <3>1. chain_tip \in Block /\ m_synced
      BY ZenonT(60), <2>2 DEF CallerInv, TurnInv
    <3>2. CASE BranchIndexed(chain_tip)
      BY ZenonT(60), <1>1, <3>1, <3>2, CallerIndexed
    <3>3. CASE ~BranchIndexed(chain_tip)
      <4>1. caller # "true"
        BY <3>3 DEF CallerInv
      <4>2. caller = "drain" => Promised(queue', chain_tip, Current, Len(queue'))
        BY ZenonT(60), <1>t, <1>1, <3>3, PromisedKept DEF CallerInv
      <4>3. ASSUME NEW i \in 1 .. Len(queue'), queue'[i] = Marker
            PROVE  Promised(queue', chain_tip, Current, i - 1)
        <5>1. i \in 1 .. Len(queue) /\ queue[i] = Marker
          BY <2>0, <4>3
        <5>2. Promised(queue, chain_tip, Current, i - 1)
          BY <3>3, <5>1 DEF CallerInv
        <5>3. i - 1 \in Nat /\ \A j \in 1 .. i - 1 : queue'[j] = queue[j]
          BY <1>t, <1>1, <5>1
        <5> QED BY <5>2, <5>3, PromisedKept
      <4> QED BY ZenonT(60), <1>1, <3>1, <4>1, <4>2, <4>3 DEF CallerInv
    <3> QED BY <3>2, <3>3
  <2> QED BY ZenonT(60), <2>1, <2>2 DEF TypeOK
<1>2. ASSUME queue' = queue, UNCHANGED <<caller, chain_tip>>, m_synced => Current' = Current
      PROVE  CallerInv'
  BY <1>t, <1>1, <1>2
<1>3. ASSUME NEW b \in Block, MoveTip(b) PROVE CallerInv'
  <2>1. /\ Len(queue) <= Len(queue')
        /\ \A i \in 1 .. Len(queue) : queue'[i] = queue[i]
        /\ \A i \in 1 .. Len(queue') : i > Len(queue) =>
              queue'[i] # Marker \/ queue'[i].kind = "flushed"
    BY ZenonT(60), <1>3, MoveEntries
  <2>2. \A i \in 1 .. Len(queue') : i > Len(queue) => queue'[i] # Marker
    BY <2>1 DEF Marker
  <2>3. UNCHANGED <<caller, chain_tip>> /\ Current' = Current
    BY ZenonT(60), <1>3 DEF MoveTip, call, index, Current
  <2> QED BY ZenonT(60), <1>1, <2>1, <2>2, <2>3
<1>4. CASE FlushStateToDisk
  <2>1. Flushed(tip) \in Callback /\ Flushed(tip) # Marker
    BY <1>t DEF Flushed, Callback, Marker
  <2>2. UNCHANGED <<caller, chain_tip>> /\ Current' = Current /\ queue' = Append(queue, Flushed(tip))
    BY <1>4 DEF FlushStateToDisk, call, index, Current
  <2>3. /\ Len(queue') = Len(queue) + 1 /\ queue'[Len(queue) + 1] = Flushed(tip)
        /\ \A i \in 1 .. Len(queue) : queue'[i] = queue[i]
    BY <1>t, <2>1, <2>2, AppendProperties
  <2>4. Len(queue) <= Len(queue') /\ \A i \in 1 .. Len(queue') : i > Len(queue) => queue'[i] # Marker
    BY <1>t, <2>1, <2>3
  <2> QED BY ZenonT(60), <1>1, <2>2, <2>3, <2>4
<1>5. CASE SyncWithValidationInterfaceQueue
  <2>1. Marker \in Callback
    BY DEF Callback
  <2>2. /\ caller = "drain" /\ caller' = "waiting" /\ queue' = Append(queue, Marker)
        /\ Current' = Current /\ chain_tip' = chain_tip
    BY <1>5 DEF SyncWithValidationInterfaceQueue, index, Current
  <2>3. /\ Len(queue') = Len(queue) + 1 /\ queue'[Len(queue) + 1] = Marker
        /\ \A i \in 1 .. Len(queue) : queue'[i] = queue[i]
    BY <1>t, <2>1, <2>2, AppendProperties
  <2>4. chain_tip \in Block
    BY <2>2 DEF CallerInv
  <2>5. CASE BranchIndexed(chain_tip)
    BY <2>2, <2>4, <2>5, CallerIndexed
  <2>6. CASE Promised(queue, chain_tip, Current, Len(queue))
    <3>1. Promised(queue', chain_tip, Current, Len(queue))
      BY <1>t, <2>3, <2>6, PromisedKept
    <3>2. ASSUME NEW i \in 1 .. Len(queue'), queue'[i] = Marker
          PROVE  Promised(queue', chain_tip, Current, i - 1)
      <4>1. i = Len(queue) + 1
        BY <1>t, <1>w, <2>2, <2>3, <3>2 DEF Markers
      <4>2. i - 1 = Len(queue)
        BY <1>t, <4>1
      <4> QED BY <3>1, <4>2
    <3> QED BY ZenonT(60), <2>2, <2>4, <3>2 DEF CallerInv
  <2> QED BY ZenonT(60), <2>2, <2>5, <2>6 DEF CallerInv
<1>6. ASSUME BlockConnected \/ ChainStateFlushed \/ MarkerRuns
      PROVE  /\ callback = Idle /\ queue # <<>> /\ queue' = Tail(queue)
             /\ Len(queue) >= 1 /\ Head(queue) = queue[1] /\ Len(queue') = Len(queue) - 1
             /\ \A i \in 1 .. Len(queue') : queue'[i] = queue[i + 1]
             /\ chain_tip' = chain_tip
  <2>1. callback = Idle /\ queue # <<>> /\ queue' = Tail(queue) /\ chain_tip' = chain_tip
    BY ZenonT(60), <1>6 DEF BlockConnected, ChainStateFlushed, MarkerRuns, TakeCallback, call
  <2> QED BY <1>t, <2>1, HeadTailProperties, EmptySeq
<1>7. CASE MarkerRuns
  <2>1. queue[1] = Marker /\ 1 \in 1 .. Len(queue) /\ 1 - 1 = 0
    BY <1>t, <1>6, <1>7 DEF MarkerRuns
  <2>2. caller = "waiting"
    BY <2>1 DEF Markers
  <2>3. chain_tip \in Block
    BY <2>2 DEF CallerInv
  <2>4. BranchIndexed(chain_tip) \/ Promised(queue, chain_tip, Current, 0)
    BY <2>1 DEF CallerInv
  <2>5. BranchIndexed(chain_tip)
    BY <1>6, <1>7, <2>3, <2>4, PromisedNow
  <2> QED BY <1>6, <1>7, <2>3, <2>5, CallerIndexed
<1>8. CASE BlockConnected \/ ChainStateFlushed
  <2>0. \A i \in 1 .. Len(queue') : queue'[i] = Marker => i + 1 \in 1 .. Len(queue) /\ queue[i + 1] = Marker
    BY <1>t, <1>6, <1>8
  <2>1. caller' = caller /\ chain_tip' = chain_tip
    BY <1>8 DEF BlockConnected, ChainStateFlushed, call
  <2>2. CASE caller \in {"out", "called"}
    BY ZenonT(60), <1>n, <1>w, <2>0, <2>1, <2>2
  <2>3. CASE caller \in {"drain", "waiting", "true"}
    <3>1. chain_tip \in Block /\ m_synced
      BY <2>3 DEF CallerInv, TurnInv
    <3>2. CASE BranchIndexed(chain_tip)
      BY <2>1, <3>1, <3>2, CallerIndexed
    <3>3. CASE ~BranchIndexed(chain_tip)
      <4>1. caller # "true"
        BY <3>3 DEF CallerInv
      <4>2. \A n \in 1 .. Len(queue) :
              Promised(queue, chain_tip, Current, n) => Promised(queue', chain_tip, Current', n - 1)
        BY <1>8, <3>1, <3>3, PromisedTaken
      <4>3. caller = "drain" => Promised(queue', chain_tip, Current', Len(queue'))
        <5>1. caller = "drain" => Promised(queue, chain_tip, Current, Len(queue))
          BY ZenonT(60), <3>3 DEF CallerInv
        <5>2. Len(queue) \in 1 .. Len(queue) /\ Len(queue') = Len(queue) - 1
          BY <1>t, <1>6, <1>8
        <5> QED BY <4>2, <5>1, <5>2
      <4>4. ASSUME NEW i \in 1 .. Len(queue'), queue'[i] = Marker
            PROVE  Promised(queue', chain_tip, Current', i - 1)
        <5>1. i + 1 \in 1 .. Len(queue) /\ queue[i + 1] = Marker /\ (i + 1) - 1 = i
          BY <2>0, <4>4
        <5>2. Promised(queue, chain_tip, Current, i)
          BY <3>3, <5>1 DEF CallerInv
        <5>3. i \in 1 .. Len(queue)
          BY <1>t, <5>1
        <5> QED BY <4>2, <5>2, <5>3
      <4> QED BY ZenonT(60), <2>1, <3>1, <4>1, <4>3, <4>4 DEF CallerInv
    <3> QED BY <3>2, <3>3
  <2> QED BY <2>2, <2>3 DEF TypeOK
<1>9. CASE CheckTip
  <2>1. /\ caller = "called" /\ chain_tip' = tip /\ m_synced
        /\ caller' = IF CaughtUp THEN "true" ELSE "drain"
        /\ UNCHANGED <<queue, callback, m_best_block_index, txpos>>
    BY ZenonT(60), <1>9 DEF CheckTip, TurnInv, disk, index
  <2>2. \A i \in 1 .. Len(queue') : queue'[i] # Marker
    BY <1>w, <2>1
  <2>3. caller' = "true" => BranchIndexed(chain_tip)'
    <3>1. CaughtUp => BranchIndexed(tip)
      BY ZenonT(60), <1>t, IndexedDown DEF CaughtUp, IndexedInv
    <3>2. BranchIndexed(tip) => BranchIndexed(chain_tip)'
      BY ZenonT(60), <2>1 DEF BranchIndexed, Indexed
    <3> QED BY <2>1, <3>1, <3>2
  <2>4. Promised(queue', chain_tip', Current', Len(queue'))
    <3>1. Chained(queue', chain_tip', Len(queue')) /\ LeadsTo(queue', chain_tip', Current', 1, Len(queue'))
      BY <2>1 DEF QueueInv, Current
    <3>2. Len(queue') \in 0 .. Len(queue')
      BY <1>t
    <3> QED BY ZenonT(60), <3>1, <3>2 DEF Promised
  <2> QED BY ZenonT(60), <1>t, <2>1, <2>2, <2>3, <2>4 DEF CallerInv
<1>10. CASE CallBlockUntilSynced \/ CallerLeaves
  <2>1. caller \in {"out", "true"} /\ caller' \in {"called", "out"} /\ queue' = queue
    BY ZenonT(60), <1>10 DEF CallBlockUntilSynced, CallerLeaves
  <2> QED BY <1>n, <1>w, <2>1
<1>11. ASSUME NEW t, Boot(t) PROVE CallerInv'
  BY <1>11, <1>n DEF Boot
<1>12. CASE SyncInterrupted \/ SyncNext \/ SyncLocator \/ SyncWrite \/ SyncFails \/ Interrupt \/ UNCHANGED vars
  BY ZenonT(60), <1>2, <1>12 DEF SyncInterrupted, SyncNext, SyncLocator, SyncWrite, SyncFails,
       Interrupt, vars, index, call, Current
<1>13. CASE SyncDone
  <2>1. queue' = queue /\ UNCHANGED <<caller, chain_tip>> /\ ~m_synced
    BY ZenonT(60), <1>13 DEF SyncDone, call, TurnInv
  <2> QED BY <1>2, <2>1
<1>14. CASE BlockConnectedWrites \/ BlockConnectedReturns \/ ChainStateFlushedWrites
  <2>1. queue' = queue /\ UNCHANGED <<caller, chain_tip>> /\ callback # Idle
    BY <1>14 DEF BlockConnectedWrites, BlockConnectedReturns, ChainStateFlushedWrites, call, Idle
  <2>2. ~BlockConnected /\ ~ChainStateFlushed /\ ~MarkerRuns
    BY <2>1 DEF BlockConnected, ChainStateFlushed, MarkerRuns, TakeCallback
  <2>3. CASE \E t \in Block : Boot(t)
    BY <1>11, <2>3
  <2> QED BY <1>2, <2>1, <2>2, <2>3, CurrentStep
<1> QED BY ZenonT(60), <1>3, <1>4, <1>5, <1>7, <1>8, <1>9, <1>10, <1>11, <1>12, <1>13, <1>14
     DEF Next, ThreadSync, ProcessQueue, BlockUntilSyncedToCurrentChain, Restart, Crash

-----------------------------------------------------------------------------
(* The positions.                                                          *)

\* When the positions of b's branch are right, so are those of an ancestor's branch.
LEMMA PositionsDown ==
    ASSUME NEW a \in Block, NEW b \in Block, OnBranch(a, b), BranchPositions(b)
    PROVE  BranchPositions(a)
<1>1. \A c \in Branch(a) : c \in Branch(b)
  BY OnBranchTransitive DEF Branch
<1> QED BY ZenonT(60), <1>1 DEF BranchPositions

\* The genesis block has no ancestors, and is not written itself.
LEMMA PositionsGenesis == BranchPositions(Genesis)
<1>1. \A c \in Branch(Genesis) : c = Genesis
  <2> TAKE c \in Branch(Genesis)
  <2>1. c \in Block /\ OnBranch(c, Genesis) /\ Genesis \in Block
    BY BlockTreeAssumption DEF Branch
  <2>2. nHeight(c) = 0
    BY <2>1, Heights DEF OnBranch, nHeight
  <2> QED BY <2>1, <2>2, Heights
<1> QED BY <1>1 DEF BranchPositions

\* WriteBlock overwrites no position of the branch that its block continues.
LEMMA WritePositions ==
    ASSUME TransactionsOnce, TypeOK, NEW b \in Block, b # Genesis, WriteBlock(b),
           BranchPositions(pprev(b))
    PROVE  BranchPositions(b)'
<1>1. txpos' = [t \in Tx |-> IF t \in vtx[b] THEN b ELSE txpos[t]]
  BY DEF WriteBlock
<1>2. SUFFICES ASSUME NEW a \in Branch(b) \ {Genesis}, NEW t \in vtx[a] PROVE txpos'[t] = a
  BY ZenonT(60) DEF BranchPositions
<1>3. a \in Block /\ OnBranch(a, b) /\ t \in Tx
  BY DEF Branch
<1>4. CASE a = b
  BY <1>1, <1>3, <1>4
<1>5. CASE a # b
  <2>1. t \notin vtx[b]
    BY <1>5 DEF TransactionsOnce
  <2>2. a \in Branch(pprev(b)) \ {Genesis}
    BY <1>3, <1>5, Parent DEF Branch
  <2>3. txpos[t] = a
    BY <2>2 DEF BranchPositions
  <2> QED BY <1>1, <1>3, <2>1, <2>3
<1> QED BY <1>4, <1>5

\* Every step before the first restart keeps the positions those of the branch written last.
LEMMA PositionsStep ==
    ASSUME TransactionsOnce, TypeOK, TurnInv, PositionsInv, [Next]_vars
    PROVE  PositionsInv'
<1>t. /\ tip \in Block /\ m_best_block_index \in Block /\ pindex \in Block
      /\ callback \in [kind : {"connected", "written", "flushed"}, block : Block] \cup {Idle}
      /\ Idle.kind = "idle"
  BY ZenonT(60) DEF TypeOK, Idle
<1>b. callback.kind \in {"connected", "written", "flushed"} => callback.block \in Block
  BY <1>t
<1>s. ASSUME UNCHANGED <<txpos, m_best_block_index, m_synced, sync, pindex, callback, restarts>>
      PROVE  PositionsInv'
  BY ZenonT(60), <1>s DEF PositionsInv, BranchPositions
\* Steps that change neither the positions nor the thread, and write nothing.
<1>c. ASSUME UNCHANGED <<txpos, m_best_block_index, m_synced, sync, pindex, restarts>>,
             callback.kind # "written", callback'.kind # "written"
      PROVE  PositionsInv'
  BY ZenonT(60), <1>c DEF PositionsInv, BranchPositions
<1>1. CASE SyncInterrupted
  <2>1. /\ UNCHANGED <<txpos, m_best_block_index, m_synced, callback, restarts>> /\ sync' = "done"
    BY <1>1 DEF SyncInterrupted, index, count
  <2> QED BY ZenonT(60), <2>1 DEF PositionsInv, BranchPositions
<1>2. CASE SyncNext
  <2>1. FindFork(pindex, tip) # tip /\ pindex' = GetAncestor(tip, nHeight(FindFork(pindex, tip)) + 1)
    BY <1>2 DEF SyncNext
  <2>2. pprev(pindex') = FindFork(pindex, tip)
    BY ZenonT(60), <1>t, <2>1, NextAboveFork
  <2>3. restarts = 0 => BranchPositions(FindFork(pindex, tip))
    BY ZenonT(60), <1>t, <1>2, Fork, PositionsDown DEF SyncNext, PositionsInv
  <2>4. UNCHANGED <<txpos, m_best_block_index, m_synced, callback, restarts>> /\ sync' = "picked"
    BY <1>2 DEF SyncNext, disk, index, count
  <2>5. restarts' = 0 => BranchPositions(pprev(pindex))'
    BY ZenonT(60), <2>2, <2>3, <2>4 DEF BranchPositions
  <2>6. sync = "loop" /\ ~m_synced
    BY ZenonT(60), <1>2 DEF SyncNext, TurnInv
  <2> QED BY <2>4, <2>5, <2>6 DEF PositionsInv
<1>3. CASE SyncLocator
  <2>1. /\ UNCHANGED <<txpos, m_best_block_index, m_synced, callback, pindex, restarts>>
        /\ sync = "picked" /\ sync' = "located"
    BY <1>3 DEF SyncLocator, index, count
  <2> QED BY ZenonT(60), <2>1 DEF PositionsInv, BranchPositions
<1>4. CASE SyncWrite
  <2>1. /\ UNCHANGED <<m_synced, pindex, restarts>> /\ ~m_synced /\ sync' = "loop"
        /\ sync \in {"picked", "located"} /\ pindex # Genesis /\ WriteBlock(pindex)
    BY ZenonT(60), <1>4 DEF SyncWrite, index, count, TurnInv
  <2>2. restarts = 0 => BranchPositions(pindex)'
    <3>1. PICK c \in Block : c = pindex
      BY <1>t
    <3>2. restarts = 0 => BranchPositions(c)'
      BY <2>1, <3>1, WritePositions DEF PositionsInv
    <3> QED BY <2>1, <3>1, <3>2
  <2> QED BY ZenonT(60), <2>1, <2>2 DEF PositionsInv
<1>5. CASE SyncDone
  <2>1. /\ UNCHANGED <<txpos, callback, restarts>> /\ sync = "loop" /\ sync' = "done"
        /\ m_best_block_index' = pindex /\ callback = Idle
    BY ZenonT(60), <1>5 DEF SyncDone, count, TurnInv
  <2>2. restarts' = 0 => BranchPositions(m_best_block_index)'
    BY ZenonT(60), <2>1 DEF PositionsInv, BranchPositions
  <2>3. callback'.kind = "idle"
    BY <1>t, <2>1
  <2> QED BY <2>1, <2>2, <2>3 DEF PositionsInv
<1>6. CASE SyncFails
  <2>1. /\ UNCHANGED <<txpos, m_best_block_index, m_synced, callback, restarts>> /\ sync' = "done"
    BY <1>6 DEF SyncFails, disk, index, count
  <2> QED BY ZenonT(60), <2>1 DEF PositionsInv, BranchPositions
<1>7. CASE BlockConnected \/ ChainStateFlushed
  <2>1. /\ UNCHANGED <<txpos, m_best_block_index, m_synced, sync, pindex, restarts>>
        /\ callback = Idle
    BY ZenonT(60), <1>7 DEF BlockConnected, ChainStateFlushed, TakeCallback, disk, index, thread, count
  <2>2. callback.kind # "written" /\ callback'.kind # "written"
    BY ZenonT(60), <1>t, <1>7, <2>1 DEF BlockConnected, ChainStateFlushed
  <2> QED BY <1>c, <2>1, <2>2
<1>8. CASE BlockConnectedWrites
  <2>1. /\ callback.kind = "connected" /\ callback'.kind = "written" /\ callback'.block = callback.block
        /\ WriteBlock(callback.block) /\ UNCHANGED <<m_synced, restarts, sync>>
    BY <1>t, <1>8 DEF BlockConnectedWrites, index, thread, count
  <2>2. /\ callback.block \in Block /\ callback.block # Genesis /\ m_synced /\ sync = "done"
        /\ OnBranch(pprev(callback.block), m_best_block_index)
    BY ZenonT(60), <1>t, <1>b, <2>1 DEF TurnInv
  <2>3. PICK c \in Block : c = callback.block
    BY <2>2
  <2>4. restarts = 0 => BranchPositions(pprev(c))
    BY ZenonT(60), <1>t, <2>1, <2>2, <2>3, Parent, PositionsDown DEF PositionsInv
  <2>5. restarts = 0 => BranchPositions(c)'
    BY ZenonT(60), <2>1, <2>2, <2>3, <2>4, WritePositions
  <2> QED BY ZenonT(60), <2>1, <2>2, <2>3, <2>5 DEF PositionsInv
<1>9. CASE BlockConnectedReturns
  <2>1. /\ callback.kind = "written" /\ callback' = Idle /\ m_best_block_index' = callback.block
        /\ UNCHANGED <<txpos, m_synced, restarts, sync>>
    BY <1>9 DEF BlockConnectedReturns, disk, thread, count
  <2>2. m_synced /\ sync = "done"
    BY ZenonT(60), <1>t, <2>1 DEF TurnInv
  <2>3. restarts' = 0 => BranchPositions(m_best_block_index)'
    BY ZenonT(60), <2>1, <2>2 DEF PositionsInv, BranchPositions
  <2>4. callback'.kind = "idle"
    BY <1>t, <2>1
  <2> QED BY ZenonT(60), <2>1, <2>2, <2>3, <2>4 DEF PositionsInv
<1>10. CASE ChainStateFlushedWrites
  <2>1. /\ UNCHANGED <<txpos, m_best_block_index, m_synced, sync, pindex, restarts>>
        /\ callback.kind = "flushed" /\ callback' = Idle
    BY <1>10 DEF ChainStateFlushedWrites, index, thread, count
  <2>2. callback.kind # "written" /\ callback'.kind # "written"
    BY <1>t, <2>1
  <2> QED BY <1>c, <2>1, <2>2
<1>11. CASE MarkerRuns \/ CheckTip \/ SyncWithValidationInterfaceQueue \/ CallerLeaves
            \/ CallBlockUntilSynced \/ FlushStateToDisk \/ Interrupt \/ UNCHANGED vars
  BY ZenonT(60), <1>s, <1>11 DEF MarkerRuns, CheckTip, SyncWithValidationInterfaceQueue, CallerLeaves,
       CallBlockUntilSynced, FlushStateToDisk, Interrupt, vars, disk, index, thread, count
<1>12. ASSUME NEW b \in Block, MoveTip(b) PROVE PositionsInv'
  BY ZenonT(60), <1>s, <1>12 DEF MoveTip, index, thread
<1>13. ASSUME NEW t, Boot(t) PROVE PositionsInv'
  <2>1. restarts \in Nat /\ restarts' = restarts + 1
    BY <1>13 DEF Boot, TypeOK
  <2>2. restarts' # 0
    BY <2>1
  <2> QED BY ZenonT(60), <2>2 DEF PositionsInv
<1> QED BY ZenonT(60), <1>1, <1>2, <1>3, <1>4, <1>5, <1>6, <1>7, <1>8, <1>9, <1>10, <1>11, <1>12, <1>13
     DEF Next, ThreadSync, ProcessQueue, BlockUntilSyncedToCurrentChain, Restart, Crash

-----------------------------------------------------------------------------
(* The theorems.                                                           *)

\* What holds even if faults come between a locator and its block.
OrderInv == TypeOK /\ QueueBlocks /\ Markers /\ TurnInv /\ QueueInv

\* The whole inductive invariant.
IndexInv == OrderInv /\ IndexedInv /\ CallerInv

\* The initial states satisfy the invariant of the queue's order.
LEMMA InitOrder == Init => OrderInv
<1> SUFFICES ASSUME Init PROVE OrderInv
  OBVIOUS
<1>1. TypeOK
  BY InitType
<1>2. queue = <<>> /\ Len(queue) = 0 /\ \A i \in 1 .. Len(queue) : FALSE
  BY DEF Init
<1>3. QueueBlocks /\ Markers /\ Chained(queue, tip, Len(queue))
  BY <1>2 DEF QueueBlocks, Markers, Chained
<1>4. TurnInv
  <2>1. sync # "done" => ~m_synced
    BY ZenonT(60) DEF Init
  <2>2. callback = Idle /\ callback.kind = "idle" /\ caller = "out" /\ sync \in {"done", "loop"}
    BY ZenonT(60) DEF Init, Idle
  <2> QED BY ZenonT(60), <2>1, <2>2 DEF TurnInv
<1>5. m_synced => OnBranch(tip, Current)
  <2>1. tip \in Block /\ (m_synced => tip = m_best_block_index) /\ callback = Idle
    BY ZenonT(60) DEF Init
  <2> QED BY <1>1, <2>1, CurrentFacts, OnBranchReflexive
<1>6. QueueInv
  BY <1>3, <1>5 DEF QueueInv, LeadsTo
<1> QED BY <1>1, <1>3, <1>4, <1>6 DEF OrderInv

\* Every step keeps the invariant of the queue's order, faults included.
LEMMA OrderStep ==
    ASSUME OrderInv, [Next]_vars
    PROVE  OrderInv'
<1>1. TypeOK'
  BY TypeStep DEF OrderInv
<1> QED BY <1>1, QueueBlocksStep, MarkersStep, TurnStep, QueueInvStep DEF OrderInv

\* The initial states satisfy the invariant of the index.
LEMMA InitIndex == Init => IndexInv
<1> SUFFICES ASSUME Init PROVE IndexInv
  OBVIOUS
<1>1. OrderInv
  BY InitOrder
<1>2. /\ m_best_block_index = Genesis /\ pindex = Genesis /\ sync \in {"done", "loop"}
      /\ callback.kind = "idle" /\ locator = NoBlock
  BY ZenonT(60) DEF Init, Idle
<1>3. IndexedInv
  BY <1>2, IndexedGenesis DEF IndexedInv, LocatorBehind
<1>4. caller = "out" /\ \A i \in 1 .. Len(queue) : FALSE
  BY DEF Init
<1>5. CallerInv
  BY <1>4 DEF CallerInv
<1> QED BY <1>1, <1>3, <1>5 DEF IndexInv

\* Every step keeps the invariant of the index when no fault comes between a locator and its block.
LEMMA IndexStep ==
    ASSUME ~GapFaults, IndexInv, [Next]_vars
    PROVE  IndexInv'
<1>1. OrderInv'
  BY OrderStep DEF IndexInv
<1>2. IndexedInv'
  BY IndexedStep DEF IndexInv, OrderInv
<1>3. CallerInv'
  BY <1>1, CallerInvStep DEF IndexInv, OrderInv
<1> QED BY <1>1, <1>2, <1>3 DEF IndexInv

\* A drained queue has led the index to the tip.
LEMMA DrainedAtTip ==
    ASSUME OrderInv, Drained
    PROVE  OnBranch(tip, m_best_block_index)
<1>1. Current = m_best_block_index /\ \A j \in 1 .. Len(queue) : FALSE
  BY CurrentFacts DEF OrderInv, Drained
<1> QED BY <1>1 DEF OrderInv, QueueInv, LeadsTo, Drained

\* The index, the queue and the callers keep their types: m_best_block_index is
\* always a block of the tree, and Tail is taken of no empty queue.
THEOREM TypeCorrect == Spec => []TypeOK
<1>1. TypeOK /\ [Next]_vars => TypeOK'
  BY TypeStep
<1> QED BY <1>1, InitType, PTL DEF Spec

\* OrderInv holds in every reachable state, with or without faults.
THEOREM OrderHolds == Spec => []OrderInv
<1>1. OrderInv /\ [Next]_vars => OrderInv'
  BY OrderStep
<1> QED BY <1>1, InitOrder, PTL DEF Spec

\* Whatever the chain did while the callbacks waited, and whichever of them the
\* index skipped, once they are drained its best block has the tip on its branch
\* (BlockConnected's look at the ancestors), also after a fault in ThreadSync.
THEOREM DrainedHasTip == Spec => [](Drained => OnBranch(tip, m_best_block_index))
<1>1. OrderInv => (Drained => OnBranch(tip, m_best_block_index))
  BY DrainedAtTip
<1> QED BY <1>1, OrderHolds, PTL

\* IndexInv holds in every reachable state when no fault leaves a gap.
THEOREM IndexHolds ==
    ASSUME ~GapFaults
    PROVE  Spec => []IndexInv
<1>1. IndexInv /\ [Next]_vars => IndexInv'
  BY IndexStep
<1> QED BY <1>1, InitIndex, PTL DEF Spec

\* An index that says it is in sync and has no callback left finds every
\* transaction of the active chain (m_synced, index/base.h).
THEOREM IndexInSync ==
    ASSUME ~GapFaults
    PROVE  Spec => []InSync
<1>1. IndexInv => InSync
  <2> SUFFICES ASSUME IndexInv, Drained PROVE OnBranch(tip, m_best_block_index) /\ BranchIndexed(tip)
    BY DEF InSync
  <2>1. OnBranch(tip, m_best_block_index)
    BY DrainedAtTip DEF IndexInv
  <2>2. tip \in Block /\ m_best_block_index \in Block /\ BranchIndexed(m_best_block_index)
    BY ZenonT(60) DEF IndexInv, OrderInv, IndexedInv, TypeOK
  <2> QED BY <2>1, <2>2, IndexedDown
<1> QED BY <1>1, IndexHolds, PTL

\* The next start resumes from a block whose branch is indexed, after a shutdown
\* and after a crash (WriteBestBlock in ThreadSync and in ChainStateFlushed).
THEOREM LocatorIsBehind ==
    ASSUME ~GapFaults
    PROVE  Spec => []LocatorBehind
<1>1. IndexInv => LocatorBehind
  BY DEF IndexInv, IndexedInv
<1> QED BY <1>1, IndexHolds, PTL

\* A caller that was told the index is up to date finds the chain that it asked
\* about, however the chain moved while it waited (BlockUntilSyncedToCurrentChain).
THEOREM CallerIsServed ==
    ASSUME ~GapFaults
    PROVE  Spec => []CallerServed
<1>1. IndexInv => CallerServed
  BY DEF IndexInv, CallerInv, CallerServed
<1> QED BY <1>1, IndexHolds, PTL

\* While a process runs, reorganisations and all, a drained index gives for every
\* transaction of the active chain the block of that chain (WriteBlock), when no
\* transaction is twice on a branch.
THEOREM PositionsAreOfTip ==
    ASSUME TransactionsOnce
    PROVE  Spec => []PositionsOfTip
<1> DEFINE Inv == OrderInv /\ PositionsInv
<1>1. Init => Inv
  <2> SUFFICES ASSUME Init PROVE PositionsInv
    BY InitOrder
  <2>1. m_best_block_index = Genesis /\ pindex = Genesis /\ sync \in {"done", "loop"} /\ callback.kind = "idle"
    BY ZenonT(60) DEF Init, Idle
  <2> QED BY <2>1, PositionsGenesis DEF PositionsInv
<1>2. Inv /\ [Next]_vars => Inv'
  BY OrderStep, PositionsStep DEF OrderInv
<1>3. Inv => PositionsOfTip
  <2> SUFFICES ASSUME OrderInv, PositionsInv, Drained, restarts = 0
               PROVE  \A b \in Branch(tip) \ {Genesis} : \A t \in vtx[b] : txpos[t] = b
    BY DEF PositionsOfTip
  <2>1. OnBranch(tip, m_best_block_index)
    BY DrainedAtTip
  <2>2. tip \in Block /\ m_best_block_index \in Block /\ callback.kind # "written" /\ m_synced
    BY ZenonT(60) DEF OrderInv, TypeOK, Drained, Idle
  <2>3. BranchPositions(m_best_block_index)
    BY <2>2 DEF PositionsInv
  <2>4. BranchPositions(tip)
    BY <2>1, <2>2, <2>3, PositionsDown
  <2> QED BY <2>4 DEF BranchPositions
<1> HIDE DEF Inv
<1> QED BY <1>1, <1>2, <1>3, PTL DEF Spec

=============================================================================
