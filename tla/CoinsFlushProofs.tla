--------------------------- MODULE CoinsFlushProofs ---------------------------
(***************************************************************************)
(* Proofs about module CoinsFlush, for every block tree, every contents of *)
(* the blocks that spends only coins that are there, and any number of     *)
(* crashes.                                                                *)
(*                                                                         *)
(* The argument looks at one outpoint at a time.  Whether a block writes   *)
(* to it does not depend on the coins the block is applied to, and what it *)
(* leaves there does not either: applying the block gives the coin as of   *)
(* the block, undoing it the coin as of its parent.  So a database whose   *)
(* coins are each that of the old or of the new tip is replayed to the     *)
(* coins of the new tip, and that every interrupted flush leaves such a    *)
(* database is an invariant.                                               *)
(*                                                                         *)
(* The loops are recursive functions over an interval.  That they satisfy  *)
(* their equations is LoopUp and LoopDown, by the least bad index; what    *)
(* they compute is shown in the same way, outpoint by outpoint.            *)
(***************************************************************************)
EXTENDS CoinsFlush, BlockTreeTheorems

Coins == [Outpoint -> Nat]

\* The blocks of b's branch are in have, and their undo data, save that of the
\* genesis block, is in undo.
Stored(b, have, undo) == Branch(b) \subseteq have /\ Branch(b) \ {Genesis} \subseteq undo

\* The database is that of its best block, or a mixture of those of the two
\* blocks it was on its way between; the block index has what leads to them.
Database ==
    IF heads = <<>>
    THEN coins = CoinsAt(best) /\ (best # NoBlock => Stored(best, saved, savedUndo))
    ELSE /\ best = NoBlock
         /\ \A o \in Outpoint : coins[o] \in {CoinsAt(heads[1])[o], CoinsAt(heads[2])[o]}
         /\ \A i \in 1 .. 2 : heads[i] # NoBlock => Stored(heads[i], saved, savedUndo)

\* The memory is that of the tip, and holds what the block index database has.
Memory ==
    mode \in {"run", "flush", "replay"} =>
        /\ chain = CoinsAt(hashBlock)
        /\ hashBlock # NoBlock => Stored(hashBlock, known, knownUndo)
        /\ saved \subseteq known /\ savedUndo \subseteq knownUndo /\ Genesis \in known

\* Where the process is.  The coins are written after the block index.
Phases ==
    /\ mode # "failed"
    /\ mode = "run" => heads = <<>>
    /\ mode = "flush" => saved = known /\ savedUndo = knownUndo
    /\ mode = "replay" => heads # <<>>
    /\ writing => hashBlock # NoBlock /\ Stored(hashBlock, saved, savedUndo)
    /\ writing /\ heads # <<>> => heads[1] = hashBlock

\* The inductive invariant.
IInv ==
    /\ TypeOK /\ Genesis \notin savedUndo \cup knownUndo
    /\ Database /\ Memory /\ Phases

-----------------------------------------------------------------------------
(* Loops.                                                                  *)

\* Induction over an interval, upwards and downwards, for a set T of indices.
LEMMA UpInduction ==
    ASSUME NEW lo \in Int, NEW hi \in Int, NEW T, lo \in T,
           \A i \in lo + 1 .. hi : i - 1 \in T => i \in T
    PROVE  \A i \in lo .. hi : i \in T
<1> DEFINE Bad == {n \in Nat : lo + n <= hi /\ lo + n \notin T}
<1>1. ASSUME Bad # {} PROVE FALSE
  <2>1. PICK m \in Bad : \A n \in Bad : m <= n
    BY <1>1, LeastNatural
  <2>2. m \in Nat /\ lo + m <= hi /\ lo + m \notin T /\ m # 0
    OBVIOUS
  <2>3. m - 1 \in Nat /\ lo + (m - 1) <= hi /\ m - 1 \notin Bad
    BY <2>1, <2>2
  <2>4. lo + (m - 1) \in T /\ lo + (m - 1) = (lo + m) - 1 /\ lo + m \in lo + 1 .. hi
    BY <2>2, <2>3
  <2> QED BY <2>2, <2>4
<1>2. ASSUME NEW i \in lo .. hi PROVE i \in T
  <2>1. i - lo \in Nat /\ lo + (i - lo) = i /\ i <= hi
    OBVIOUS
  <2>2. i - lo \notin Bad
    BY <1>1
  <2> QED BY <2>1, <2>2
<1> QED BY <1>2

\* The same downwards.
LEMMA DownInduction ==
    ASSUME NEW lo \in Int, NEW hi \in Int, NEW T, hi \in T,
           \A i \in lo .. hi - 1 : i + 1 \in T => i \in T
    PROVE  \A i \in lo .. hi : i \in T
<1> DEFINE Bad == {n \in Nat : lo <= hi - n /\ hi - n \notin T}
<1>1. ASSUME Bad # {} PROVE FALSE
  <2>1. PICK m \in Bad : \A n \in Bad : m <= n
    BY <1>1, LeastNatural
  <2>2. m \in Nat /\ lo <= hi - m /\ hi - m \notin T /\ m # 0
    OBVIOUS
  <2>3. m - 1 \in Nat /\ lo <= hi - (m - 1) /\ m - 1 \notin Bad
    BY <2>1, <2>2
  <2>4. hi - (m - 1) \in T /\ hi - (m - 1) = (hi - m) + 1 /\ hi - m \in lo .. hi - 1
    BY <2>2, <2>3
  <2> QED BY <2>2, <2>4
<1>2. ASSUME NEW i \in lo .. hi PROVE i \in T
  <2>1. hi - i \in Nat /\ hi - (hi - i) = i /\ lo <= i
    OBVIOUS
  <2>2. hi - i \notin Bad
    BY <1>1
  <2> QED BY <2>1, <2>2
<1> QED BY <1>2

\* step[i] takes members of S to members of S, for the indices i of D.
Steps(step, D, S) == \A i \in D : \A x \in S : step[i][x] \in S

\* f holds the values of a loop that counts from lo up to hi, or down to it.
LoopsUp(f, S, lo, hi, base, step) ==
    /\ f \in [lo .. hi -> S] /\ f[lo] = base
    /\ \A i \in lo + 1 .. hi : f[i] = step[i][f[i - 1]]

LoopsDown(f, S, lo, hi, base, step) ==
    /\ f \in [lo .. hi -> S] /\ f[hi] = base
    /\ \A i \in lo .. hi - 1 : f[i] = step[i][f[i + 1]]

\* Every loop that counts upwards has such a function.
LEMMA LoopUp ==
    ASSUME NEW S, NEW lo \in Int, NEW hi \in Int, lo <= hi, NEW base \in S,
           NEW step, Steps(step, lo + 1 .. hi, S)
    PROVE  \E f : LoopsUp(f, S, lo, hi, base, step)
<1> USE DEF Steps
<1> DEFINE Good(n) == \E f \in [lo .. lo + n -> S] :
                         f[lo] = base /\ \A i \in lo + 1 .. lo + n : f[i] = step[i][f[i - 1]]
           Bad == {n \in 0 .. hi - lo : ~Good(n)}
<1> HIDE DEF Good
<1>0. /\ Bad \subseteq Nat
      /\ \A n \in Bad : n \in 0 .. hi - lo /\ ~Good(n)
      /\ \A n \in 0 .. hi - lo : n \notin Bad => Good(n)
  OBVIOUS
<1> HIDE DEF Bad
<1>1. ASSUME Bad # {} PROVE FALSE
  <2>1. PICK m \in Bad : \A n \in Bad : m <= n
    BY <1>0, <1>1, LeastNatural
  <2>2. Good(0)
    <3>1. [i \in lo .. lo + 0 |-> base] \in [lo .. lo + 0 -> S]
      OBVIOUS
    <3>2. [i \in lo .. lo + 0 |-> base][lo] = base /\ lo + 1 .. lo + 0 = {}
      OBVIOUS
    <3> QED BY <3>1, <3>2 DEF Good
  <2>3. m \in 1 .. hi - lo /\ ~Good(m)
    BY <1>0, <2>1, <2>2
  <2>4. m - 1 \in 0 .. hi - lo /\ m - 1 \notin Bad
    BY <2>1, <2>3
  <2>5. Good(m - 1)
    BY <1>0, <2>4
  <2>6. PICK f \in [lo .. lo + (m - 1) -> S] :
            f[lo] = base /\ \A i \in lo + 1 .. lo + (m - 1) : f[i] = step[i][f[i - 1]]
    BY <2>5 DEF Good
  <2> DEFINE g == [i \in lo .. lo + m |-> IF i = lo + m THEN step[i][f[i - 1]] ELSE f[i]]
  <2>7. lo + m - 1 \in lo .. lo + (m - 1) /\ lo + m \in lo + 1 .. hi
    BY <2>3
  <2>8. step[lo + m][f[lo + m - 1]] \in S
    BY <2>7
  <2>9. g \in [lo .. lo + m -> S]
    <3>1. \A i \in lo .. lo + m : i # lo + m => i \in lo .. lo + (m - 1)
      BY <2>3
    <3>2. ASSUME NEW i \in lo .. lo + m PROVE g[i] \in S
      <4>1. CASE i = lo + m
        <5>1. g[lo + m] = step[lo + m][f[lo + m - 1]]
          BY <2>3
        <5> QED BY <2>8, <4>1, <5>1
      <4>2. CASE i # lo + m
        BY <3>1, <4>2
      <4> QED BY <4>1, <4>2
    <3> QED BY <3>2
  <2>10. g[lo] = base
    BY <2>3, <2>6
  <2>11. ASSUME NEW i \in lo + 1 .. lo + m PROVE g[i] = step[i][g[i - 1]]
    <3>1. i - 1 \in lo .. lo + m /\ i - 1 # lo + m /\ i \in lo .. lo + m
      BY <2>3
    <3>2. g[i - 1] = f[i - 1]
      BY <3>1
    <3>3. CASE i = lo + m
      BY <3>1, <3>2, <3>3
    <3>4. CASE i # lo + m
      <4>1. i \in lo + 1 .. lo + (m - 1)
        BY <2>3, <3>4
      <4> QED BY <2>6, <3>1, <3>2, <3>4, <4>1
    <3> QED BY <3>3, <3>4
  <2> HIDE DEF g
  <2> QED BY <2>3, <2>9, <2>10, <2>11 DEF Good
<1>2. hi - lo \in 0 .. hi - lo /\ hi - lo \notin Bad
  BY <1>1
<1>3. Good(hi - lo)
  BY <1>0, <1>2
<1>4. lo + (hi - lo) = hi
  OBVIOUS
<1> QED BY <1>3, <1>4 DEF Good, LoopsUp

\* The same for a loop that counts downwards.
LEMMA LoopDown ==
    ASSUME NEW S, NEW lo \in Int, NEW hi \in Int, lo <= hi, NEW base \in S,
           NEW step, Steps(step, lo .. hi - 1, S)
    PROVE  \E f : LoopsDown(f, S, lo, hi, base, step)
<1>1. PICK a \in Int, z \in Int : a = -hi /\ z = -lo
  OBVIOUS
<1> DEFINE up == [j \in a + 1 .. z |-> step[-j]]
<1>2. a <= z /\ \A j \in a + 1 .. z : -j \in lo .. hi - 1
  BY <1>1
<1>3. Steps(up, a + 1 .. z, S)
  BY <1>2 DEF Steps
<1> HIDE DEF up
<1>4. PICK g : LoopsUp(g, S, a, z, base, up)
  BY <1>2, <1>3, LoopUp
<1> DEFINE f == [i \in lo .. hi |-> g[-i]]
<1>5. f \in [lo .. hi -> S]
  BY <1>1, <1>4 DEF LoopsUp
<1>6. f[hi] = base
  BY <1>1, <1>4 DEF LoopsUp
<1>7. ASSUME NEW i \in lo .. hi - 1 PROVE f[i] = step[i][f[i + 1]]
  <2>1. -i \in a + 1 .. z /\ -(-i) = i /\ (-i) - 1 = -(i + 1) /\ i + 1 \in lo .. hi /\ i \in lo .. hi
    BY <1>1
  <2>2. up[-i] = step[i]
    BY <2>1 DEF up
  <2> QED BY <1>4, <2>1, <2>2 DEF LoopsUp
<1> HIDE DEF f
<1> QED BY <1>5, <1>6, <1>7 DEF LoopsDown

\* Going up, or down, u and w are the same after each index of K and do not
\* change at the others.
MeetUp(u, w, K, lo, hi) ==
    \A i \in lo + 1 .. hi : /\ i \in K => u[i] = w[i]
                            /\ i \notin K => u[i] = u[i - 1] /\ w[i] = w[i - 1]

MeetDown(u, w, K, lo, hi) ==
    \A i \in lo .. hi - 1 : /\ i + 1 \in K => u[i] = w[i]
                            /\ i + 1 \notin K => u[i] = u[i + 1] /\ w[i] = w[i + 1]

\* Then they are the same at the end if K is met at all.
LEMMA SweepUp ==
    ASSUME NEW lo \in Int, NEW hi \in Int, lo <= hi, NEW K, NEW u, NEW w,
           MeetUp(u, w, K, lo, hi)
    PROVE  /\ (\E i \in lo + 1 .. hi : i \in K) => u[hi] = w[hi]
           /\ (\A i \in lo + 1 .. hi : i \notin K) => u[hi] = u[lo] /\ w[hi] = w[lo]
<1> USE DEF MeetUp
<1>1. ASSUME \A i \in lo + 1 .. hi : i \notin K PROVE u[hi] = u[lo] /\ w[hi] = w[lo]
  <2> DEFINE T == {i \in lo .. hi : u[i] = u[lo] /\ w[i] = w[lo]}
  <2>1. lo \in T /\ \A i \in lo + 1 .. hi : i - 1 \in T => i \in T
    BY <1>1
  <2>2. \A i \in lo .. hi : i \in T
    BY ZenonT(60), <2>1, UpInduction
  <2> QED BY <2>2
<1>2. ASSUME NEW k \in lo + 1 .. hi, k \in K PROVE u[hi] = w[hi]
  <2> DEFINE T == {i \in k .. hi : u[i] = w[i]}
  <2>1. k \in Int /\ k \in T
    BY <1>2
  <2>2. ASSUME NEW i \in k + 1 .. hi, i - 1 \in T PROVE i \in T
    <3>1. i \in lo + 1 .. hi /\ i \in k .. hi /\ u[i - 1] = w[i - 1]
      BY <2>2
    <3> QED BY <3>1
  <2> HIDE DEF T
  <2>3. \A i \in k .. hi : i \in T
    BY ZenonT(60), <2>1, <2>2, UpInduction
  <2> QED BY <2>3 DEF T
<1> QED BY <1>1, <1>2

\* The same downwards; the step from i + 1 to i is that of index i + 1.
LEMMA SweepDown ==
    ASSUME NEW lo \in Int, NEW hi \in Int, lo <= hi, NEW K, NEW u, NEW w,
           MeetDown(u, w, K, lo, hi)
    PROVE  /\ (\E i \in lo + 1 .. hi : i \in K) => u[lo] = w[lo]
           /\ (\A i \in lo + 1 .. hi : i \notin K) => u[lo] = u[hi]
<1> USE DEF MeetDown
<1>1. ASSUME \A i \in lo + 1 .. hi : i \notin K PROVE u[lo] = u[hi]
  <2> DEFINE T == {i \in lo .. hi : u[i] = u[hi]}
  <2>1. hi \in T
    OBVIOUS
  <2>2. ASSUME NEW i \in lo .. hi - 1, i + 1 \in T PROVE i \in T
    <3>1. i + 1 \in lo + 1 .. hi /\ i \in lo .. hi
      OBVIOUS
    <3> QED BY <1>1, <2>2, <3>1
  <2> HIDE DEF T
  <2>3. \A i \in lo .. hi : i \in T
    BY ZenonT(60), <2>1, <2>2, DownInduction
  <2> QED BY <2>3 DEF T
<1>2. ASSUME NEW k \in lo + 1 .. hi, k \in K PROVE u[lo] = w[lo]
  <2>1. PICK z \in lo .. hi - 1 : z + 1 = k
    <3>1. k - 1 \in lo .. hi - 1 /\ (k - 1) + 1 = k
      OBVIOUS
    <3> QED BY <3>1
  <2> DEFINE T == {i \in lo .. z : u[i] = w[i]}
  <2>2. z \in Int /\ z \in T
    BY <1>2, <2>1
  <2>3. ASSUME NEW i \in lo .. z - 1, i + 1 \in T PROVE i \in T
    <3>1. i \in lo .. hi - 1 /\ i \in lo .. z /\ u[i + 1] = w[i + 1]
      BY <2>3
    <3> QED BY <3>1
  <2> HIDE DEF T
  <2>4. \A i \in lo .. z : i \in T
    BY ZenonT(60), <2>2, <2>3, DownInduction
  <2> QED BY <2>2, <2>4 DEF T
<1> QED BY <1>1, <1>2

-----------------------------------------------------------------------------
(* The loops of the model.                                                 *)

\* What a transaction spends and creates, and that one transaction or its undo
\* data makes coins of coins.
LEMMA TxTypes ==
    ASSUME NEW b \in Block, NEW c \in Coins
    PROVE  /\ Len(vtx[b]) \in Nat
           /\ \A i \in 1 .. Len(vtx[b]) : UpdateCoins(c, vtx[b][i], nHeight(b)) \in Coins
<1>1. vtx[b] \in Seq([spends : SUBSET Outpoint, creates : SUBSET Outpoint])
  BY CoinsFlushAssumption
<1>2. nHeight(b) \in Nat
  BY Heights
<1> QED BY <1>1, <1>2 DEF Coins, UpdateCoins, Spent

\* ConnectTxs: the coins before the first transaction and after each one.
LEMMA ConnectTxsStep ==
    ASSUME NEW b \in Block, NEW c \in Coins
    PROVE  /\ ConnectTxs(c, b) \in [0 .. Len(vtx[b]) -> Coins]
           /\ ConnectTxs(c, b)[0] = c
           /\ \A i \in 1 .. Len(vtx[b]) :
                 ConnectTxs(c, b)[i] = UpdateCoins(ConnectTxs(c, b)[i - 1], vtx[b][i], nHeight(b))
<1> DEFINE n == Len(vtx[b])
           step == [i \in 1 .. n |-> [x \in Coins |-> UpdateCoins(x, vtx[b][i], nHeight(b))]]
           Is(u) == u = [i \in 0 .. n |-> IF i = 0 THEN c
                                          ELSE UpdateCoins(u[i - 1], vtx[b][i], nHeight(b))]
<1>1. n \in Nat /\ \A i \in 1 .. n : \A x \in Coins : UpdateCoins(x, vtx[b][i], nHeight(b)) \in Coins
  BY TxTypes
<1>2. ConnectTxs(c, b) = CHOOSE u : Is(u)
  BY DEF ConnectTxs
<1> HIDE DEF n
<1>3. 0 \in Int /\ n \in Int /\ 0 <= n /\ Steps(step, 0 + 1 .. n, Coins)
  BY <1>1 DEF Steps
<1>4. \A i \in 1 .. n : \A x \in Coins : step[i][x] = UpdateCoins(x, vtx[b][i], nHeight(b))
  OBVIOUS
<1> HIDE DEF step
<1>5. PICK f : LoopsUp(f, Coins, 0, n, c, step)
  BY ZenonT(60), <1>3, LoopUp
<1>6. ASSUME NEW i \in 1 .. n PROVE f[i] = UpdateCoins(f[i - 1], vtx[b][i], nHeight(b))
  <2>1. i - 1 \in 0 .. n /\ i \in 0 + 1 .. n
    BY <1>1
  <2>2. f[i - 1] \in Coins /\ f[i] = step[i][f[i - 1]]
    BY <1>5, <2>1 DEF LoopsUp
  <2> QED BY <1>4, <2>2
<1>7. \A i \in 0 .. n : i # 0 => i \in 1 .. n
  BY <1>1
<1>8. Is(f)
  BY <1>5, <1>6, <1>7 DEF LoopsUp
<1> DEFINE u == CHOOSE u : Is(u)
<1>9. Is(u)
  BY ZenonT(60), <1>8
<1> HIDE DEF u
<1>10. u[0] = c /\ \A i \in 1 .. n : u[i] = UpdateCoins(u[i - 1], vtx[b][i], nHeight(b))
  BY <1>1, <1>9
<1> DEFINE T == {i \in 0 .. n : u[i] \in Coins}
<1>11. 0 \in T /\ \A i \in 0 + 1 .. n : i - 1 \in T => i \in T
  BY <1>1, <1>10
<1>12. \A i \in 0 .. n : i \in T
  BY ZenonT(60), <1>3, <1>11, UpInduction
<1>13. u \in [0 .. n -> Coins]
  BY <1>9, <1>12
<1> QED BY <1>2, <1>10, <1>13 DEF u, n

\* Applying a block makes coins of coins.
LEMMA ConnectBlockType ==
    ASSUME NEW b \in Block, NEW c \in Coins
    PROVE  ConnectBlock(c, b) \in Coins
<1>1. Len(vtx[b]) \in 0 .. Len(vtx[b])
  BY TxTypes
<1> QED BY <1>1, ConnectTxsStep DEF ConnectBlock

\* RollForward: the coins before the first block and after each one.
LEMMA RollForwardStep ==
    ASSUME NEW b \in Block, NEW c \in Coins, NEW h \in 0 .. nHeight(b)
    PROVE  \E u \in [h .. nHeight(b) -> Coins] :
              /\ u[h] = c /\ u[nHeight(b)] = RollForward(c, b, h)
              /\ \A i \in h + 1 .. nHeight(b) : u[i] = ConnectBlock(u[i - 1], GetAncestor(b, i))
<1> DEFINE n == nHeight(b)
           step == [i \in h + 1 .. n |-> [x \in Coins |-> ConnectBlock(x, GetAncestor(b, i))]]
           Is(u) == u = [i \in h .. n |-> IF i = h THEN c
                                          ELSE ConnectBlock(u[i - 1], GetAncestor(b, i))]
<1>1. h \in Int /\ n \in Int /\ h <= n
  BY Heights
<1>2. \A i \in h + 1 .. n : \A x \in Coins : ConnectBlock(x, GetAncestor(b, i)) \in Coins
  <2>1. \A i \in h + 1 .. n : i \in 0 .. nHeight(b)
    BY <1>1
  <2> QED BY <2>1, AncestorOnBranch, ConnectBlockType
<1>3. RollForward(c, b, h) = (CHOOSE u : Is(u))[n]
  BY DEF RollForward
<1> HIDE DEF n
<1>4. Steps(step, h + 1 .. n, Coins)
  BY <1>2 DEF Steps
<1>5. \A i \in h + 1 .. n : \A x \in Coins : step[i][x] = ConnectBlock(x, GetAncestor(b, i))
  OBVIOUS
<1> HIDE DEF step
<1>6. PICK f : LoopsUp(f, Coins, h, n, c, step)
  BY ZenonT(60), <1>1, <1>4, LoopUp
<1>7. ASSUME NEW i \in h + 1 .. n PROVE f[i] = ConnectBlock(f[i - 1], GetAncestor(b, i))
  <2>1. i - 1 \in h .. n
    BY <1>1
  <2>2. f[i - 1] \in Coins /\ f[i] = step[i][f[i - 1]]
    BY <1>6, <2>1 DEF LoopsUp
  <2> QED BY <1>5, <2>2
<1>8. \A i \in h .. n : i # h => i \in h + 1 .. n
  BY <1>1
<1>9. Is(f)
  BY <1>6, <1>7, <1>8 DEF LoopsUp
<1> DEFINE u == CHOOSE u : Is(u)
<1>10. Is(u)
  BY ZenonT(60), <1>9
<1> HIDE DEF u
<1>11. u[h] = c /\ \A i \in h + 1 .. n : u[i] = ConnectBlock(u[i - 1], GetAncestor(b, i))
  BY <1>1, <1>10
<1> DEFINE T == {i \in h .. n : u[i] \in Coins}
<1>12. h \in T /\ \A i \in h + 1 .. n : i - 1 \in T => i \in T
  BY <1>1, <1>2, <1>11
<1>13. \A i \in h .. n : i \in T
  BY ZenonT(60), <1>1, <1>12, UpInduction
<1>14. u \in [h .. n -> Coins]
  BY <1>10, <1>13
<1>15. u[n] = RollForward(c, b, h)
  BY <1>3 DEF u
<1> QED BY <1>11, <1>14, <1>15 DEF n

\* Rolling forward makes coins of coins.
LEMMA RollForwardType ==
    ASSUME NEW b \in Block, NEW c \in Coins, NEW h \in 0 .. nHeight(b)
    PROVE  RollForward(c, b, h) \in Coins
<1>1. PICK u \in [h .. nHeight(b) -> Coins] :
          /\ u[h] = c /\ u[nHeight(b)] = RollForward(c, b, h)
          /\ \A i \in h + 1 .. nHeight(b) : u[i] = ConnectBlock(u[i - 1], GetAncestor(b, i))
  BY ZenonT(60), RollForwardStep
<1>2. nHeight(b) \in h .. nHeight(b)
  BY Heights
<1> QED BY ZenonT(60), <1>1, <1>2

\* The coins as of a block are coins.
LEMMA CoinsAtType ==
    ASSUME NEW b \in Block \cup {NoBlock}
    PROVE  CoinsAt(b) \in Coins /\ Nothing \in Coins
<1>1. Nothing \in Coins
  BY DEF Nothing, Coins, Spent
<1>2. \A d \in Block : 0 \in 0 .. nHeight(d)
  BY Heights
<1> QED BY <1>1, <1>2, RollForwardType DEF CoinsAt

\* A block has the ancestors of its descendants.
LEMMA AncestorOfAncestor ==
    ASSUME NEW a \in Block, NEW b \in Block, OnBranch(a, b), NEW h \in 0 .. nHeight(a)
    PROVE  h \in 0 .. nHeight(b) /\ GetAncestor(a, h) = GetAncestor(b, h)
<1> DEFINE d == GetAncestor(a, h)
<1>1. d \in Block /\ nHeight(d) = h /\ OnBranch(d, a)
  BY AncestorOnBranch
<1> HIDE DEF d
<1>2. OnBranch(d, b)
  BY <1>1, OnBranchTransitive
<1>3. GetAncestor(b, nHeight(d)) = d
  BY <1>1, <1>2, AncestorUnique
<1>4. nHeight(a) <= nHeight(b) /\ nHeight(a) \in Nat /\ nHeight(b) \in Nat
  BY Heights DEF OnBranch, nHeight
<1> QED BY <1>1, <1>3, <1>4 DEF d

\* The coins as of a block are those of its parent with the block applied.
LEMMA CoinsAtStep ==
    /\ CoinsAt(Genesis) = Nothing
    /\ \A b \in Block : b # Genesis => CoinsAt(b) = ConnectBlock(CoinsAt(pprev(b)), b)
<1>0. \A b \in Block : b # NoBlock /\ CoinsAt(b) = RollForward(Nothing, b, 0)
  BY CoinsFlushAssumption DEF CoinsAt
<1>1. Genesis \in Block /\ nHeight(Genesis) = 0 /\ Nothing \in Coins
  BY BlockTreeAssumption, Heights, CoinsAtType
<1>2. CoinsAt(Genesis) = Nothing
  <2>1. 0 \in 0 .. nHeight(Genesis)
    BY <1>1
  <2>2. PICK u \in [0 .. nHeight(Genesis) -> Coins] :
            /\ u[0] = Nothing /\ u[nHeight(Genesis)] = RollForward(Nothing, Genesis, 0)
            /\ \A i \in 0 + 1 .. nHeight(Genesis) : u[i] = ConnectBlock(u[i - 1], GetAncestor(Genesis, i))
    BY ZenonT(60), <1>1, <2>1, RollForwardStep
  <2> QED BY ZenonT(60), <1>0, <1>1, <2>2
<1>3. ASSUME NEW b \in Block, b # Genesis PROVE CoinsAt(b) = ConnectBlock(CoinsAt(pprev(b)), b)
  <2> DEFINE p == pprev(b)
  <2>1. p \in Block /\ nHeight(p) = nHeight(b) - 1 /\ OnBranch(p, b) /\ nHeight(p) \in Nat /\ nHeight(b) \in Nat
    BY <1>3, Parent, Heights
  <2> HIDE DEF p
  <2>2. 0 \in 0 .. nHeight(b) /\ 0 \in 0 .. nHeight(p)
    BY <2>1
  <2>3. PICK u \in [0 .. nHeight(b) -> Coins] :
            /\ u[0] = Nothing /\ u[nHeight(b)] = RollForward(Nothing, b, 0)
            /\ \A i \in 0 + 1 .. nHeight(b) : u[i] = ConnectBlock(u[i - 1], GetAncestor(b, i))
    BY ZenonT(60), <1>1, <2>2, RollForwardStep
  <2>4. PICK v \in [0 .. nHeight(p) -> Coins] :
            /\ v[0] = Nothing /\ v[nHeight(p)] = RollForward(Nothing, p, 0)
            /\ \A i \in 0 + 1 .. nHeight(p) : v[i] = ConnectBlock(v[i - 1], GetAncestor(p, i))
    BY ZenonT(60), <1>1, <2>1, <2>2, RollForwardStep
  <2> DEFINE T == {i \in 0 .. nHeight(p) : u[i] = v[i]}
  <2>5. ASSUME NEW i \in 0 + 1 .. nHeight(p), i - 1 \in T PROVE i \in T
    <3>1. i \in 0 .. nHeight(p) /\ i \in 0 + 1 .. nHeight(b)
      BY <2>1
    <3>2. GetAncestor(p, i) = GetAncestor(b, i)
      BY <2>1, <3>1, AncestorOfAncestor
    <3> QED BY <2>3, <2>4, <2>5, <3>1, <3>2
  <2>6. 0 \in T /\ 0 \in Int /\ nHeight(p) \in Int
    BY <2>1, <2>3, <2>4
  <2> HIDE DEF T
  <2>7. \A i \in 0 .. nHeight(p) : i \in T
    BY ZenonT(60), <2>5, <2>6, UpInduction
  <2>8. u[nHeight(b) - 1] = CoinsAt(p)
    BY <1>0, <2>1, <2>4, <2>7 DEF T
  <2>9. OnBranch(b, b) /\ GetAncestor(b, nHeight(b)) = b
    BY OnBranchReflexive, AncestorUnique
  <2>10. nHeight(b) \in 0 + 1 .. nHeight(b)
    BY <1>3, <2>1, Heights
  <2> QED BY <1>0, <2>3, <2>8, <2>9, <2>10 DEF p
<1> QED BY <1>2, <1>3

\* Undo data are coins, and one turn of DisconnectBlock makes coins of coins.
LEMMA UndoTypes ==
    ASSUME NEW b \in Block, b # Genesis
    PROVE  /\ CoinsAt(pprev(b)) \in Coins
           /\ \A i \in 1 .. Len(vtx[b]) : UndoData(b, i) \in Coins
           /\ \A i \in 1 .. Len(vtx[b]) : \A x \in Coins : DisconnectTx(x, b, i) \in Coins
<1>1. CoinsAt(pprev(b)) \in Coins
  BY Parent, CoinsAtType
<1>2. Len(vtx[b]) \in Nat
  BY <1>1, TxTypes
<1>3. ASSUME NEW i \in 1 .. Len(vtx[b]) PROVE UndoData(b, i) \in Coins
  <2>1. i - 1 \in 0 .. Len(vtx[b])
    BY <1>2
  <2> QED BY <1>1, <2>1, ConnectTxsStep DEF UndoData
<1>4. ASSUME NEW i \in 1 .. Len(vtx[b]), NEW x \in Coins PROVE DisconnectTx(x, b, i) \in Coins
  BY <1>3 DEF DisconnectTx, Coins, Spent
<1> QED BY <1>1, <1>3, <1>4

\* DisconnectBlock: the coins before the last transaction is undone, and after
\* each one.
LEMMA DisconnectBlockStep ==
    ASSUME NEW b \in Block, b # Genesis, NEW c \in Coins
    PROVE  \E u \in [0 .. Len(vtx[b]) -> Coins] :
              /\ u[Len(vtx[b])] = c /\ u[0] = DisconnectBlock(c, b)
              /\ \A i \in 0 .. Len(vtx[b]) - 1 : u[i] = DisconnectTx(u[i + 1], b, i + 1)
<1> DEFINE n == Len(vtx[b])
           step == [i \in 0 .. n - 1 |-> [x \in Coins |-> DisconnectTx(x, b, i + 1)]]
           Is(u) == u = [i \in 0 .. n |-> IF i = n THEN c ELSE DisconnectTx(u[i + 1], b, i + 1)]
<1>1. 0 \in Int /\ n \in Int /\ 0 <= n
  BY TxTypes
<1>2. \A i \in 0 .. n - 1 : \A x \in Coins : DisconnectTx(x, b, i + 1) \in Coins
  <2>1. \A i \in 0 .. n - 1 : i + 1 \in 1 .. n
    BY <1>1
  <2> QED BY <2>1, UndoTypes
<1>3. DisconnectBlock(c, b) = (CHOOSE u : Is(u))[0]
  BY DEF DisconnectBlock
<1> HIDE DEF n
<1>4. Steps(step, 0 .. n - 1, Coins)
  BY <1>2 DEF Steps
<1>5. \A i \in 0 .. n - 1 : \A x \in Coins : step[i][x] = DisconnectTx(x, b, i + 1)
  OBVIOUS
<1> HIDE DEF step
<1>6. PICK f : LoopsDown(f, Coins, 0, n, c, step)
  BY ZenonT(60), <1>1, <1>4, LoopDown
<1>7. ASSUME NEW i \in 0 .. n - 1 PROVE f[i] = DisconnectTx(f[i + 1], b, i + 1)
  <2>1. i + 1 \in 0 .. n
    BY <1>1
  <2>2. f[i + 1] \in Coins /\ f[i] = step[i][f[i + 1]]
    BY <1>6, <2>1 DEF LoopsDown
  <2> QED BY <1>5, <2>2
<1>8. \A i \in 0 .. n : i # n => i \in 0 .. n - 1
  BY <1>1
<1>9. Is(f)
  BY <1>6, <1>7, <1>8 DEF LoopsDown
<1> DEFINE u == CHOOSE u : Is(u)
<1>10. Is(u)
  BY ZenonT(60), <1>9
<1> HIDE DEF u
<1>11. u[n] = c /\ \A i \in 0 .. n - 1 : u[i] = DisconnectTx(u[i + 1], b, i + 1)
  BY <1>1, <1>10
<1> DEFINE T == {i \in 0 .. n : u[i] \in Coins}
<1>12. n \in T /\ \A i \in 0 .. n - 1 : i + 1 \in T => i \in T
  BY <1>1, <1>2, <1>11
<1>13. \A i \in 0 .. n : i \in T
  BY ZenonT(60), <1>1, <1>12, DownInduction
<1>14. u \in [0 .. n -> Coins]
  BY <1>10, <1>13
<1>15. u[0] = DisconnectBlock(c, b)
  BY <1>3 DEF u
<1> QED BY <1>11, <1>14, <1>15 DEF n

\* Undoing a block makes coins of coins.
LEMMA DisconnectBlockType ==
    ASSUME NEW b \in Block, b # Genesis, NEW c \in Coins
    PROVE  DisconnectBlock(c, b) \in Coins
<1>1. PICK u \in [0 .. Len(vtx[b]) -> Coins] :
          /\ u[Len(vtx[b])] = c /\ u[0] = DisconnectBlock(c, b)
          /\ \A i \in 0 .. Len(vtx[b]) - 1 : u[i] = DisconnectTx(u[i + 1], b, i + 1)
  BY ZenonT(60), DisconnectBlockStep
<1>2. 0 \in 0 .. Len(vtx[b])
  BY TxTypes
<1> QED BY ZenonT(60), <1>1, <1>2

\* The blocks of a branch above the genesis block.
LEMMA AncestorAbove ==
    ASSUME NEW b \in Block, NEW i \in 1 .. nHeight(b)
    PROVE  LET a == GetAncestor(b, i) IN
           /\ a \in Block /\ a # Genesis /\ nHeight(a) = i /\ OnBranch(a, b)
           /\ pprev(a) = GetAncestor(b, i - 1)
<1> DEFINE a == GetAncestor(b, i)
<1>1. i \in 0 .. nHeight(b) /\ nHeight(b) \in Nat
  BY Heights
<1>2. a \in Block /\ nHeight(a) = i /\ OnBranch(a, b)
  BY <1>1, AncestorOnBranch
<1> HIDE DEF a
<1>3. a # Genesis
  BY <1>2, Heights
<1>4. pprev(a) \in Block /\ nHeight(pprev(a)) = i - 1 /\ OnBranch(pprev(a), a)
  BY <1>2, <1>3, Parent
<1>5. OnBranch(pprev(a), b)
  BY <1>2, <1>4, OnBranchTransitive
<1>6. pprev(a) = GetAncestor(b, i - 1)
  BY <1>4, <1>5, AncestorUnique
<1> QED BY <1>2, <1>3, <1>6 DEF a

\* RollBack: the coins before the first block is undone, and after each one.
LEMMA RollBackStep ==
    ASSUME NEW b \in Block, NEW c \in Coins, NEW h \in 0 .. nHeight(b)
    PROVE  \E u \in [h .. nHeight(b) -> Coins] :
              /\ u[nHeight(b)] = c /\ u[h] = RollBack(c, b, h)
              /\ \A i \in h .. nHeight(b) - 1 : u[i] = DisconnectBlock(u[i + 1], GetAncestor(b, i + 1))
<1> DEFINE n == nHeight(b)
           step == [i \in h .. n - 1 |-> [x \in Coins |-> DisconnectBlock(x, GetAncestor(b, i + 1))]]
           Is(u) == u = [i \in h .. n |-> IF i = n THEN c
                                          ELSE DisconnectBlock(u[i + 1], GetAncestor(b, i + 1))]
<1>1. h \in Int /\ n \in Int /\ h <= n
  BY Heights
<1>2. \A i \in h .. n - 1 : \A x \in Coins : DisconnectBlock(x, GetAncestor(b, i + 1)) \in Coins
  <2>1. \A i \in h .. n - 1 : i + 1 \in 1 .. nHeight(b)
    BY <1>1
  <2> QED BY <2>1, AncestorAbove, DisconnectBlockType
<1>3. RollBack(c, b, h) = (CHOOSE u : Is(u))[h]
  BY DEF RollBack
<1> HIDE DEF n
<1>4. Steps(step, h .. n - 1, Coins)
  BY <1>2 DEF Steps
<1>5. \A i \in h .. n - 1 : \A x \in Coins : step[i][x] = DisconnectBlock(x, GetAncestor(b, i + 1))
  OBVIOUS
<1> HIDE DEF step
<1>6. PICK f : LoopsDown(f, Coins, h, n, c, step)
  BY ZenonT(60), <1>1, <1>4, LoopDown
<1>7. ASSUME NEW i \in h .. n - 1 PROVE f[i] = DisconnectBlock(f[i + 1], GetAncestor(b, i + 1))
  <2>1. i + 1 \in h .. n
    BY <1>1
  <2>2. f[i + 1] \in Coins /\ f[i] = step[i][f[i + 1]]
    BY <1>6, <2>1 DEF LoopsDown
  <2> QED BY <1>5, <2>2
<1>8. \A i \in h .. n : i # n => i \in h .. n - 1
  BY <1>1
<1>9. Is(f)
  BY <1>6, <1>7, <1>8 DEF LoopsDown
<1> DEFINE u == CHOOSE u : Is(u)
<1>10. Is(u)
  BY ZenonT(60), <1>9
<1> HIDE DEF u
<1>11. u[n] = c /\ \A i \in h .. n - 1 : u[i] = DisconnectBlock(u[i + 1], GetAncestor(b, i + 1))
  BY <1>1, <1>10
<1> DEFINE T == {i \in h .. n : u[i] \in Coins}
<1>12. n \in T /\ \A i \in h .. n - 1 : i + 1 \in T => i \in T
  BY <1>1, <1>2, <1>11
<1>13. \A i \in h .. n : i \in T
  BY ZenonT(60), <1>1, <1>12, DownInduction
<1>14. u \in [h .. n -> Coins]
  BY <1>10, <1>13
<1>15. u[h] = RollBack(c, b, h)
  BY <1>3 DEF u
<1> QED BY <1>11, <1>14, <1>15 DEF n

\* Rolling back makes coins of coins.
LEMMA RollBackType ==
    ASSUME NEW b \in Block, NEW c \in Coins, NEW h \in 0 .. nHeight(b)
    PROVE  RollBack(c, b, h) \in Coins
<1>1. PICK u \in [h .. nHeight(b) -> Coins] :
          /\ u[nHeight(b)] = c /\ u[h] = RollBack(c, b, h)
          /\ \A i \in h .. nHeight(b) - 1 : u[i] = DisconnectBlock(u[i + 1], GetAncestor(b, i + 1))
  BY ZenonT(60), RollBackStep
<1>2. h \in h .. nHeight(b)
  BY Heights
<1> QED BY ZenonT(60), <1>1, <1>2

-----------------------------------------------------------------------------
(* One outpoint at a time.                                                 *)

\* Block b spends or creates the coin of o.
Touches(b, o) == \E i \in 1 .. Len(vtx[b]) : o \in vtx[b][i].spends \/ o \in vtx[b][i].creates

\* UpdateCoins at one outpoint.
LEMMA UpdateCoinsAt ==
    ASSUME NEW x, NEW tx, NEW h, NEW o \in Outpoint
    PROVE  /\ o \in tx.creates => UpdateCoins(x, tx, h)[o] = h
           /\ o \in tx.spends /\ o \notin tx.creates => UpdateCoins(x, tx, h)[o] = Spent
           /\ ~(o \in tx.spends \/ o \in tx.creates) => UpdateCoins(x, tx, h)[o] = x[o]
BY DEF UpdateCoins

\* What ConnectBlock leaves at an outpoint the block touches does not depend on
\* what was there; the others it leaves alone.
LEMMA ConnectWrites ==
    ASSUME NEW b \in Block, NEW c \in Coins, NEW d \in Coins, NEW o \in Outpoint
    PROVE  /\ ~Touches(b, o) => ConnectBlock(c, b)[o] = c[o]
           /\ Touches(b, o) => ConnectBlock(c, b)[o] = ConnectBlock(d, b)[o]
<1> DEFINE n == Len(vtx[b])
           u == ConnectTxs(c, b)
           v == ConnectTxs(d, b)
           At(i) == o \in vtx[b][i].spends \/ o \in vtx[b][i].creates
           Up(x, i) == UpdateCoins(x, vtx[b][i], nHeight(b))
<1>1. n \in Nat
  BY TxTypes
<1>2. /\ u[0] = c /\ \A i \in 1 .. n : u[i] = Up(u[i - 1], i)
      /\ v[0] = d /\ \A i \in 1 .. n : v[i] = Up(v[i - 1], i)
  BY ConnectTxsStep
<1>3. /\ \A i, x : ~At(i) => Up(x, i)[o] = x[o]
      /\ \A i, x, y : At(i) => Up(x, i)[o] = Up(y, i)[o]
  <2>1. ASSUME NEW i, NEW x, ~At(i) PROVE Up(x, i)[o] = x[o]
    BY <2>1, UpdateCoinsAt
  <2>2. ASSUME NEW i, NEW x, NEW y, At(i) PROVE Up(x, i)[o] = Up(y, i)[o]
    BY <2>2, UpdateCoinsAt
  <2> QED BY ZenonT(60), <2>1, <2>2
<1>4. ConnectBlock(c, b) = u[n] /\ ConnectBlock(d, b) = v[n]
  BY DEF ConnectBlock
<1>5. Touches(b, o) <=> \E i \in 1 .. n : At(i)
  BY DEF Touches
<1> HIDE DEF n, u, v, At, Up
<1> DEFINE K == {i \in 1 .. n : At(i)}
           x == [i \in 0 .. n |-> u[i][o]]
           y == [i \in 0 .. n |-> v[i][o]]
<1>6. 0 \in Int /\ n \in Int /\ 0 <= n /\ 0 \in 0 .. n /\ n \in 0 .. n
  BY <1>1
<1>7. ASSUME NEW i \in 0 + 1 .. n
      PROVE  /\ i \in K => x[i] = y[i]
             /\ i \notin K => x[i] = x[i - 1] /\ y[i] = y[i - 1]
  <2>1. i \in 1 .. n /\ i \in 0 .. n /\ i - 1 \in 0 .. n
    BY <1>1
  <2> QED BY <1>2, <1>3, <2>1
<1>8. x[0] = c[o] /\ x[n] = u[n][o] /\ y[n] = v[n][o]
  BY <1>2, <1>6
<1>9. (\E i \in 0 + 1 .. n : i \in K) <=> Touches(b, o)
  BY <1>5
<1> HIDE DEF K, x, y
<1>10. /\ (\E i \in 0 + 1 .. n : i \in K) => x[n] = y[n]
       /\ (\A i \in 0 + 1 .. n : i \notin K) => x[n] = x[0] /\ y[n] = y[0]
  <2>1. MeetUp(x, y, K, 0, n)
    BY ZenonT(60), <1>7 DEF MeetUp
  <2> QED BY <1>6, <2>1, SweepUp
<1> QED BY ZenonT(60), <1>4, <1>8, <1>9, <1>10

\* Applying a block gives the coin as of the block, where the block touches it;
\* elsewhere the coin as of the block is that as of its parent.
LEMMA ConnectAt ==
    ASSUME NEW b \in Block, b # Genesis, NEW c \in Coins, NEW o \in Outpoint
    PROVE  /\ Touches(b, o) => ConnectBlock(c, b)[o] = CoinsAt(b)[o]
           /\ ~Touches(b, o) => /\ ConnectBlock(c, b)[o] = c[o]
                                /\ CoinsAt(b)[o] = CoinsAt(pprev(b))[o]
<1>1. CoinsAt(pprev(b)) \in Coins /\ CoinsAt(b) = ConnectBlock(CoinsAt(pprev(b)), b)
  BY UndoTypes, CoinsAtStep
<1> QED BY <1>1, ConnectWrites

\* Undoing a block gives the coin as of its parent, where the block touches it,
\* whatever was there; elsewhere it changes nothing.
LEMMA DisconnectAt ==
    ASSUME NEW b \in Block, b # Genesis, NEW c \in Coins, NEW o \in Outpoint
    PROVE  /\ Touches(b, o) => DisconnectBlock(c, b)[o] = CoinsAt(pprev(b))[o]
           /\ ~Touches(b, o) => DisconnectBlock(c, b)[o] = c[o]
<1> DEFINE n == Len(vtx[b])
           w == ConnectTxs(CoinsAt(pprev(b)), b)
           At(i) == o \in vtx[b][i].spends \/ o \in vtx[b][i].creates
<1>1. n \in Nat
  BY TxTypes
<1>2. CoinsAt(pprev(b)) \in Coins
  BY UndoTypes
<1>3. /\ w[0] = CoinsAt(pprev(b))
      /\ \A i \in 1 .. n : w[i] = UpdateCoins(w[i - 1], vtx[b][i], nHeight(b))
  BY <1>2, ConnectTxsStep
<1>4. PICK u \in [0 .. n -> Coins] :
          /\ u[n] = c /\ u[0] = DisconnectBlock(c, b)
          /\ \A i \in 0 .. n - 1 : u[i] = DisconnectTx(u[i + 1], b, i + 1)
  BY ZenonT(60), DisconnectBlockStep
<1>5. \A i \in 1 .. n : ~At(i) => w[i][o] = w[i - 1][o]
  BY <1>3, UpdateCoinsAt
<1>6. ASSUME NEW i \in 1 .. n, NEW x
      PROVE  /\ At(i) => DisconnectTx(x, b, i)[o] = w[i - 1][o]
             /\ ~At(i) => DisconnectTx(x, b, i)[o] = x[o]
  <2>1. UndoData(b, i) = w[i - 1]
    BY DEF UndoData
  <2>2. o \in vtx[b][i].creates => w[i - 1][o] = Spent
    BY <2>1, CoinsFlushAssumption
  <2> HIDE DEF w
  <2> QED BY ZenonT(60), <2>1, <2>2 DEF DisconnectTx
<1>7. Touches(b, o) <=> \E i \in 1 .. n : At(i)
  BY DEF Touches
<1> HIDE DEF n, w, At
<1>8. \A i \in 0 .. n - 1 : i + 1 \in 1 .. n /\ (i + 1) - 1 = i
  BY <1>1
<1>9. \A i \in 0 .. n - 1 : /\ At(i + 1) => u[i][o] = w[i][o]
                            /\ ~At(i + 1) => u[i][o] = u[i + 1][o] /\ w[i + 1][o] = w[i][o]
  BY <1>4, <1>5, <1>6, <1>8
<1> DEFINE K == {i \in 1 .. n : At(i)}
           x == [i \in 0 .. n |-> u[i][o]]
           y == [i \in 0 .. n |-> w[i][o]]
<1>10. 0 \in Int /\ n \in Int /\ 0 <= n /\ 0 \in 0 .. n /\ n \in 0 .. n
  BY <1>1
<1>11. ASSUME NEW i \in 0 .. n - 1
       PROVE  /\ i + 1 \in K => x[i] = y[i]
              /\ i + 1 \notin K => x[i] = x[i + 1] /\ y[i] = y[i + 1]
  <2>1. i \in 0 .. n /\ i + 1 \in 0 .. n /\ i + 1 \in 1 .. n
    BY <1>1
  <2> QED BY <1>9, <2>1
<1>12. x[0] = DisconnectBlock(c, b)[o] /\ x[n] = c[o] /\ y[0] = CoinsAt(pprev(b))[o]
  BY <1>3, <1>4, <1>10
<1>13. (\E i \in 0 + 1 .. n : i \in K) <=> Touches(b, o)
  BY <1>7
<1> HIDE DEF K, x, y
<1>14. /\ (\E i \in 0 + 1 .. n : i \in K) => x[0] = y[0]
       /\ (\A i \in 0 + 1 .. n : i \notin K) => x[0] = x[n]
  <2>1. MeetDown(x, y, K, 0, n)
    BY ZenonT(60), <1>11 DEF MeetDown
  <2> QED BY <1>10, <2>1, SweepDown
<1> QED BY ZenonT(60), <1>12, <1>13, <1>14

\* Some block of b's branch above height h touches o.
Above(b, h, o) == \E i \in h + 1 .. nHeight(b) : Touches(GetAncestor(b, i), o)

\* Rolling forward gives the coin as of the last block where a block touches it;
\* elsewhere the coin as of the last block is that as of the first.
LEMMA RollForwardAt ==
    ASSUME NEW b \in Block, NEW c \in Coins, NEW h \in 0 .. nHeight(b), NEW o \in Outpoint
    PROVE  /\ Above(b, h, o) => RollForward(c, b, h)[o] = CoinsAt(b)[o]
           /\ ~Above(b, h, o) => /\ RollForward(c, b, h)[o] = c[o]
                                 /\ CoinsAt(b)[o] = CoinsAt(GetAncestor(b, h))[o]
<1> DEFINE n == nHeight(b)
           K == {i \in h + 1 .. n : Touches(GetAncestor(b, i), o)}
<1>1. h \in Int /\ n \in Int /\ h <= n /\ h \in h .. n /\ n \in h .. n /\ n \in Nat
  BY Heights
<1>2. PICK u \in [h .. n -> Coins] :
          /\ u[h] = c /\ u[n] = RollForward(c, b, h)
          /\ \A i \in h + 1 .. n : u[i] = ConnectBlock(u[i - 1], GetAncestor(b, i))
  BY ZenonT(60), RollForwardStep
<1> DEFINE x == [i \in h .. n |-> u[i][o]]
           y == [i \in h .. n |-> CoinsAt(GetAncestor(b, i))[o]]
<1>3. ASSUME NEW i \in h + 1 .. n
      PROVE  /\ i \in K => x[i] = y[i]
             /\ i \notin K => x[i] = x[i - 1] /\ y[i] = y[i - 1]
  <2> DEFINE a == GetAncestor(b, i)
  <2>1. i \in 1 .. n /\ i \in h .. n /\ i - 1 \in h .. n
    BY <1>1
  <2>2. a \in Block /\ a # Genesis /\ pprev(a) = GetAncestor(b, i - 1)
    BY <2>1, AncestorAbove
  <2>3. u[i - 1] \in Coins
    BY <1>2, <2>1
  <2>4. u[i] = ConnectBlock(u[i - 1], a)
    BY <1>2
  <2>5. i \in K <=> Touches(a, o)
    OBVIOUS
  <2>6. x[i] = u[i][o] /\ x[i - 1] = u[i - 1][o] /\ y[i] = CoinsAt(a)[o] /\ y[i - 1] = CoinsAt(pprev(a))[o]
    BY <2>1, <2>2
  <2> HIDE DEF a, x, y, n, K
  <2> QED BY <2>2, <2>3, <2>4, <2>5, <2>6, ConnectAt
<1>4. Above(b, h, o) <=> \E i \in h + 1 .. n : i \in K
  BY DEF Above
<1>5. GetAncestor(b, n) = b
  BY OnBranchReflexive, AncestorUnique
<1>6. x[h] = c[o] /\ x[n] = RollForward(c, b, h)[o] /\ y[n] = CoinsAt(b)[o] /\ y[h] = CoinsAt(GetAncestor(b, h))[o]
  BY <1>1, <1>2, <1>5
<1> HIDE DEF n, K, x, y
<1>7. MeetUp(x, y, K, h, n)
  BY ZenonT(60), <1>3 DEF MeetUp
<1>8. /\ (\E i \in h + 1 .. n : i \in K) => x[n] = y[n]
      /\ (\A i \in h + 1 .. n : i \notin K) => x[n] = x[h] /\ y[n] = y[h]
  BY <1>1, <1>7, SweepUp
<1> QED BY ZenonT(60), <1>4, <1>6, <1>8

\* Rolling back gives the coin as of the ancestor where a block touches it.
LEMMA RollBackAt ==
    ASSUME NEW b \in Block, NEW c \in Coins, NEW h \in 0 .. nHeight(b), NEW o \in Outpoint
    PROVE  /\ Above(b, h, o) => RollBack(c, b, h)[o] = CoinsAt(GetAncestor(b, h))[o]
           /\ ~Above(b, h, o) => RollBack(c, b, h)[o] = c[o]
<1> DEFINE n == nHeight(b)
           K == {i \in h + 1 .. n : Touches(GetAncestor(b, i), o)}
<1>1. h \in Int /\ n \in Int /\ h <= n /\ h \in h .. n /\ n \in h .. n /\ n \in Nat
  BY Heights
<1>2. PICK u \in [h .. n -> Coins] :
          /\ u[n] = c /\ u[h] = RollBack(c, b, h)
          /\ \A i \in h .. n - 1 : u[i] = DisconnectBlock(u[i + 1], GetAncestor(b, i + 1))
  BY ZenonT(60), RollBackStep
<1> DEFINE x == [i \in h .. n |-> u[i][o]]
           y == [i \in h .. n |-> CoinsAt(GetAncestor(b, i))[o]]
<1>3. ASSUME NEW i \in h .. n - 1
      PROVE  /\ i + 1 \in K => x[i] = y[i]
             /\ i + 1 \notin K => x[i] = x[i + 1] /\ y[i] = y[i + 1]
  <2> DEFINE a == GetAncestor(b, i + 1)
  <2>1. i + 1 \in 1 .. n /\ i + 1 \in h + 1 .. n /\ i \in h .. n /\ i + 1 \in h .. n /\ (i + 1) - 1 = i
    BY <1>1
  <2>2. a \in Block /\ a # Genesis /\ pprev(a) = GetAncestor(b, i)
    BY <2>1, AncestorAbove
  <2>3. u[i + 1] \in Coins
    BY <1>2, <2>1
  <2>4. u[i] = DisconnectBlock(u[i + 1], a)
    BY <1>2
  <2>5. i + 1 \in K <=> Touches(a, o)
    BY <2>1
  <2>6. x[i] = u[i][o] /\ x[i + 1] = u[i + 1][o] /\ y[i + 1] = CoinsAt(a)[o] /\ y[i] = CoinsAt(pprev(a))[o]
    BY <2>1, <2>2
  <2> HIDE DEF a, x, y, n, K
  <2> QED BY <2>2, <2>3, <2>4, <2>5, <2>6, ConnectAt, DisconnectAt
<1>4. Above(b, h, o) <=> \E i \in h + 1 .. n : i \in K
  BY DEF Above
<1>5. x[n] = c[o] /\ x[h] = RollBack(c, b, h)[o] /\ y[h] = CoinsAt(GetAncestor(b, h))[o]
  BY <1>1, <1>2
<1> HIDE DEF n, K, x, y
<1>6. MeetDown(x, y, K, h, n)
  BY ZenonT(60), <1>3 DEF MeetDown
<1>7. /\ (\E i \in h + 1 .. n : i \in K) => x[h] = y[h]
      /\ (\A i \in h + 1 .. n : i \notin K) => x[h] = x[n]
  BY <1>1, <1>6, SweepDown
<1> QED BY ZenonT(60), <1>4, <1>5, <1>7

\* Where ReplayBlocks begins to roll forward.
LEMMA ForkIsCommon ==
    ASSUME NEW new \in Block, NEW old \in Block \cup {NoBlock}
    PROVE  /\ ForkHeight(new, old) \in 0 .. nHeight(new)
           /\ old = NoBlock => ForkHeight(new, old) = 0
           /\ old \in Block => /\ ForkHeight(new, old) \in 0 .. nHeight(old)
                               /\ GetAncestor(new, ForkHeight(new, old)) = GetAncestor(old, ForkHeight(new, old))
<1>1. CASE old = NoBlock
  BY <1>1, Heights, CoinsFlushAssumption DEF ForkHeight
<1>2. CASE old \in Block
  <2> DEFINE f == LastCommonAncestor(old, new)
  <2>1. old # NoBlock
    BY <1>2, CoinsFlushAssumption
  <2>2. f \in Branch(old) \cap Branch(new)
    <3>1. \E g \in Branch(old) \cap Branch(new) : \A d \in Branch(old) \cap Branch(new) : nHeight(d) <= nHeight(g)
      BY <1>2, LastCommon
    <3> QED BY ZenonT(60), <3>1 DEF LastCommonAncestor
  <2>3. f \in Block /\ OnBranch(f, old) /\ OnBranch(f, new)
    BY <2>2 DEF Branch
  <2>4. ForkHeight(new, old) = nHeight(f)
    BY <2>1 DEF ForkHeight
  <2> HIDE DEF f
  <2>5. GetAncestor(old, nHeight(f)) = f /\ GetAncestor(new, nHeight(f)) = f
    BY <1>2, <2>3, AncestorUnique
  <2>6. nHeight(f) \in 0 .. nHeight(old) /\ nHeight(f) \in 0 .. nHeight(new)
    BY <1>2, <2>3, Heights DEF OnBranch, nHeight
  <2> QED BY <2>1, <2>4, <2>5, <2>6
<1> QED BY <1>1, <1>2

\* ReplayBlocks makes the coins of the new tip of every database in which each
\* coin is that of the old or of the new tip.
LEMMA ReplayMixture ==
    ASSUME coins \in Coins, NEW new \in Block, NEW old \in Block \cup {NoBlock},
           \A o \in Outpoint : coins[o] \in {CoinsAt(new)[o], CoinsAt(old)[o]}
    PROVE  Replayed(new, old) = CoinsAt(new)
<1> DEFINE h == ForkHeight(new, old)
           undone == IF old = NoBlock THEN coins ELSE RollBack(coins, old, h)
           fork == GetAncestor(new, h)
<1>1. h \in 0 .. nHeight(new)
  BY ForkIsCommon
<1>2. Replayed(new, old) = RollForward(undone, new, h)
  BY DEF Replayed
<1>3. undone \in Coins
  <2>1. ASSUME old \in Block PROVE RollBack(coins, old, h) \in Coins
    BY <2>1, ForkIsCommon, RollBackType
  <2> QED BY <2>1
<1>4. ASSUME NEW o \in Outpoint PROVE undone[o] \in {CoinsAt(fork)[o], CoinsAt(new)[o]}
  <2>1. CASE old = NoBlock
    <3>1. fork = Genesis
      <4>1. h = 0
        BY <2>1, ForkIsCommon
      <4>2. Genesis \in Block /\ OnBranch(Genesis, new) /\ nHeight(Genesis) = 0
        BY Heights, BlockTreeAssumption
      <4> QED BY <4>1, <4>2, AncestorUnique
    <3>2. CoinsAt(fork) = Nothing /\ CoinsAt(old) = Nothing
      BY <2>1, <3>1, CoinsAtStep DEF CoinsAt
    <3> HIDE DEF fork, h
    <3> QED BY <2>1, <3>2
  <2>2. CASE old \in Block
    <3>1. h \in 0 .. nHeight(old) /\ fork = GetAncestor(old, h) /\ old # NoBlock
      BY <2>2, ForkIsCommon, CoinsFlushAssumption
    <3> HIDE DEF h, fork
    <3>2. undone = RollBack(coins, old, h)
      BY <3>1
    <3>3. /\ Above(old, h, o) => undone[o] = CoinsAt(fork)[o]
          /\ ~Above(old, h, o) => undone[o] = coins[o]
      BY <2>2, <3>1, <3>2, RollBackAt
    <3>4. ~Above(old, h, o) => CoinsAt(old)[o] = CoinsAt(fork)[o]
      BY <2>2, <3>1, RollForwardAt
    <3> HIDE DEF undone
    <3> QED BY ZenonT(60), <3>3, <3>4
  <2> QED BY <2>1, <2>2
<1> HIDE DEF h, undone, fork
<1>5. Replayed(new, old) \in Coins /\ CoinsAt(new) \in Coins
  BY <1>1, <1>2, <1>3, RollForwardType, CoinsAtType
<1>6. ASSUME NEW o \in Outpoint PROVE Replayed(new, old)[o] = CoinsAt(new)[o]
  <2>1. /\ Above(new, h, o) => RollForward(undone, new, h)[o] = CoinsAt(new)[o]
        /\ ~Above(new, h, o) => /\ RollForward(undone, new, h)[o] = undone[o]
                                /\ CoinsAt(new)[o] = CoinsAt(GetAncestor(new, h))[o]
    BY <1>1, <1>3, RollForwardAt
  <2>2. undone[o] = CoinsAt(GetAncestor(new, h))[o] \/ undone[o] = CoinsAt(new)[o]
    BY <1>4 DEF fork
  <2>3. CASE Above(new, h, o)
    BY <1>2, <2>1, <2>3
  <2>4. CASE ~Above(new, h, o)
    BY <1>2, <2>1, <2>2, <2>4
  <2> QED BY <2>3, <2>4
<1> QED BY <1>5, <1>6 DEF Coins

\* Undoing the tip gives exactly the coins of its parent.
LEMMA DisconnectIsParent ==
    ASSUME NEW b \in Block, b # Genesis
    PROVE  DisconnectBlock(CoinsAt(b), b) = CoinsAt(pprev(b))
<1>1. CoinsAt(b) \in Coins /\ CoinsAt(pprev(b)) \in Coins
  BY CoinsAtType, UndoTypes
<1>2. DisconnectBlock(CoinsAt(b), b) \in Coins
  BY <1>1, DisconnectBlockType
<1>3. ASSUME NEW o \in Outpoint PROVE DisconnectBlock(CoinsAt(b), b)[o] = CoinsAt(pprev(b))[o]
  BY <1>1, ConnectAt, DisconnectAt
<1> QED BY <1>1, <1>2, <1>3 DEF Coins

-----------------------------------------------------------------------------
(* Blocks and undo data on disk.                                           *)

\* Along a branch, block by block.
LEMMA StoredSteps ==
    ASSUME NEW H, NEW U
    PROVE  /\ Genesis \in H => Stored(Genesis, H, U)
           /\ \A b \in Block : b # Genesis /\ Stored(b, H, U) => Stored(pprev(b), H, U)
           /\ \A b \in Block : /\ b # Genesis /\ b \in H /\ b \in U
                               /\ Stored(pprev(b), H, U)
                               => Stored(b, H, U)
<1>1. Branch(Genesis) = {Genesis}
  <2>1. Genesis \in Block /\ nHeight(Genesis) = 0
    BY Heights, BlockTreeAssumption
  <2>2. \A a \in Block : OnBranch(a, Genesis) => a = Genesis
    BY <2>1, Heights DEF OnBranch, nHeight
  <2> QED BY <2>1, <2>2, OnBranchReflexive DEF Branch
<1>2. ASSUME NEW b \in Block, b # Genesis PROVE Branch(b) = Branch(pprev(b)) \cup {b}
  <2>1. pprev(b) \in Block /\ OnBranch(pprev(b), b)
    BY <1>2, Parent
  <2>2. \A a \in Block : OnBranch(a, pprev(b)) => OnBranch(a, b)
    BY <2>1, OnBranchTransitive
  <2>3. \A a \in Block : OnBranch(a, b) /\ a # b => OnBranch(a, pprev(b))
    BY <1>2, Parent
  <2> QED BY <2>2, <2>3, OnBranchReflexive DEF Branch
<1> QED BY <1>1, <1>2 DEF Stored

\* What is stored stays stored in larger sets.
LEMMA StoredMonotone ==
    ASSUME NEW b, NEW H, NEW U, NEW H2, NEW U2, H \subseteq H2, U \subseteq U2, Stored(b, H, U)
    PROVE  Stored(b, H2, U2)
BY DEF Stored

\* ReplayBlocks can read what it needs between two blocks that are stored.
LEMMA StoredCanReplay ==
    ASSUME NEW new \in Block, NEW old \in Block \cup {NoBlock},
           Stored(new, saved, savedUndo), old # NoBlock => Stored(old, saved, savedUndo)
    PROVE  CanReplay(new, old)
<1>1. ForkHeight(new, old) \in Nat
  BY ForkIsCommon, Heights
<1>2. ToApply(new, old) \subseteq Branch(new) /\ new \in Branch(new)
  BY OnBranchReflexive DEF ToApply, BlocksAbove, Branch
<1>3. CASE old = NoBlock
  <2>1. ToUndo(new, old) = {} /\ {old} \ {NoBlock} = {}
    BY <1>3 DEF ToUndo
  <2> QED BY <1>2, <2>1 DEF CanReplay, Stored
<1>4. CASE old # NoBlock
  <2>1. old \in Block
    BY <1>4
  <2>2. ToUndo(new, old) = {a \in Branch(old) : nHeight(a) > ForkHeight(new, old)}
    BY <1>4 DEF ToUndo, BlocksAbove
  <2>3. nHeight(Genesis) = 0
    BY Heights, BlockTreeAssumption
  <2>4. Genesis \notin ToUndo(new, old)
    BY <1>1, <2>2, <2>3
  <2>5. ToUndo(new, old) \subseteq Branch(old) \ {Genesis} /\ old \in Branch(old)
    BY <2>1, <2>2, <2>4, OnBranchReflexive DEF Branch
  <2> QED BY <1>2, <1>4, <2>5 DEF CanReplay, Stored
<1> QED BY <1>3, <1>4

-----------------------------------------------------------------------------
(* The inductive invariant.                                                *)

\* The tip moves in memory; with the move, or by itself, goes DoFullFlush or no
\* write at all.
LEMMA MemoryStep ==
    ASSUME IInv, mode = "run", UNCHANGED db,
           chain' \in Coins, hashBlock' \in Block \cup {NoBlock},
           known' \in SUBSET Block, knownUndo' \in SUBSET known', Genesis \notin knownUndo',
           known \subseteq known', knownUndo \subseteq knownUndo',
           chain' = CoinsAt(hashBlock'), hashBlock' # NoBlock => Stored(hashBlock', known', knownUndo'),
           \/ NotNeeded
           \/ DoFullFlush /\ hashBlock' # NoBlock
           \/ saved' = known' /\ savedUndo' = knownUndo' /\ mode' = mode
    PROVE  IInv'
<1>1. /\ saved \subseteq saved' /\ savedUndo \subseteq savedUndo'
      /\ saved' \subseteq known' /\ savedUndo' \subseteq knownUndo'
      /\ saved' \subseteq Block /\ savedUndo' \subseteq saved'
      /\ mode' \in {"run", "flush"}
      /\ mode' = "flush" => saved' = known' /\ savedUndo' = knownUndo' /\ hashBlock' # NoBlock
  BY DEF IInv, TypeOK, Memory, NotNeeded, DoFullFlush, blocktree
<1>2. heads = <<>> /\ heads' = <<>> /\ best' = best /\ coins' = coins /\ Genesis \in known'
  BY DEF IInv, Phases, Memory, db
<1>3. TypeOK' /\ Genesis \notin savedUndo' \cup knownUndo'
  BY <1>1, <1>2 DEF IInv, TypeOK, Coins
<1>4. Database'
  BY <1>1, <1>2, StoredMonotone DEF IInv, Database
<1>5. Memory'
  BY <1>1, <1>2 DEF Memory
<1>6. Phases'
  BY <1>1, <1>2 DEF Phases, writing
<1> QED BY <1>3, <1>4, <1>5, <1>6 DEF IInv

\* AcceptBlock, WriteBlockIndex and FlushStateToDisk leave the tip alone.
LEMMA TipStays ==
    ASSUME IInv, NEW b \in Block, AcceptBlock(b) \/ WriteBlockIndex \/ FlushStateToDisk
    PROVE  IInv'
<1>1. /\ mode = "run" /\ UNCHANGED <<db, chain, hashBlock, knownUndo>>
      /\ known' \in SUBSET Block /\ known \subseteq known'
  BY DEF IInv, TypeOK, AcceptBlock, WriteBlockIndex, FlushStateToDisk, memory
<1>2. /\ chain \in Coins /\ hashBlock \in Block \cup {NoBlock} /\ knownUndo \in SUBSET known'
      /\ Genesis \notin knownUndo /\ chain = CoinsAt(hashBlock)
      /\ hashBlock # NoBlock => Stored(hashBlock, known, knownUndo)
  BY <1>1 DEF IInv, TypeOK, Coins, Memory
<1>3. hashBlock' # NoBlock => Stored(hashBlock', known', knownUndo')
  BY <1>1, <1>2, StoredMonotone
<1>4. \/ NotNeeded
      \/ DoFullFlush /\ hashBlock' # NoBlock
      \/ saved' = known' /\ savedUndo' = knownUndo' /\ mode' = mode
  BY <1>1 DEF AcceptBlock, WriteBlockIndex, FlushStateToDisk, NotNeeded, memory
<1> QED BY <1>1, <1>2, <1>3, <1>4, MemoryStep

\* ConnectTip.
LEMMA ConnectTipKeeps ==
    ASSUME IInv, NEW b \in Block, ConnectTip(b)
    PROVE  IInv'
<1>1. /\ mode = "run" /\ UNCHANGED db /\ known' = known /\ hashBlock' = b /\ b \in known
      /\ NotNeeded \/ DoFullFlush
      /\ b # NoBlock
  BY CoinsFlushAssumption DEF ConnectTip
<1>2. /\ chain \in Coins /\ knownUndo \in SUBSET known /\ known \in SUBSET Block
      /\ Genesis \notin knownUndo /\ Genesis \in known /\ chain = CoinsAt(hashBlock)
      /\ hashBlock # NoBlock => Stored(hashBlock, known, knownUndo)
  BY <1>1 DEF IInv, TypeOK, Coins, Memory
<1>3. CASE b = Genesis
  <2>1. hashBlock = NoBlock /\ UNCHANGED <<chain, knownUndo>>
    BY <1>3 DEF ConnectTip
  <2>2. CoinsAt(NoBlock) = Nothing
    BY DEF CoinsAt
  <2>3. chain' = CoinsAt(hashBlock') /\ Stored(hashBlock', known', knownUndo')
    BY <1>1, <1>2, <1>3, <2>1, <2>2, CoinsAtStep, StoredSteps
  <2> QED BY <1>1, <1>2, <2>1, <2>3, MemoryStep
<1>4. CASE b # Genesis
  <2>1. hashBlock = pprev(b) /\ chain' = ConnectBlock(chain, b) /\ knownUndo' = knownUndo \cup {b}
    BY <1>4 DEF ConnectTip
  <2>2. pprev(b) \in Block /\ pprev(b) # NoBlock
    BY <1>4, Parent, CoinsFlushAssumption
  <2>3. chain' = CoinsAt(hashBlock') /\ chain' \in Coins
    BY <1>1, <1>2, <1>4, <2>1, CoinsAtStep, CoinsAtType
  <2>4. Stored(pprev(b), known', knownUndo')
    BY <1>1, <1>2, <2>1, <2>2, StoredMonotone
  <2>5. Stored(hashBlock', known', knownUndo')
    BY <1>1, <1>4, <2>1, <2>4, StoredSteps
  <2>6. knownUndo' \in SUBSET known' /\ Genesis \notin knownUndo' /\ knownUndo \subseteq knownUndo'
    BY <1>1, <1>2, <1>4, <2>1
  <2> QED BY <1>1, <1>2, <2>3, <2>5, <2>6, MemoryStep
<1> QED BY <1>3, <1>4

\* DisconnectTip.
LEMMA DisconnectTipKeeps ==
    ASSUME IInv, DisconnectTip
    PROVE  IInv'
<1>1. /\ mode = "run" /\ UNCHANGED <<db, known, knownUndo>> /\ hashBlock \in knownUndo
      /\ chain' = DisconnectBlock(chain, hashBlock) /\ hashBlock' = pprev(hashBlock)
      /\ NotNeeded \/ DoFullFlush
  BY DEF DisconnectTip
<1>2. /\ knownUndo \in SUBSET known /\ known \in SUBSET Block
      /\ Genesis \notin knownUndo /\ chain = CoinsAt(hashBlock)
      /\ hashBlock # NoBlock => Stored(hashBlock, known, knownUndo)
  BY <1>1 DEF IInv, TypeOK, Memory
<1>3. hashBlock \in Block /\ hashBlock # Genesis /\ hashBlock # NoBlock
  BY <1>1, <1>2, CoinsFlushAssumption
<1>4. hashBlock' \in Block /\ hashBlock' # NoBlock
  BY <1>1, <1>3, Parent, CoinsFlushAssumption
<1>5. chain' = CoinsAt(hashBlock') /\ chain' \in Coins
  BY <1>1, <1>2, <1>3, <1>4, DisconnectIsParent, CoinsAtType
<1>6. Stored(hashBlock', known', knownUndo')
  BY <1>1, <1>2, <1>3, StoredSteps
<1> QED BY <1>1, <1>2, <1>4, <1>5, <1>6, MemoryStep

\* A batch that is not the last one.
LEMMA PartialBatchKeeps ==
    ASSUME IInv, NEW S, PartialBatch(S)
    PROVE  IInv'
<1>1. /\ writing /\ best' = NoBlock /\ heads' = <<hashBlock, OldTip>>
      /\ coins' = [o \in Outpoint |-> IF o \in S THEN chain[o] ELSE coins[o]]
      /\ UNCHANGED <<saved, savedUndo, chain, hashBlock, known, knownUndo, mode>>
  BY DEF PartialBatch, blocktree, memory
<1>2. /\ coins \in Coins /\ chain \in Coins /\ chain = CoinsAt(hashBlock)
      /\ hashBlock \in Block /\ hashBlock # NoBlock /\ Stored(hashBlock, saved, savedUndo)
  BY <1>1 DEF IInv, TypeOK, Memory, Phases, writing, Coins
<1>3. /\ OldTip \in Block \cup {NoBlock}
      /\ OldTip # NoBlock => Stored(OldTip, saved, savedUndo)
      /\ \A o \in Outpoint : coins[o] \in {CoinsAt(hashBlock)[o], CoinsAt(OldTip)[o]}
  <2>1. CASE heads = <<>>
    <3>1. OldTip = best
      BY <2>1 DEF OldTip
    <3> QED BY <2>1, <3>1 DEF IInv, TypeOK, Database
  <2>2. CASE heads # <<>>
    <3>1. best = NoBlock /\ OldTip = heads[2] /\ heads[1] = hashBlock
      BY <1>1, <2>2 DEF OldTip, IInv, Database, Phases
    <3>2. heads[2] \in Block \cup {NoBlock}
      BY <2>2 DEF IInv, TypeOK
    <3>3. \A o \in Outpoint : coins[o] \in {CoinsAt(heads[1])[o], CoinsAt(heads[2])[o]}
      BY <2>2 DEF IInv, Database
    <3>4. heads[2] # NoBlock => Stored(heads[2], saved, savedUndo)
      BY <2>2 DEF IInv, Database
    <3> QED BY <3>1, <3>2, <3>3, <3>4
  <2> QED BY <2>1, <2>2
<1>4. heads' # <<>> /\ heads'[1] = hashBlock /\ heads'[2] = OldTip
  BY <1>1
<1>5. coins' \in Coins /\ \A o \in Outpoint : coins'[o] \in {CoinsAt(hashBlock)[o], CoinsAt(OldTip)[o]}
  <2>1. coins' \in Coins
    BY <1>1, <1>2 DEF Coins
  <2>2. \A o \in Outpoint : coins'[o] = chain[o] \/ coins'[o] = coins[o]
    BY <1>1
  <2> QED BY <1>2, <1>3, <2>1, <2>2
<1>6. TypeOK' /\ Genesis \notin savedUndo' \cup knownUndo'
  BY <1>1, <1>2, <1>3, <1>5 DEF IInv, TypeOK, Coins
<1>7. Database'
  <2>1. \A i \in 1 .. 2 : heads'[i] # NoBlock => Stored(heads'[i], saved', savedUndo')
    BY <1>1, <1>2, <1>3, <1>4
  <2>2. \A o \in Outpoint : coins'[o] \in {CoinsAt(heads'[1])[o], CoinsAt(heads'[2])[o]}
    BY <1>4, <1>5
  <2> QED BY <1>1, <1>4, <2>1, <2>2 DEF Database
<1>8. Memory'
  BY <1>1 DEF IInv, Memory
<1>9. Phases'
  BY <1>1, <1>4 DEF IInv, Phases, writing
<1> QED BY <1>6, <1>7, <1>8, <1>9 DEF IInv

\* The last batch.
LEMMA FinalBatchKeeps ==
    ASSUME IInv, FinalBatch
    PROVE  IInv'
<1>1. /\ writing /\ coins' = chain /\ best' = hashBlock /\ heads' = <<>> /\ mode' = "run"
      /\ UNCHANGED <<saved, savedUndo, chain, hashBlock, known, knownUndo>>
  BY DEF FinalBatch, blocktree, memory
<1>2. /\ chain = CoinsAt(hashBlock) /\ Stored(hashBlock, saved, savedUndo)
  BY <1>1 DEF IInv, Memory, Phases, writing
<1>3. TypeOK' /\ Genesis \notin savedUndo' \cup knownUndo'
  BY <1>1 DEF IInv, TypeOK
<1>4. Database'
  BY <1>1, <1>2 DEF Database
<1>5. Memory'
  BY <1>1 DEF IInv, Memory, writing
<1>6. Phases'
  BY <1>1 DEF Phases, writing
<1> QED BY <1>3, <1>4, <1>5, <1>6 DEF IInv

\* A crash loses the memory and nothing else.
LEMMA CrashKeeps ==
    ASSUME IInv, Crash
    PROVE  IInv'
<1>1. /\ chain' = Nothing /\ hashBlock' = NoBlock /\ known' = {} /\ knownUndo' = {} /\ mode' = "start"
      /\ UNCHANGED <<coins, best, heads, saved, savedUndo>>
  BY DEF Crash, db, blocktree
<1>2. Nothing \in Coins
  BY CoinsAtType
<1>3. TypeOK' /\ Genesis \notin savedUndo' \cup knownUndo'
  BY <1>1, <1>2 DEF IInv, TypeOK, Coins
<1>4. Database'
  BY <1>1 DEF IInv, Database
<1>5. Memory' /\ Phases'
  BY <1>1 DEF Memory, Phases, writing
<1> QED BY <1>3, <1>4, <1>5 DEF IInv

\* A start, with or without a replay.
LEMMA StartKeeps ==
    ASSUME IInv, Start
    PROVE  IInv'
<1>1. /\ mode = "start" /\ known' = saved \cup {Genesis} /\ knownUndo' = savedUndo
      /\ UNCHANGED <<coins, best, heads, saved, savedUndo>>
  BY DEF Start, db, blocktree
<1>2. /\ known' \subseteq Block /\ knownUndo' \subseteq known' /\ saved \subseteq known' /\ Genesis \in known'
  BY <1>1, BlockTreeAssumption DEF IInv, TypeOK
<1>3. Database'
  BY <1>1 DEF IInv, Database
<1>4. CASE heads = <<>>
  <2>1. /\ chain' = coins /\ hashBlock' = best
        /\ mode' = IF best \in {NoBlock} \cup known' THEN "run" ELSE "failed"
    BY <1>4 DEF Start
  <2>2. /\ chain' = CoinsAt(best) /\ best \in Block \cup {NoBlock}
        /\ best # NoBlock => Stored(best, saved, savedUndo)
    BY <1>4, <2>1 DEF IInv, Database, TypeOK
  <2>3. best # NoBlock => Stored(best, known', knownUndo')
    BY <1>1, <1>2, <2>2, StoredMonotone
  <2>4. best # NoBlock => best \in known'
    BY <2>2, <2>3, OnBranchReflexive DEF Stored, Branch
  <2>5. mode' = "run"
    BY <2>1, <2>4
  <2>6. TypeOK' /\ Genesis \notin savedUndo' \cup knownUndo'
    BY <1>1, <1>2, <2>1, <2>5 DEF IInv, TypeOK
  <2>7. Memory'
    BY <1>1, <1>2, <2>1, <2>2, <2>3 DEF Memory
  <2>8. Phases'
    BY <1>1, <1>4, <2>5 DEF Phases, writing
  <2> QED BY <1>3, <2>6, <2>7, <2>8 DEF IInv
<1>5. CASE heads # <<>>
  <2>1. heads[1] \in Block /\ heads[2] \in Block \cup {NoBlock} /\ heads[1] # NoBlock /\ coins \in Coins
    BY <1>5, CoinsFlushAssumption DEF IInv, TypeOK, Coins
  <2>2. /\ \A o \in Outpoint : coins[o] \in {CoinsAt(heads[1])[o], CoinsAt(heads[2])[o]}
        /\ Stored(heads[1], saved, savedUndo)
        /\ heads[2] # NoBlock => Stored(heads[2], saved, savedUndo)
    BY <1>5, <2>1 DEF IInv, Database
  <2>3. CanReplay(heads[1], heads[2])
    BY <2>1, <2>2, StoredCanReplay
  <2>4. Replayed(heads[1], heads[2]) = CoinsAt(heads[1])
    BY <2>1, <2>2, ReplayMixture
  <2>5. chain' = CoinsAt(heads[1]) /\ hashBlock' = heads[1] /\ mode' = "replay"
    BY <1>5, <2>3, <2>4 DEF Start, ReplayTarget
  <2>6. chain' \in Coins /\ Stored(heads[1], known', knownUndo')
    BY <1>1, <1>2, <2>1, <2>2, <2>5, CoinsAtType, StoredMonotone
  <2>7. TypeOK' /\ Genesis \notin savedUndo' \cup knownUndo'
    BY <1>1, <1>2, <2>1, <2>5, <2>6 DEF IInv, TypeOK, Coins
  <2>8. Memory'
    BY <1>1, <1>2, <2>5, <2>6 DEF Memory
  <2>9. Phases'
    BY <1>1, <1>5, <2>1, <2>2, <2>5 DEF Phases, writing
  <2> QED BY <1>3, <2>7, <2>8, <2>9 DEF IInv
<1> QED BY <1>4, <1>5

\* IInv holds at first and is kept by every step.
THEOREM InvariantHolds == Spec => []IInv
<1>1. Init => IInv
  <2> SUFFICES ASSUME Init PROVE IInv
    OBVIOUS
  <2>1. Nothing \in Coins
    BY CoinsAtType
  <2>2. CoinsAt(NoBlock) = Nothing
    BY DEF CoinsAt
  <2> QED BY <2>1, <2>2 DEF Init, IInv, TypeOK, Coins, Database, Memory, Phases, writing
<1>2. IInv /\ [Next]_vars => IInv'
  <2> SUFFICES ASSUME IInv, [Next]_vars PROVE IInv'
    OBVIOUS
  <2>1. ASSUME NEW b \in Block, AcceptBlock(b) \/ ConnectTip(b) PROVE IInv'
    BY <2>1, TipStays, ConnectTipKeeps
  <2>2. CASE DisconnectTip
    BY <2>2, DisconnectTipKeeps
  <2>3. CASE WriteBlockIndex \/ FlushStateToDisk
    BY <2>3, BlockTreeAssumption, TipStays
  <2>4. CASE Write
    BY <2>4, PartialBatchKeeps, FinalBatchKeeps DEF Write
  <2>5. CASE Crash \/ Start
    BY <2>5, CrashKeeps, StartKeeps
  <2>6. CASE UNCHANGED vars
    BY <2>6 DEF vars, db, blocktree, memory, IInv, TypeOK, Database, Memory, Phases, writing
  <2> QED BY <2>1, <2>2, <2>3, <2>4, <2>5, <2>6 DEF Next
<1> QED BY <1>1, <1>2, PTL DEF Spec

\* Every variable keeps its type.
THEOREM TypeCorrect == Spec => []TypeOK
<1>1. IInv => TypeOK
  BY DEF IInv
<1> QED BY <1>1, InvariantHolds, PTL

\* ReplayBlocks makes the coins of the new tip of whatever an interrupted flush,
\* or an interrupted replay, left in the coins database; a database that is not
\* in transition is that of its best block.
THEOREM DatabaseIsRecoverable == Spec => []Recoverable
<1>1. IInv => Recoverable
  <2> SUFFICES ASSUME IInv PROVE Recoverable
    OBVIOUS
  <2>1. CASE heads = <<>>
    BY <2>1 DEF IInv, Database, Recoverable
  <2>2. CASE heads # <<>>
    <3>1. heads[1] \in Block /\ heads[2] \in Block \cup {NoBlock} /\ coins \in Coins
      BY <2>2 DEF IInv, TypeOK, Coins
    <3>2. \A o \in Outpoint : coins[o] \in {CoinsAt(heads[1])[o], CoinsAt(heads[2])[o]}
      BY <2>2 DEF IInv, Database
    <3>3. Replayed(heads[1], heads[2]) = CoinsAt(heads[1])
      BY <3>1, <3>2, ReplayMixture
    <3> QED BY <2>2, <3>3 DEF Recoverable
  <2> QED BY <2>1, <2>2
<1> QED BY <1>1, InvariantHolds, PTL

\* The node computes with the coins of its tip, after any number of crashes, and
\* has every block its tip was built from.
THEOREM CoinsAreOfTip == Spec => []CoinsOfTip
<1>1. IInv => CoinsOfTip
  BY DEF IInv, Memory, CoinsOfTip, Stored
<1> QED BY <1>1, InvariantHolds, PTL

\* The assert of BatchWrite on the target of an interrupted flush never fails.
THEOREM TargetIsSame == Spec => []SameTarget
<1>1. IInv => SameTarget
  BY DEF IInv, Phases, SameTarget
<1> QED BY <1>1, InvariantHolds, PTL

\* AppInitMain never gives up: LoadChainTip finds the best block, and
\* ReplayBlocks can read every block and all undo data it needs.
THEOREM StartSucceeds == Spec => [](mode # "failed")
<1>1. IInv => mode # "failed"
  BY DEF IInv, Phases
<1> QED BY <1>1, InvariantHolds, PTL
=============================================================================
