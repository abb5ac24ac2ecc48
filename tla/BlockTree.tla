------------------------------ MODULE BlockTree ------------------------------
(***************************************************************************)
(* The tree of block headers (CBlockIndex in chain.h).  A block commits to *)
(* its whole ancestry through hashPrevBlock, so a block is identified with *)
(* its path from the genesis block: the genesis block is the empty         *)
(* sequence, and pprev drops the last element.  Block is every block that  *)
(* is ever seen; what the node knows of it is state (module ChainState).   *)
(***************************************************************************)
EXTENDS Integers, Sequences, FiniteSets

CONSTANTS
    Block,      \* the blocks, a prefix-closed set of paths
    nChainWork  \* cumulated proof of work of each block

Genesis == <<>>

nHeight(b) == Len(b)
pprev(b) == SubSeq(b, 1, Len(b) - 1)

\* GetAncestor: the block of b's branch at height h.
GetAncestor(b, h) == SubSeq(b, 1, h)

\* a is on the branch from the genesis block to b (b included).
OnBranch(a, b) == Len(a) <= Len(b) /\ SubSeq(b, 1, Len(a)) = a

Branch(b) == {a \in Block : OnBranch(a, b)}

ASSUME BlockTreeAssumption ==
    /\ Block \subseteq Seq(Nat)
    /\ IsFiniteSet(Block)
    /\ Genesis \in Block
    /\ \A b \in Block : \A h \in 0 .. nHeight(b) : GetAncestor(b, h) \in Block
    /\ nChainWork \in [Block -> Nat]
    /\ \A b \in Block : b # Genesis => nChainWork[b] >= nChainWork[pprev(b)]
=============================================================================
