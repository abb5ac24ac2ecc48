--------------------------- MODULE BlockTreeTheorems ---------------------------
(***************************************************************************)
(* Facts about ancestors, branches and parents in the block tree, for the  *)
(* proofs about the modules that extend BlockTree.                         *)
(***************************************************************************)
EXTENDS BlockTree, WellFoundedInduction, TLAPS

\* GetAncestor: its length and its elements.
LEMMA AncestorProperties ==
    ASSUME NEW b \in Seq(Nat), NEW h \in 0 .. Len(b)
    PROVE  /\ GetAncestor(b, h) \in Seq(Nat)
           /\ Len(GetAncestor(b, h)) = h
           /\ \A i \in 1 .. h : GetAncestor(b, h)[i] = b[i]
<1>1. \A i \in 1 .. h : b[i] \in Nat
  OBVIOUS
<1> QED BY <1>1 DEF GetAncestor

\* Two paths are equal when they agree element by element.
LEMMA PathExtensionality ==
    ASSUME NEW a \in Seq(Nat), NEW b \in Seq(Nat), Len(a) = Len(b),
           \A i \in 1 .. Len(a) : a[i] = b[i]
    PROVE  a = b
OBVIOUS

\* OnBranch element by element.
LEMMA OnBranchPointwise ==
    ASSUME NEW a \in Seq(Nat), NEW b \in Seq(Nat)
    PROVE  OnBranch(a, b) <=> Len(a) <= Len(b) /\ \A i \in 1 .. Len(a) : a[i] = b[i]
<1>1. CASE Len(a) <= Len(b)
  <2>1. Len(a) \in 0 .. Len(b)
    BY <1>1
  <2>2. /\ GetAncestor(b, Len(a)) \in Seq(Nat)
        /\ Len(GetAncestor(b, Len(a))) = Len(a)
        /\ \A i \in 1 .. Len(a) : GetAncestor(b, Len(a))[i] = b[i]
    BY <2>1, AncestorProperties
  <2>3. ASSUME \A i \in 1 .. Len(a) : a[i] = b[i] PROVE GetAncestor(b, Len(a)) = a
    BY <2>2, <2>3, PathExtensionality
  <2> QED BY ZenonT(60), <1>1, <2>2, <2>3 DEF OnBranch, GetAncestor
<1>2. CASE ~(Len(a) <= Len(b))
  BY <1>2 DEF OnBranch
<1> QED BY <1>1, <1>2

\* OnBranch is a partial order whose down-sets are chains.
LEMMA OnBranchReflexive ==
    ASSUME NEW b \in Block
    PROVE  OnBranch(b, b)
BY BlockTreeAssumption, OnBranchPointwise

\* An ancestor of an ancestor is an ancestor.
LEMMA OnBranchTransitive ==
    ASSUME NEW a \in Block, NEW b \in Block, NEW c \in Block, OnBranch(a, b), OnBranch(b, c)
    PROVE  OnBranch(a, c)
<1>1. a \in Seq(Nat) /\ b \in Seq(Nat) /\ c \in Seq(Nat)
  BY BlockTreeAssumption
<1>2. Len(a) \in Nat /\ Len(b) \in Nat /\ Len(c) \in Nat
  BY <1>1
<1> QED BY <1>1, <1>2, OnBranchPointwise

\* Two blocks that are ancestors of each other are the same block.
LEMMA OnBranchAntisymmetric ==
    ASSUME NEW a \in Block, NEW b \in Block, OnBranch(a, b), Len(b) <= Len(a)
    PROVE  a = b
<1>1. a \in Seq(Nat) /\ b \in Seq(Nat)
  BY BlockTreeAssumption
<1>2. Len(a) \in Nat /\ Len(b) \in Nat
  BY <1>1
<1> QED BY <1>1, <1>2, OnBranchPointwise, PathExtensionality

\* Of two ancestors of a block, the lower one is an ancestor of the higher one.
LEMMA AncestorsComparable ==
    ASSUME NEW a \in Block, NEW b \in Block, NEW c \in Block,
           OnBranch(a, c), OnBranch(b, c), Len(a) <= Len(b)
    PROVE  OnBranch(a, b)
<1>1. a \in Seq(Nat) /\ b \in Seq(Nat) /\ c \in Seq(Nat)
  BY BlockTreeAssumption
<1>2. Len(a) \in Nat /\ Len(b) \in Nat /\ Len(c) \in Nat
  BY <1>1
<1> QED BY <1>1, <1>2, OnBranchPointwise

\* GetAncestor(b, h) is the block of b's branch at height h.
LEMMA AncestorOnBranch ==
    ASSUME NEW b \in Block, NEW h \in 0 .. nHeight(b)
    PROVE  /\ GetAncestor(b, h) \in Block
           /\ nHeight(GetAncestor(b, h)) = h
           /\ OnBranch(GetAncestor(b, h), b)
<1>1. b \in Seq(Nat) /\ GetAncestor(b, h) \in Block
  BY BlockTreeAssumption
<1>2. h \in 0 .. Len(b) /\ Len(b) \in Nat
  BY <1>1 DEF nHeight
<1>3. GetAncestor(b, h) \in Seq(Nat)
  BY <1>1, BlockTreeAssumption
<1>4. /\ Len(GetAncestor(b, h)) = h
      /\ \A i \in 1 .. h : GetAncestor(b, h)[i] = b[i]
  BY <1>1, <1>2, AncestorProperties
<1>5. OnBranch(GetAncestor(b, h), b)
  BY <1>1, <1>2, <1>3, <1>4, OnBranchPointwise
<1> QED BY <1>1, <1>4, <1>5 DEF nHeight

\* GetAncestor returns the only ancestor of its height.
LEMMA AncestorUnique ==
    ASSUME NEW a \in Block, NEW b \in Block, OnBranch(a, b)
    PROVE  GetAncestor(b, nHeight(a)) = a
BY DEF OnBranch, GetAncestor, nHeight

\* Heights, and the genesis block.
LEMMA Heights ==
    ASSUME NEW b \in Block
    PROVE  /\ nHeight(b) \in Nat
           /\ nHeight(b) = 0 <=> b = Genesis
           /\ OnBranch(Genesis, b)
<1>1. b \in Seq(Nat) /\ Genesis \in Seq(Nat) /\ Len(Genesis) = 0
  BY BlockTreeAssumption DEF Genesis
<1>2. Len(b) \in Nat
  BY <1>1
<1>3. Len(b) = 0 <=> b = Genesis
  BY <1>1, PathExtensionality DEF Genesis
<1>4. OnBranch(Genesis, b)
  <2>1. Len(Genesis) <= Len(b) /\ \A i \in 1 .. Len(Genesis) : Genesis[i] = b[i]
    BY <1>1, <1>2
  <2> QED BY ZenonT(60), <1>1, <2>1, OnBranchPointwise
<1> QED BY <1>2, <1>3, <1>4 DEF nHeight

\* A block's parent is the rest of its branch.
LEMMA Parent ==
    ASSUME NEW b \in Block, b # Genesis
    PROVE  /\ pprev(b) \in Block
           /\ nHeight(pprev(b)) = nHeight(b) - 1
           /\ OnBranch(pprev(b), b)
           /\ \A a \in Block : OnBranch(a, b) /\ a # b => OnBranch(a, pprev(b))
<1>1. nHeight(b) \in Nat /\ nHeight(b) # 0
  BY Heights
<1>2. nHeight(b) - 1 \in 0 .. nHeight(b)
  BY <1>1
<1>3. pprev(b) = GetAncestor(b, nHeight(b) - 1)
  BY DEF pprev, GetAncestor, nHeight
<1>4. /\ pprev(b) \in Block
      /\ nHeight(pprev(b)) = nHeight(b) - 1
      /\ OnBranch(pprev(b), b)
  BY <1>2, <1>3, AncestorOnBranch
<1>5. ASSUME NEW a \in Block, OnBranch(a, b), a # b PROVE OnBranch(a, pprev(b))
  <2>1. Len(a) \in Nat /\ Len(b) \in Nat /\ Len(a) <= Len(b)
    BY <1>5, Heights DEF nHeight, OnBranch
  <2>2. Len(a) # Len(b)
    BY <1>5, <2>1, OnBranchAntisymmetric
  <2> QED BY <1>4, <1>5, <2>1, <2>2, AncestorsComparable DEF nHeight
<1> QED BY <1>4, <1>5
\* A set of naturals that is not empty has a least element.
LEMMA LeastNatural ==
    ASSUME NEW S, S \subseteq Nat, S # {}
    PROVE  \E m \in S : \A n \in S : m <= n
<1>1. PICK m \in S : \A n \in S : ~(<<n, m>> \in OpToRel(<, Nat))
  BY ZenonT(60), WFMin, NatLessThanWellFounded
<1>2. \A n \in S : n < m => <<n, m>> \in OpToRel(<, Nat)
  BY DEF OpToRel
<1>3. \A n \in S : ~(n < m)
  BY ZenonT(60), <1>1, <1>2
<1> QED BY <1>3

\* Two branches have a last block in common, and what they share is its branch.
LEMMA LastCommon ==
    ASSUME NEW a \in Block, NEW b \in Block
    PROVE  /\ \E f \in Branch(a) \cap Branch(b) :
                 \A g \in Branch(a) \cap Branch(b) : nHeight(g) <= nHeight(f)
           /\ \A f \in Branch(a) \cap Branch(b) :
                 (\A g \in Branch(a) \cap Branch(b) : nHeight(g) <= nHeight(f))
                 => \A g \in Block : OnBranch(g, a) /\ OnBranch(g, b) => OnBranch(g, f)
<1> DEFINE C == Branch(a) \cap Branch(b)
           S == {nHeight(a) - nHeight(f) : f \in C}
<1>1. C \subseteq Block /\ \A f \in C : OnBranch(f, a) /\ OnBranch(f, b)
  BY DEF Branch
<1>2. Genesis \in C
  BY Heights, BlockTreeAssumption DEF Branch
<1>3. \A f \in C : nHeight(f) \in Nat /\ nHeight(f) <= nHeight(a)
  BY <1>1, Heights DEF OnBranch, nHeight
<1>4. nHeight(a) \in Nat
  BY Heights
<1>5. S \subseteq Nat /\ S # {}
  BY <1>2, <1>3, <1>4
<1>6. PICK m \in S : \A n \in S : m <= n
  BY <1>5, LeastNatural
<1>7. PICK f \in C : m = nHeight(a) - nHeight(f)
  BY <1>6
<1>8. ASSUME NEW g \in C PROVE nHeight(g) <= nHeight(f)
  <2>1. nHeight(a) - nHeight(g) \in S
    OBVIOUS
  <2>2. nHeight(a) - nHeight(f) <= nHeight(a) - nHeight(g)
    BY <1>6, <1>7, <2>1
  <2> HIDE DEF C, S
  <2> QED BY <1>3, <1>4, <2>2
<1>9. ASSUME NEW h \in C, \A g \in C : nHeight(g) <= nHeight(h),
             NEW g \in Block, OnBranch(g, a), OnBranch(g, b)
      PROVE  OnBranch(g, h)
  <2>1. g \in C
    BY <1>9 DEF Branch
  <2> QED BY <1>1, <1>9, <2>1, AncestorsComparable DEF nHeight
<1> QED BY <1>7, <1>8, <1>9
=============================================================================
