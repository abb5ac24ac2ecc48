------------------------- MODULE BlockDownloadProofs -------------------------
(***************************************************************************)
(* The theorems about the download of blocks (module BlockDownload), for   *)
(* every tree of blocks, every set of peers, whatever they announce and    *)
(* have, and every limit.                                                  *)
(*                                                                         *)
(* The bookkeeping is a record that the handlers pass through one function *)
(* after another, so most of the argument is about those functions: each   *)
(* of them leaves an exact bookkeeping exact (Exact).  What remains ties   *)
(* the bookkeeping to the requests that are open and to the chain.  Then   *)
(* every action preserves the inductive invariant: first the actions that  *)
(* leave the blocks in flight alone, then those that take blocks out of    *)
(* flight or put them there, then the handlers of compact blocks.          *)
(***************************************************************************)
EXTENDS BlockDownload, BlockTreeTheorems, FiniteSetTheorems

-----------------------------------------------------------------------------
(* The inductive invariant.                                                *)

MaybeBlock == Block \cup {NoBlock}

NodeState ==
    [kind : {"inbound", "whitelisted", "outbound"},
     pindexBestKnownBlock : MaybeBlock, hashLastUnknownBlock : MaybeBlock,
     pindexLastCommonBlock : MaybeBlock,
     vBlocksInFlight : SUBSET Block, partialBlock : SUBSET Block,
     nBlocksInFlight : Int, nBlocksInFlightValidHeaders : Int,
     nStallingSince : BOOLEAN,
     fPreferredDownload : BOOLEAN, fSyncStarted : BOOLEAN,
     nHeadersSyncTimeout : {"zero", "armed", "never"},
     fShouldBan : BOOLEAN, fSuccessfullyConnected : BOOLEAN]

Nodes(d) == DOMAIN d.mapNodeState
Flying(d) == DOMAIN d.mapBlocksInFlight

Shaped(d) ==
    [mapNodeState : {d.mapNodeState}, mapBlocksInFlight : {d.mapBlocksInFlight},
     nPeersWithValidatedDownloads : Int, nPreferredDownload : Int, nSyncStarted : Int]

Books(d) ==
    /\ Nodes(d) \subseteq Peer /\ d.mapNodeState \in [Nodes(d) -> NodeState]
    /\ Flying(d) \subseteq Block /\ d.mapBlocksInFlight \in [Flying(d) -> Nodes(d)]
    /\ d \in Shaped(d)

HeldBy(d, p) == {b \in Flying(d) : d.mapBlocksInFlight[b] = p}

Downloading(d) == {p \in Nodes(d) : d.mapNodeState[p].vBlocksInFlight # {}}
Preferred(d) == {p \in Nodes(d) : d.mapNodeState[p].fPreferredDownload}
Started(d) == {p \in Nodes(d) : d.mapNodeState[p].fSyncStarted}

\* The state s of a peer that holds the blocks of held.
NodeExact(s, held) ==
    /\ s.vBlocksInFlight = held
    /\ s.nBlocksInFlight = Cardinality(held)
    /\ s.nBlocksInFlightValidHeaders = Cardinality(held)
    /\ Cardinality(held) <= MAX_BLOCKS_IN_TRANSIT_PER_PEER
    /\ s.partialBlock \subseteq held
    /\ s.nStallingSince => held # {}
    /\ s.fPreferredDownload => s.fSuccessfullyConnected

Exact(d) ==
    /\ Books(d)
    /\ IsFiniteSet(Nodes(d))
    /\ \A p \in Nodes(d) : NodeExact(d.mapNodeState[p], HeldBy(d, p))
    /\ d.nPeersWithValidatedDownloads = Cardinality(Downloading(d))
    /\ d.nPreferredDownload = Cardinality(Preferred(d))
    /\ d.nSyncStarted = Cardinality(Started(d))

Request == [kind : {"block", "cmpct", "txn", "headers"}, from : Block, to : Block]

\* The chain as the download sees it: branches of headers, a tip that is there.
ChainInv ==
    /\ data \subseteq headers /\ headers \subseteq Block
    /\ \A b \in headers : Branch(b) \subseteq headers
    /\ Genesis \in data
    /\ bestHeader \in headers
    /\ tip \in data /\ Linked(tip)

\* The threads: what is asked, and for whom the message thread works.
ThreadInv ==
    /\ fDisconnect \subseteq Connected /\ gone \subseteq Peer \ Connected
    /\ asked \in [Peer -> SUBSET Request]
    /\ handler = Idle \/ handler \in [step : {"process", "fill", "reconstructed", "release"},
                                      peer : Connected, block : Block \ {Genesis}, forced : BOOLEAN]
    /\ unasked \in 0 .. MaxUnasked

\* The blocks that the bookkeeping names have headers, and the walk of a peer
\* starts from a block whose branch is there.
Pointed(d, index, have) ==
    \A p \in Nodes(d) :
        LET s == d.mapNodeState[p]
        IN  /\ s.pindexBestKnownBlock # NoBlock => s.pindexBestKnownBlock \in index
            /\ s.pindexLastCommonBlock # NoBlock =>
                  s.pindexLastCommonBlock \in Block /\ Branch(s.pindexLastCommonBlock) \subseteq have

NamedInv == Flying(dl) \subseteq headers /\ Pointed(dl, headers, data)

\* A compact block of b from p is complete and about to be filled in.
Filling(h, p, b) == h.step = "fill" /\ h.peer = p /\ h.block = b

\* The requests that are open for a block in flight: once a compact block has
\* come for it, its transactions or the block, and before that one of the two.
Expects(d, a, h, have, p, b) ==
    \/ b \in have
    \/ GetData(b) \in a[p]
    \/ IF b \in d.mapNodeState[p].partialBlock
       THEN GetBlockTxn(b) \in a[p] \/ Filling(h, p, b)
       ELSE GetCompact(b) \in a[p]

Expecting(d, a, h, have) ==
    /\ \A b \in Flying(d) : Expects(d, a, h, have, d.mapBlocksInFlight[b], b)
    /\ h.step = "fill" => h.block \in d.mapNodeState[h.peer].partialBlock

ExpectedInv == Expecting(dl, asked, handler, data)

IInv == Exact(dl) /\ ChainInv /\ ThreadInv /\ NamedInv /\ ExpectedInv

-----------------------------------------------------------------------------
(* Counting.                                                               *)

\* Two subsets of a finite set that differ in p at most.
LEMMA CountChange ==
    ASSUME NEW S, IsFiniteSet(S), NEW A \in SUBSET S, NEW B \in SUBSET S, NEW p,
           \A q : q # p => (q \in A <=> q \in B)
    PROVE  Cardinality(B) = Cardinality(A) + Flag(p \in B) - Flag(p \in A)
<1>1. IsFiniteSet(A) /\ IsFiniteSet(B)
  BY FS_Subset
<1>2. Cardinality(A) \in Nat /\ Cardinality(B) \in Nat
  BY <1>1, FS_CardinalityType
<1>3. CASE p \in A <=> p \in B
  <2>1. A = B
    BY <1>3
  <2> QED BY <1>2, <2>1 DEF Flag
<1>4. CASE p \in A /\ p \notin B
  <2>1. A = B \cup {p}
    BY <1>4
  <2>2. Cardinality(A) = Cardinality(B) + 1
    BY <1>1, <1>4, <2>1, FS_AddElement
  <2> QED BY <1>2, <1>4, <2>2 DEF Flag
<1>5. CASE p \notin A /\ p \in B
  <2>1. B = A \cup {p}
    BY <1>5
  <2>2. Cardinality(B) = Cardinality(A) + 1
    BY <1>1, <1>5, <2>1, FS_AddElement
  <2> QED BY <1>2, <1>5, <2>2 DEF Flag
<1> QED BY <1>3, <1>4, <1>5

\* What a peer holds is a finite set of blocks.
LEMMA HeldFinite ==
    ASSUME NEW d, Books(d), NEW p
    PROVE  HeldBy(d, p) \subseteq Block /\ IsFiniteSet(HeldBy(d, p)) /\ Cardinality(HeldBy(d, p)) \in Nat
<1>1. HeldBy(d, p) \subseteq Block
  BY DEF HeldBy, Books, Shaped
<1>2. IsFiniteSet(HeldBy(d, p))
  BY <1>1, BlockTreeAssumption, FS_Subset
<1> QED BY <1>1, <1>2, FS_CardinalityType

\* The bookkeeping e differs from d in the state and the blocks of p only, and
\* the counters follow p.
LEMMA OneNode ==
    ASSUME NEW d, Exact(d), NEW e, Books(e), NEW p \in Nodes(d),
           Nodes(e) = Nodes(d),
           \A q \in Nodes(d) \ {p} : e.mapNodeState[q] = d.mapNodeState[q] /\ HeldBy(e, q) = HeldBy(d, q),
           NodeExact(e.mapNodeState[p], HeldBy(e, p)),
           e.nPeersWithValidatedDownloads = d.nPeersWithValidatedDownloads
               + Flag(HeldBy(e, p) # {}) - Flag(HeldBy(d, p) # {}),
           e.nPreferredDownload = d.nPreferredDownload
               + Flag(e.mapNodeState[p].fPreferredDownload) - Flag(d.mapNodeState[p].fPreferredDownload),
           e.nSyncStarted = d.nSyncStarted
               + Flag(e.mapNodeState[p].fSyncStarted) - Flag(d.mapNodeState[p].fSyncStarted)
    PROVE  Exact(e)
<1>1. IsFiniteSet(Nodes(d))
  BY DEF Exact
<1>2. \A q \in Nodes(e) : NodeExact(e.mapNodeState[q], HeldBy(e, q))
  BY DEF Exact
<1>3. e.nPeersWithValidatedDownloads = Cardinality(Downloading(e))
  <2>1. Downloading(e) \in SUBSET Nodes(d) /\ Downloading(d) \in SUBSET Nodes(d)
    BY DEF Downloading
  <2>2. \A q : q # p => (q \in Downloading(d) <=> q \in Downloading(e))
    BY DEF Downloading
  <2>3. Cardinality(Downloading(e)) = Cardinality(Downloading(d))
            + Flag(p \in Downloading(e)) - Flag(p \in Downloading(d))
    BY <1>1, <2>1, <2>2, CountChange
  <2>4. (p \in Downloading(e) <=> HeldBy(e, p) # {}) /\ (p \in Downloading(d) <=> HeldBy(d, p) # {})
    BY DEF Downloading, NodeExact, Exact
  <2> QED BY <2>3, <2>4 DEF Exact, Flag
<1>4. e.nPreferredDownload = Cardinality(Preferred(e))
  <2>1. Preferred(e) \in SUBSET Nodes(d) /\ Preferred(d) \in SUBSET Nodes(d)
    BY DEF Preferred
  <2>2. \A q : q # p => (q \in Preferred(d) <=> q \in Preferred(e))
    BY DEF Preferred
  <2>3. Cardinality(Preferred(e)) = Cardinality(Preferred(d)) + Flag(p \in Preferred(e)) - Flag(p \in Preferred(d))
    BY <1>1, <2>1, <2>2, CountChange
  <2>4. /\ p \in Preferred(e) <=> e.mapNodeState[p].fPreferredDownload
        /\ p \in Preferred(d) <=> d.mapNodeState[p].fPreferredDownload
    BY ZenonT(60) DEF Preferred
  <2> QED BY <2>3, <2>4 DEF Exact, Flag
<1>5. e.nSyncStarted = Cardinality(Started(e))
  <2>1. Started(e) \in SUBSET Nodes(d) /\ Started(d) \in SUBSET Nodes(d)
    BY DEF Started
  <2>2. \A q : q # p => (q \in Started(d) <=> q \in Started(e))
    BY DEF Started
  <2>3. Cardinality(Started(e)) = Cardinality(Started(d)) + Flag(p \in Started(e)) - Flag(p \in Started(d))
    BY <1>1, <2>1, <2>2, CountChange
  <2>4. /\ p \in Started(e) <=> e.mapNodeState[p].fSyncStarted
        /\ p \in Started(d) <=> d.mapNodeState[p].fSyncStarted
    BY ZenonT(60) DEF Started
  <2> QED BY <2>3, <2>4 DEF Exact, Flag
<1> QED BY <1>1, <1>2, <1>3, <1>4, <1>5 DEF Exact

-----------------------------------------------------------------------------
(* The functions on the bookkeeping.                                       *)

\* A peer's state, field by field.
LEMMA NodeFields ==
    ASSUME NEW s \in NodeState
    PROVE  /\ s.pindexBestKnownBlock \in MaybeBlock /\ s.hashLastUnknownBlock \in MaybeBlock
           /\ s.pindexLastCommonBlock \in MaybeBlock
           /\ s.vBlocksInFlight \subseteq Block /\ s.partialBlock \subseteq Block
           /\ s.nBlocksInFlight \in Int /\ s.nBlocksInFlightValidHeaders \in Int
           /\ s.nStallingSince \in BOOLEAN /\ s.fPreferredDownload \in BOOLEAN
           /\ s.fSyncStarted \in BOOLEAN /\ s.fShouldBan \in BOOLEAN
           /\ s.fSuccessfullyConnected \in BOOLEAN
BY DEF NodeState

\* t has what the bookkeeping counts of s.
SameCounts(s, t) ==
    /\ t \in NodeState
    /\ t.vBlocksInFlight = s.vBlocksInFlight
    /\ t.nBlocksInFlight = s.nBlocksInFlight
    /\ t.nBlocksInFlightValidHeaders = s.nBlocksInFlightValidHeaders
    /\ t.partialBlock = s.partialBlock
    /\ t.nStallingSince = s.nStallingSince
    /\ t.fPreferredDownload = s.fPreferredDownload
    /\ t.fSyncStarted = s.fSyncStarted
    /\ t.fSuccessfullyConnected = s.fSuccessfullyConnected

\* What else the functions may leave alone: the blocks that a peer is known to
\* have, and the blocks in flight.
SamePointers(d, e) ==
    /\ Nodes(e) = Nodes(d)
    /\ \A q \in Nodes(d) :
          /\ e.mapNodeState[q].pindexBestKnownBlock = d.mapNodeState[q].pindexBestKnownBlock
          /\ e.mapNodeState[q].pindexLastCommonBlock = d.mapNodeState[q].pindexLastCommonBlock

SameFlights(d, e) ==
    /\ Nodes(e) = Nodes(d)
    /\ e.mapBlocksInFlight = d.mapBlocksInFlight
    /\ \A q \in Nodes(d) : e.mapNodeState[q].partialBlock = d.mapNodeState[q].partialBlock

\* What MarkBlockAsReceived leaves in a peer's CNodeState, field by field.
LEMMA ReleasedFields ==
    ASSUME NEW s \in NodeState, NEW b
    PROVE  LET t == Released(s, b)
           IN  /\ t \in NodeState
               /\ t.vBlocksInFlight = s.vBlocksInFlight \ {b}
               /\ t.partialBlock = s.partialBlock \ {b}
               /\ t.nBlocksInFlight = s.nBlocksInFlight - 1
               /\ t.nBlocksInFlightValidHeaders = s.nBlocksInFlightValidHeaders - 1
               /\ t.nStallingSince = FALSE
               /\ t.fPreferredDownload = s.fPreferredDownload
               /\ t.fSyncStarted = s.fSyncStarted
               /\ t.fSuccessfullyConnected = s.fSuccessfullyConnected
               /\ t.pindexBestKnownBlock = s.pindexBestKnownBlock
               /\ t.pindexLastCommonBlock = s.pindexLastCommonBlock
<1>1. /\ s.vBlocksInFlight \ {b} \in SUBSET Block /\ s.partialBlock \ {b} \in SUBSET Block
      /\ s.nBlocksInFlight - 1 \in Int /\ s.nBlocksInFlightValidHeaders - 1 \in Int
  BY NodeFields
<1>2. Released(s, b) \in NodeState
  BY ZenonT(60), <1>1 DEF Released, NodeState
<1> QED BY ZenonT(60), <1>2 DEF Released, NodeState

\* The block b, if it was in flight, is not any more.
Dropped(d, e, b) ==
    /\ SamePointers(d, e)
    /\ Flying(e) = Flying(d) \ {b}
    /\ \A c \in Flying(e) : e.mapBlocksInFlight[c] = d.mapBlocksInFlight[c]
    /\ \A q \in Nodes(d) : e.mapNodeState[q].partialBlock = d.mapNodeState[q].partialBlock \ {b}

\* The blocks are in flight, from p if they were not before.
Added(d, e, p, blocks) ==
    /\ SamePointers(d, e)
    /\ Flying(e) = Flying(d) \cup blocks
    /\ \A c \in Flying(e) :
          e.mapBlocksInFlight[c] = IF c \in Flying(d) THEN d.mapBlocksInFlight[c] ELSE p
    /\ \A q \in Nodes(d) : e.mapNodeState[q].partialBlock = d.mapNodeState[q].partialBlock

\* The limit of p leaves room for those of the blocks that are not in flight.
HasRoom(d, p, blocks) ==
    Cardinality(HeldBy(d, p)) + Cardinality({b \in blocks : ~InFlight(d, b)})
        <= MAX_BLOCKS_IN_TRANSIT_PER_PEER

\* MarkBlockAsReceived takes the block out of flight, whoever holds it.
LEMMA ReceivedExact ==
    ASSUME NEW d, Exact(d), NEW b
    PROVE  LET e == MarkBlockAsReceived(d, b)
           IN  Exact(e) /\ Dropped(d, e, b)
<1> DEFINE e == MarkBlockAsReceived(d, b)
<1>0. Books(d)
  BY DEF Exact
<1>p. \A q \in Nodes(d) : d.mapNodeState[q] \in NodeState /\ d.mapNodeState[q].partialBlock \subseteq HeldBy(d, q)
  BY <1>0 DEF Exact, NodeExact, Books, Shaped
<1>1. CASE ~InFlight(d, b)
  <2>1. e = d
    BY <1>1 DEF MarkBlockAsReceived
  <2>2. b \notin Flying(d)
    BY <1>1 DEF InFlight, Flying
  <2>3. \A q \in Nodes(d) : d.mapNodeState[q].partialBlock = d.mapNodeState[q].partialBlock \ {b}
    BY <1>p, <2>2 DEF HeldBy
  <2> QED BY <2>1, <2>2, <2>3 DEF SamePointers, Dropped
<1>2. CASE InFlight(d, b)
  <2> DEFINE p == d.mapBlocksInFlight[b]
             s == d.mapNodeState[p]
             t == Released(s, b)
  <2>1. b \in Flying(d) /\ p \in Nodes(d) /\ p \in Peer
    BY <1>0, <1>2 DEF InFlight, Flying, Books, Shaped
  <2>2. s \in NodeState
    BY <1>p, <2>1
  <2>3. /\ t \in NodeState
        /\ t.vBlocksInFlight = s.vBlocksInFlight \ {b}
        /\ t.partialBlock = s.partialBlock \ {b}
        /\ t.nBlocksInFlight = s.nBlocksInFlight - 1
        /\ t.nBlocksInFlightValidHeaders = s.nBlocksInFlightValidHeaders - 1
        /\ t.nStallingSince = FALSE
        /\ t.fPreferredDownload = s.fPreferredDownload
        /\ t.fSyncStarted = s.fSyncStarted
        /\ t.fSuccessfullyConnected = s.fSuccessfullyConnected
        /\ t.pindexBestKnownBlock = s.pindexBestKnownBlock
        /\ t.pindexLastCommonBlock = s.pindexLastCommonBlock
    BY ZenonT(60), <2>2, ReleasedFields
  <2>4. e = [d EXCEPT
                !.mapNodeState[p] = t,
                !.nPeersWithValidatedDownloads = IF t.nBlocksInFlightValidHeaders = 0 THEN @ - 1 ELSE @,
                !.mapBlocksInFlight = [c \in DOMAIN @ \ {b} |-> @[c]]]
    BY <1>2 DEF MarkBlockAsReceived
  <2> HIDE DEF e, p, t
  <2>a. /\ e.mapNodeState = [d.mapNodeState EXCEPT ![p] = t]
        /\ e.mapBlocksInFlight = [c \in Flying(d) \ {b} |-> d.mapBlocksInFlight[c]]
        /\ e.nPeersWithValidatedDownloads = IF t.nBlocksInFlightValidHeaders = 0
              THEN d.nPeersWithValidatedDownloads - 1 ELSE d.nPeersWithValidatedDownloads
        /\ e.nPreferredDownload = d.nPreferredDownload
        /\ e.nSyncStarted = d.nSyncStarted
    BY ZenonT(60), <1>0, <2>4 DEF Books, Shaped, Flying
  <2>b. /\ e.nPeersWithValidatedDownloads \in Int /\ e.nPreferredDownload \in Int /\ e.nSyncStarted \in Int
    BY <1>0, <2>a DEF Books, Shaped
  <2>c. e \in Shaped(e)
    BY ZenonT(60), <1>0, <2>4, <2>b DEF Books, Shaped
  <2>5. /\ Books(e) /\ Nodes(e) = Nodes(d)
        /\ e.mapNodeState[p] = t
        /\ \A q \in Nodes(d) \ {p} : e.mapNodeState[q] = d.mapNodeState[q]
        /\ Flying(e) = Flying(d) \ {b}
        /\ \A c \in Flying(e) : e.mapBlocksInFlight[c] = d.mapBlocksInFlight[c]
        /\ e.nPeersWithValidatedDownloads = d.nPeersWithValidatedDownloads
               - (IF t.nBlocksInFlightValidHeaders = 0 THEN 1 ELSE 0)
        /\ e.nPreferredDownload = d.nPreferredDownload
        /\ e.nSyncStarted = d.nSyncStarted
    BY <1>0, <2>1, <2>3, <2>a, <2>c DEF Books, Shaped, Nodes, Flying
  <2>6. HeldBy(e, p) = HeldBy(d, p) \ {b} /\ b \in HeldBy(d, p)
    BY <2>1, <2>5 DEF HeldBy, p
  <2>7. \A q \in Nodes(d) \ {p} : HeldBy(e, q) = HeldBy(d, q)
    BY <2>1, <2>5 DEF HeldBy, p
  <2>8. /\ IsFiniteSet(HeldBy(d, p)) /\ Cardinality(HeldBy(d, p)) \in Nat
        /\ Cardinality(HeldBy(e, p)) = Cardinality(HeldBy(d, p)) - 1
        /\ Cardinality(HeldBy(e, p)) = 0 <=> HeldBy(e, p) = {}
    <3>1. IsFiniteSet(HeldBy(d, p)) /\ Cardinality(HeldBy(d, p)) \in Nat /\ IsFiniteSet(HeldBy(e, p))
      BY <1>0, <2>5, HeldFinite
    <3>2. Cardinality(HeldBy(e, p)) = Cardinality(HeldBy(d, p)) - 1
      BY <2>6, <3>1, FS_RemoveElement
    <3>3. Cardinality(HeldBy(e, p)) = 0 <=> HeldBy(e, p) = {}
      BY <3>1, FS_EmptySet
    <3> QED BY <3>1, <3>2, <3>3
  <2>9. NodeExact(s, HeldBy(d, p))
    BY <2>1 DEF Exact
  <2>10. NodeExact(e.mapNodeState[p], HeldBy(e, p))
    BY <2>3, <2>5, <2>6, <2>8, <2>9, BlockDownloadAssumption DEF NodeExact
  <2>11. /\ Flag(HeldBy(d, p) # {}) = 1
         /\ Flag(HeldBy(e, p) # {}) = IF t.nBlocksInFlightValidHeaders = 0 THEN 0 ELSE 1
    BY <2>3, <2>6, <2>8, <2>9 DEF NodeExact, Flag
  <2>12. d.nPeersWithValidatedDownloads \in Int /\ d.nPreferredDownload \in Int /\ d.nSyncStarted \in Int
    BY <1>0 DEF Books, Shaped
  <2>13. e.nPeersWithValidatedDownloads = d.nPeersWithValidatedDownloads
            + Flag(HeldBy(e, p) # {}) - Flag(HeldBy(d, p) # {})
    BY <2>5, <2>11, <2>12
  <2>14. Exact(e)
    BY <2>1, <2>3, <2>5, <2>7, <2>10, <2>12, <2>13, OneNode DEF Flag
  <2>15. SamePointers(d, e)
    BY <2>3, <2>5 DEF SamePointers
  <2>16. \A q \in Nodes(d) : e.mapNodeState[q].partialBlock = d.mapNodeState[q].partialBlock \ {b}
    <3> TAKE q \in Nodes(d)
    <3>1. CASE q = p
      BY <2>3, <2>5, <3>1
    <3>2. CASE q # p
      BY <1>p, <2>5, <3>2 DEF HeldBy, p
    <3> QED BY <3>1, <3>2
  <2> QED BY <2>5, <2>14, <2>15, <2>16 DEF e, Dropped
<1> QED BY <1>1, <1>2

\* What MarkBlockAsInFlight leaves in a peer's CNodeState for a set of new blocks.
LEMMA ListedFields ==
    ASSUME NEW s \in NodeState, NEW new \in SUBSET Block
    PROVE  LET t == Listed(s, new)
           IN  /\ t \in NodeState
               /\ t.vBlocksInFlight = s.vBlocksInFlight \cup new
               /\ t.partialBlock = s.partialBlock
               /\ t.nBlocksInFlight = s.nBlocksInFlight + Cardinality(new)
               /\ t.nBlocksInFlightValidHeaders = s.nBlocksInFlightValidHeaders + Cardinality(new)
               /\ t.nStallingSince = s.nStallingSince
               /\ t.fPreferredDownload = s.fPreferredDownload
               /\ t.fSyncStarted = s.fSyncStarted
               /\ t.fSuccessfullyConnected = s.fSuccessfullyConnected
               /\ t.pindexBestKnownBlock = s.pindexBestKnownBlock
               /\ t.pindexLastCommonBlock = s.pindexLastCommonBlock
<1>0. Cardinality(new) \in Nat
  BY BlockTreeAssumption, FS_Subset, FS_CardinalityType
<1>1. /\ s.vBlocksInFlight \cup new \in SUBSET Block
      /\ s.nBlocksInFlight + Cardinality(new) \in Int
      /\ s.nBlocksInFlightValidHeaders + Cardinality(new) \in Int
  BY <1>0, NodeFields
<1>2. Listed(s, new) \in NodeState
  BY ZenonT(60), <1>1 DEF Listed, NodeState
<1> QED BY ZenonT(60), <1>2 DEF Listed, NodeState

\* MarkBlockAsInFlight gives p the blocks that nobody holds, up to its limit.
LEMMA InFlightMarked ==
    ASSUME NEW d, Exact(d), NEW p \in Nodes(d), NEW blocks \in SUBSET Block, HasRoom(d, p, blocks)
    PROVE  LET e == MarkBlockAsInFlight(d, p, blocks)
           IN  Exact(e) /\ Added(d, e, p, blocks)
<1> DEFINE e == MarkBlockAsInFlight(d, p, blocks)
           new == {b \in blocks : ~InFlight(d, b)}
           s == d.mapNodeState[p]
           t == Listed(s, new)
<1>0. Books(d) /\ s \in NodeState /\ p \in Peer /\ NodeExact(s, HeldBy(d, p))
  BY DEF Exact, Books, Shaped
<1>1. new \in SUBSET Block /\ new \cap Flying(d) = {} /\ Flying(d) \cup blocks = Flying(d) \cup new
  BY DEF InFlight, Flying
<1>2. CASE new = {}
  <2>1. e = d
    BY <1>2 DEF MarkBlockAsInFlight
  <2>2. Flying(d) \cup blocks = Flying(d)
    BY <1>1, <1>2
  <2> QED BY <2>1, <2>2 DEF SamePointers, Added
<1>3. CASE new # {}
  <2>1. e = [d EXCEPT
                !.mapNodeState[p] = t,
                !.nPeersWithValidatedDownloads =
                    IF s.nBlocksInFlightValidHeaders = 0 THEN @ + 1 ELSE @,
                !.mapBlocksInFlight =
                    [c \in DOMAIN @ \cup new |-> IF c \in new THEN p ELSE @[c]]]
    BY ZenonT(60), <1>3 DEF MarkBlockAsInFlight
  <2>2. /\ t \in NodeState
        /\ t.vBlocksInFlight = s.vBlocksInFlight \cup new
        /\ t.partialBlock = s.partialBlock
        /\ t.nBlocksInFlight = s.nBlocksInFlight + Cardinality(new)
        /\ t.nBlocksInFlightValidHeaders = s.nBlocksInFlightValidHeaders + Cardinality(new)
        /\ t.nStallingSince = s.nStallingSince
        /\ t.fPreferredDownload = s.fPreferredDownload
        /\ t.fSyncStarted = s.fSyncStarted
        /\ t.fSuccessfullyConnected = s.fSuccessfullyConnected
        /\ t.pindexBestKnownBlock = s.pindexBestKnownBlock
        /\ t.pindexLastCommonBlock = s.pindexLastCommonBlock
    BY ZenonT(60), <1>0, <1>1, ListedFields
  <2>3. Cardinality(HeldBy(d, p)) + Cardinality(new) <= MAX_BLOCKS_IN_TRANSIT_PER_PEER
    BY DEF HasRoom
  <2> HIDE DEF e, new, t
  <2>4. /\ e.mapNodeState = [d.mapNodeState EXCEPT ![p] = t]
        /\ e.mapBlocksInFlight = [c \in Flying(d) \cup new |-> IF c \in new THEN p ELSE d.mapBlocksInFlight[c]]
        /\ e.nPeersWithValidatedDownloads = IF s.nBlocksInFlightValidHeaders = 0
              THEN d.nPeersWithValidatedDownloads + 1 ELSE d.nPeersWithValidatedDownloads
        /\ e.nPreferredDownload = d.nPreferredDownload
        /\ e.nSyncStarted = d.nSyncStarted
    BY ZenonT(60), <1>0, <2>1 DEF Books, Shaped, Flying
  <2>5. /\ e.nPeersWithValidatedDownloads \in Int /\ e.nPreferredDownload \in Int /\ e.nSyncStarted \in Int
        /\ d.nPeersWithValidatedDownloads \in Int /\ d.nPreferredDownload \in Int /\ d.nSyncStarted \in Int
    BY <1>0, <2>4 DEF Books, Shaped
  <2>6. e \in Shaped(e)
    BY ZenonT(60), <1>0, <2>1, <2>5 DEF Books, Shaped
  <2>7. /\ Books(e) /\ Nodes(e) = Nodes(d)
        /\ e.mapNodeState[p] = t
        /\ \A q \in Nodes(d) \ {p} : e.mapNodeState[q] = d.mapNodeState[q]
        /\ Flying(e) = Flying(d) \cup new
        /\ \A c \in Flying(e) : e.mapBlocksInFlight[c] = IF c \in new THEN p ELSE d.mapBlocksInFlight[c]
    BY <1>0, <1>1, <2>2, <2>4, <2>6 DEF Books, Shaped, Nodes, Flying
  <2>8. HeldBy(e, p) = HeldBy(d, p) \cup new /\ HeldBy(d, p) \cap new = {}
    BY <1>1, <2>7 DEF HeldBy
  <2>9. \A q \in Nodes(d) \ {p} : HeldBy(e, q) = HeldBy(d, q)
    BY <1>1, <2>7 DEF HeldBy
  <2>10. /\ Cardinality(HeldBy(d, p)) \in Nat /\ Cardinality(new) \in Nat
         /\ Cardinality(HeldBy(e, p)) = Cardinality(HeldBy(d, p)) + Cardinality(new)
         /\ Cardinality(HeldBy(d, p)) = 0 <=> HeldBy(d, p) = {}
    <3>1. IsFiniteSet(HeldBy(d, p)) /\ Cardinality(HeldBy(d, p)) \in Nat
      BY <1>0, HeldFinite
    <3>2. IsFiniteSet(new) /\ Cardinality(new) \in Nat
      BY <1>1, BlockTreeAssumption, FS_Subset, FS_CardinalityType
    <3>3. Cardinality(HeldBy(e, p)) = Cardinality(HeldBy(d, p)) + Cardinality(new)
      <4>1. Cardinality(HeldBy(d, p) \cup new)
                = Cardinality(HeldBy(d, p)) + Cardinality(new) - Cardinality(HeldBy(d, p) \cap new)
        BY ZenonT(60), <3>1, <3>2, FS_Union
      <4>2. Cardinality(HeldBy(d, p) \cap new) = 0
        BY ZenonT(60), <2>8, FS_EmptySet
      <4> QED BY <2>8, <3>1, <3>2, <4>1, <4>2
    <3>4. Cardinality(HeldBy(d, p)) = 0 <=> HeldBy(d, p) = {}
      BY <3>1, FS_EmptySet
    <3> QED BY <3>1, <3>2, <3>3, <3>4
  <2>11. NodeExact(e.mapNodeState[p], HeldBy(e, p))
    BY <1>0, <1>3, <2>2, <2>3, <2>7, <2>8, <2>10 DEF NodeExact
  <2>12. /\ Flag(HeldBy(e, p) # {}) = 1
         /\ Flag(HeldBy(d, p) # {}) = IF s.nBlocksInFlightValidHeaders = 0 THEN 0 ELSE 1
    BY <1>0, <1>3, <2>8, <2>10 DEF NodeExact, Flag
  <2>13. e.nPeersWithValidatedDownloads = d.nPeersWithValidatedDownloads
            + Flag(HeldBy(e, p) # {}) - Flag(HeldBy(d, p) # {})
    BY <2>4, <2>5, <2>12
  <2>f. /\ e.mapNodeState[p].fPreferredDownload = d.mapNodeState[p].fPreferredDownload
        /\ e.mapNodeState[p].fSyncStarted = d.mapNodeState[p].fSyncStarted
    BY <2>2, <2>7
  <2>g. /\ e.nPreferredDownload = d.nPreferredDownload
              + Flag(e.mapNodeState[p].fPreferredDownload) - Flag(d.mapNodeState[p].fPreferredDownload)
        /\ e.nSyncStarted = d.nSyncStarted
              + Flag(e.mapNodeState[p].fSyncStarted) - Flag(d.mapNodeState[p].fSyncStarted)
    BY <2>4, <2>5, <2>f DEF Flag
  <2>14. Exact(e)
    BY ZenonT(60), <2>7, <2>9, <2>11, <2>13, <2>g, OneNode
  <2>15. SamePointers(d, e)
    BY <2>2, <2>7 DEF SamePointers
  <2>16. \A q \in Nodes(d) : e.mapNodeState[q].partialBlock = d.mapNodeState[q].partialBlock
    BY <2>2, <2>7
  <2>17. \A c \in Flying(e) :
             e.mapBlocksInFlight[c] = IF c \in Flying(d) THEN d.mapBlocksInFlight[c] ELSE p
    BY <1>1, <2>7
  <2> QED BY <1>1, <2>7, <2>14, <2>15, <2>16, <2>17 DEF e, Added
<1> QED BY <1>2, <1>3

\* The state of p is now t, and what is in flight is the same.
Replaced(d, e, p, t) ==
    /\ Nodes(e) = Nodes(d)
    /\ e.mapNodeState[p] = t
    /\ \A q \in Nodes(d) \ {p} : e.mapNodeState[q] = d.mapNodeState[q]
    /\ e.mapBlocksInFlight = d.mapBlocksInFlight
    /\ Flying(e) = Flying(d) /\ \A q : HeldBy(e, q) = HeldBy(d, q)

\* A change of one peer's state that leaves its blocks alone.
LEMMA StateChanged ==
    ASSUME NEW d, Exact(d), NEW p \in Nodes(d), NEW t \in NodeState, NEW e,
           e \in Shaped(e),
           e.mapNodeState = [d.mapNodeState EXCEPT ![p] = t],
           e.mapBlocksInFlight = d.mapBlocksInFlight,
           e.nPeersWithValidatedDownloads = d.nPeersWithValidatedDownloads,
           e.nPreferredDownload = d.nPreferredDownload
               + Flag(t.fPreferredDownload) - Flag(d.mapNodeState[p].fPreferredDownload),
           e.nSyncStarted = d.nSyncStarted + Flag(t.fSyncStarted) - Flag(d.mapNodeState[p].fSyncStarted),
           NodeExact(t, HeldBy(d, p))
    PROVE  Exact(e) /\ Replaced(d, e, p, t)
<1>1. Books(d)
  BY DEF Exact
<1>2. /\ Books(e) /\ Nodes(e) = Nodes(d)
      /\ e.mapNodeState[p] = t
      /\ \A q \in Nodes(d) \ {p} : e.mapNodeState[q] = d.mapNodeState[q]
  BY <1>1 DEF Books, Shaped, Nodes, Flying
<1>3. Flying(e) = Flying(d) /\ \A q : HeldBy(e, q) = HeldBy(d, q)
  BY DEF Flying, HeldBy
<1>4. d.nPeersWithValidatedDownloads \in Int
  BY <1>1 DEF Books, Shaped
<1>5. e.nPeersWithValidatedDownloads = d.nPeersWithValidatedDownloads
          + Flag(HeldBy(e, p) # {}) - Flag(HeldBy(d, p) # {})
  BY <1>3, <1>4 DEF Flag
<1>6. NodeExact(e.mapNodeState[p], HeldBy(e, p))
  BY <1>2, <1>3
<1>7. /\ e.nPreferredDownload = d.nPreferredDownload
            + Flag(e.mapNodeState[p].fPreferredDownload) - Flag(d.mapNodeState[p].fPreferredDownload)
      /\ e.nSyncStarted = d.nSyncStarted
            + Flag(e.mapNodeState[p].fSyncStarted) - Flag(d.mapNodeState[p].fSyncStarted)
  BY <1>2
<1>8. \A q \in Nodes(d) \ {p} : e.mapNodeState[q] = d.mapNodeState[q] /\ HeldBy(e, q) = HeldBy(d, q)
  BY <1>2, <1>3
<1>9. Exact(e)
  BY ZenonT(60), <1>2, <1>5, <1>6, <1>7, <1>8, OneNode
<1> QED BY <1>2, <1>3, <1>9 DEF Replaced

\* The two lemmas below put a state t in the place of the state of p.
LEMMA StatePut ==
    ASSUME NEW d, Exact(d), NEW p \in Nodes(d), NEW t \in NodeState,
           NodeExact(t, HeldBy(d, p)),
           t.fPreferredDownload = d.mapNodeState[p].fPreferredDownload,
           t.fSyncStarted = d.mapNodeState[p].fSyncStarted
    PROVE  LET e == WithState(d, p, t)
           IN  Exact(e) /\ Replaced(d, e, p, t)
<1> DEFINE e == WithState(d, p, t)
<1>1. Books(d) /\ d.nPreferredDownload \in Int /\ d.nSyncStarted \in Int
  BY DEF Exact, Books, Shaped
<1>2. /\ e.mapNodeState = [d.mapNodeState EXCEPT ![p] = t]
      /\ e.mapBlocksInFlight = d.mapBlocksInFlight
      /\ e.nPeersWithValidatedDownloads = d.nPeersWithValidatedDownloads
      /\ e.nPreferredDownload = d.nPreferredDownload
      /\ e.nSyncStarted = d.nSyncStarted
      /\ e \in Shaped(e)
  BY ZenonT(60), <1>1 DEF Books, Shaped, WithState
<1> HIDE DEF e
<1>3. /\ e.nPreferredDownload = d.nPreferredDownload
               + Flag(t.fPreferredDownload) - Flag(d.mapNodeState[p].fPreferredDownload)
      /\ e.nSyncStarted = d.nSyncStarted + Flag(t.fSyncStarted) - Flag(d.mapNodeState[p].fSyncStarted)
  BY <1>1, <1>2 DEF Flag
<1>4. Exact(e) /\ Replaced(d, e, p, t)
  BY ZenonT(60), <1>2, <1>3, StateChanged
<1> QED BY ZenonT(60), <1>4 DEF e

\* A state with the same counts.
LEMMA StateKept ==
    ASSUME NEW d, Exact(d), NEW p \in Nodes(d), NEW t, SameCounts(d.mapNodeState[p], t)
    PROVE  LET e == WithState(d, p, t)
           IN  Exact(e) /\ SameFlights(d, e) /\ Replaced(d, e, p, t)
<1> DEFINE e == WithState(d, p, t)
<1>1. NodeExact(t, HeldBy(d, p)) /\ t \in NodeState
  BY ZenonT(60) DEF Exact, NodeExact, SameCounts
<1>2. Exact(e) /\ Replaced(d, e, p, t)
  BY ZenonT(60), <1>1, StatePut DEF SameCounts
<1> HIDE DEF e
<1>3. SameFlights(d, e)
  BY ZenonT(60), <1>2 DEF SameFlights, SameCounts, Replaced
<1> QED BY ZenonT(60), <1>2, <1>3 DEF e

\* Flags that no counter depends on, and the timeout for headers.
LEMMA FlagPut ==
    ASSUME NEW d, Exact(d), NEW p \in Nodes(d), NEW t \in NodeState,
           SameCounts(d.mapNodeState[p], t),
           t.pindexBestKnownBlock = d.mapNodeState[p].pindexBestKnownBlock,
           t.pindexLastCommonBlock = d.mapNodeState[p].pindexLastCommonBlock
    PROVE  LET e == WithState(d, p, t) IN Exact(e) /\ SamePointers(d, e) /\ SameFlights(d, e)
<1> DEFINE e == WithState(d, p, t)
<1>1. Exact(e) /\ SameFlights(d, e) /\ Replaced(d, e, p, t)
  BY ZenonT(60), StateKept
<1> HIDE DEF e
<1>2. SamePointers(d, e)
  BY ZenonT(60), <1>1 DEF SamePointers, Replaced
<1> QED BY ZenonT(60), <1>1, <1>2 DEF e

\* Setting fShouldBan touches neither the counters nor the blocks in flight.
LEMMA BanSet ==
    ASSUME NEW d, Exact(d), NEW p \in Nodes(d), NEW x \in BOOLEAN
    PROVE  LET e == WithState(d, p, [d.mapNodeState[p] EXCEPT !.fShouldBan = x])
           IN  Exact(e) /\ SamePointers(d, e) /\ SameFlights(d, e)
<1> DEFINE s == d.mapNodeState[p]
           t == [s EXCEPT !.fShouldBan = x]
<1>1. s \in NodeState
  BY ZenonT(60) DEF Exact, Books, Shaped
<1> HIDE DEF s
<1>2. t \in NodeState
  BY ZenonT(60), <1>1 DEF NodeState
<1>3. SameCounts(s, t) /\ t.pindexBestKnownBlock = s.pindexBestKnownBlock /\ t.pindexLastCommonBlock = s.pindexLastCommonBlock
  BY ZenonT(60), <1>1, <1>2 DEF NodeState, SameCounts
<1> USE DEF s
<1> QED BY ZenonT(60), <1>2, <1>3, FlagPut

\* Misbehaving touches neither the counters nor the blocks in flight.
LEMMA Punished ==
    ASSUME NEW d, Exact(d), NEW p \in Nodes(d)
    PROVE  LET e == Punish(d, p) IN Exact(e) /\ SamePointers(d, e) /\ SameFlights(d, e)
BY ZenonT(60), BanSet DEF Punish

\* Disarming the headers timeout touches neither the counters nor the blocks in flight.
LEMMA HeadersDisarmed ==
    ASSUME NEW d, Exact(d), NEW p \in Nodes(d)
    PROVE  LET e == DisarmHeaders(d, p) IN Exact(e) /\ SamePointers(d, e) /\ SameFlights(d, e)
<1> DEFINE s == d.mapNodeState[p]
           t == [s EXCEPT !.nHeadersSyncTimeout = "never"]
<1>1. s \in NodeState
  BY ZenonT(60) DEF Exact, Books, Shaped
<1> HIDE DEF s
<1>2. t \in NodeState
  BY ZenonT(60), <1>1 DEF NodeState
<1>3. SameCounts(s, t) /\ t.pindexBestKnownBlock = s.pindexBestKnownBlock /\ t.pindexLastCommonBlock = s.pindexLastCommonBlock
  BY ZenonT(60), <1>1, <1>2 DEF NodeState, SameCounts
<1> USE DEF s
<1>4. LET e == WithState(d, p, t) IN Exact(e) /\ SamePointers(d, e) /\ SameFlights(d, e)
  BY ZenonT(60), <1>2, <1>3, FlagPut
<1>5. SamePointers(d, d) /\ SameFlights(d, d)
  BY ZenonT(60) DEF SamePointers, SameFlights
<1> QED BY ZenonT(60), <1>4, <1>5 DEF DisarmHeaders

\* fSyncStarted, with its counter.
LEMMA SyncSet ==
    ASSUME NEW d, Exact(d), NEW p \in Nodes(d), NEW x \in BOOLEAN, NEW y \in {"zero", "armed", "never"},
           NEW n \in Int, n = d.nSyncStarted + Flag(x) - Flag(d.mapNodeState[p].fSyncStarted)
    PROVE  LET e == [d EXCEPT !.mapNodeState[p] = [@ EXCEPT !.fSyncStarted = x, !.nHeadersSyncTimeout = y],
                              !.nSyncStarted = n]
           IN  Exact(e) /\ SamePointers(d, e) /\ SameFlights(d, e)
<1> DEFINE s == d.mapNodeState[p]
           t == [s EXCEPT !.fSyncStarted = x, !.nHeadersSyncTimeout = y]
           e == [d EXCEPT !.mapNodeState[p] = [@ EXCEPT !.fSyncStarted = x, !.nHeadersSyncTimeout = y],
                          !.nSyncStarted = n]
<1>1. s \in NodeState /\ Books(d) /\ NodeExact(s, HeldBy(d, p)) /\ d.nPreferredDownload \in Int
  BY ZenonT(60) DEF Exact, Books, Shaped
<1> HIDE DEF s
<1>2. t \in NodeState
  BY ZenonT(60), <1>1 DEF NodeState
<1>3. /\ t.pindexBestKnownBlock = s.pindexBestKnownBlock
      /\ t.pindexLastCommonBlock = s.pindexLastCommonBlock
      /\ t.partialBlock = s.partialBlock
      /\ t.fPreferredDownload = s.fPreferredDownload
      /\ t.fSyncStarted = x
  BY ZenonT(60), <1>1, <1>2 DEF NodeState
<1>4. NodeExact(t, HeldBy(d, p))
  BY ZenonT(60), <1>1 DEF NodeExact, NodeState
<1> USE DEF s
<1>5. /\ e.mapNodeState = [d.mapNodeState EXCEPT ![p] = t]
      /\ e.mapBlocksInFlight = d.mapBlocksInFlight
      /\ e.nPeersWithValidatedDownloads = d.nPeersWithValidatedDownloads
      /\ e.nPreferredDownload = d.nPreferredDownload
      /\ e.nSyncStarted = n
      /\ e \in Shaped(e)
  BY ZenonT(60), <1>1 DEF Books, Shaped
<1> HIDE DEF e, t, s
<1>6. /\ e.nPreferredDownload = d.nPreferredDownload
               + Flag(t.fPreferredDownload) - Flag(s.fPreferredDownload)
      /\ e.nSyncStarted = d.nSyncStarted + Flag(t.fSyncStarted) - Flag(s.fSyncStarted)
  BY <1>1, <1>3, <1>5 DEF Flag, s
<1>7. Exact(e) /\ Replaced(d, e, p, t)
  BY ZenonT(60), <1>2, <1>4, <1>5, <1>6, StateChanged DEF s
<1>8. SamePointers(d, e) /\ SameFlights(d, e)
  BY ZenonT(60), <1>3, <1>7 DEF SamePointers, SameFlights, Replaced, s
<1> QED BY ZenonT(60), <1>7, <1>8 DEF e

\* Starting headers sync with a peer keeps nSyncStarted exact.
LEMMA SyncStarts ==
    ASSUME NEW d, Exact(d), NEW p \in Nodes(d)
    PROVE  LET e == StartSync(d, p) IN Exact(e) /\ SamePointers(d, e) /\ SameFlights(d, e)
<1>1. d.nSyncStarted \in Int
  BY ZenonT(60) DEF Exact, Books, Shaped
<1>2. SamePointers(d, d) /\ SameFlights(d, d)
  BY ZenonT(60) DEF SamePointers, SameFlights
<1>3. CASE d.mapNodeState[p].fSyncStarted
  <2>1. StartSync(d, p) = d
    BY ZenonT(60), <1>3 DEF StartSync
  <2> QED BY ZenonT(60), <1>2, <2>1
<1>4. CASE ~d.mapNodeState[p].fSyncStarted
  <2>1. d.nSyncStarted + 1 \in Int
        /\ d.nSyncStarted + 1 = d.nSyncStarted + Flag(TRUE) - Flag(d.mapNodeState[p].fSyncStarted)
    BY <1>1, <1>4 DEF Flag
  <2>2. LET e == [d EXCEPT !.mapNodeState[p] = [@ EXCEPT !.fSyncStarted = TRUE, !.nHeadersSyncTimeout = "armed"],
                           !.nSyncStarted = d.nSyncStarted + 1]
        IN  Exact(e) /\ SamePointers(d, e) /\ SameFlights(d, e)
    BY ZenonT(60), <2>1, SyncSet
  <2> QED BY ZenonT(60), <1>2, <2>2 DEF StartSync
<1> QED BY ZenonT(60), <1>3, <1>4

\* Ending headers sync with a peer that had started it keeps nSyncStarted exact.
LEMMA SyncStops ==
    ASSUME NEW d, Exact(d), NEW p \in Nodes(d), d.mapNodeState[p].fSyncStarted
    PROVE  LET e == StopSync(d, p) IN Exact(e) /\ SamePointers(d, e) /\ SameFlights(d, e)
<1>1. d.nSyncStarted \in Int
  BY ZenonT(60) DEF Exact, Books, Shaped
<1>2. d.nSyncStarted - 1 \in Int
      /\ d.nSyncStarted - 1 = d.nSyncStarted + Flag(FALSE) - Flag(d.mapNodeState[p].fSyncStarted)
  BY <1>1 DEF Flag
<1>3. LET e == [d EXCEPT !.mapNodeState[p] = [@ EXCEPT !.fSyncStarted = FALSE, !.nHeadersSyncTimeout = "zero"],
                         !.nSyncStarted = d.nSyncStarted - 1]
      IN  Exact(e) /\ SamePointers(d, e) /\ SameFlights(d, e)
  BY ZenonT(60), <1>2, SyncSet
<1> QED BY ZenonT(60), <1>3 DEF StopSync

\* A peer that holds a block may be marked as stalling.
LEMMA StallerMarked ==
    ASSUME NEW d, Exact(d), NEW p, NEW q, q # NoPeer => q \in Nodes(d) /\ HeldBy(d, q) # {}
    PROVE  LET e == MarkStaller(d, p, q) IN Exact(e) /\ SamePointers(d, e) /\ SameFlights(d, e)
<1> DEFINE s == d.mapNodeState[q]
           t == [s EXCEPT !.nStallingSince = TRUE]
           e == WithState(d, q, t)
<1>1. SamePointers(d, d) /\ SameFlights(d, d)
  BY ZenonT(60) DEF SamePointers, SameFlights
<1>2. CASE q = NoPeer
  BY ZenonT(60), <1>1, <1>2 DEF MarkStaller
<1>3. CASE q # NoPeer
  <2>1. s \in NodeState /\ NodeExact(s, HeldBy(d, q))
    BY ZenonT(60), <1>3 DEF Exact, Books, Shaped
  <2> HIDE DEF s
  <2>2. t \in NodeState
    BY ZenonT(60), <2>1 DEF NodeState
  <2>3. /\ t.pindexBestKnownBlock = s.pindexBestKnownBlock
        /\ t.pindexLastCommonBlock = s.pindexLastCommonBlock
        /\ t.partialBlock = s.partialBlock
        /\ t.fPreferredDownload = s.fPreferredDownload
        /\ t.fSyncStarted = s.fSyncStarted
    BY ZenonT(60), <2>1 DEF NodeState
  <2>4. NodeExact(t, HeldBy(d, q))
    BY ZenonT(60), <1>3, <2>1 DEF NodeExact, NodeState
  <2> HIDE DEF t
  <2>5. Exact(e) /\ Replaced(d, e, q, t)
    BY ZenonT(60), <1>3, <2>2, <2>3, <2>4, StatePut DEF s
  <2> HIDE DEF e
  <2>6. SamePointers(d, e) /\ SameFlights(d, e)
    BY ZenonT(60), <2>3, <2>5 DEF SamePointers, SameFlights, Replaced, s
  <2> QED BY ZenonT(60), <1>1, <2>5, <2>6 DEF MarkStaller, e, t, s
<1> QED BY ZenonT(60), <1>2, <1>3

\* A compact block has come for b, which is in flight from p.
LEMMA PartialSet ==
    ASSUME NEW d, Exact(d), NEW p \in Nodes(d), NEW b \in HeldBy(d, p)
    PROVE  LET e == SetPartial(d, p, b)
           IN  /\ Exact(e) /\ SamePointers(d, e)
               /\ e.mapBlocksInFlight = d.mapBlocksInFlight
               /\ \A q \in Nodes(d) : e.mapNodeState[q].partialBlock =
                     IF q = p THEN d.mapNodeState[q].partialBlock \cup {b} ELSE d.mapNodeState[q].partialBlock
<1> DEFINE s == d.mapNodeState[p]
           t == [s EXCEPT !.partialBlock = @ \cup {b}]
           e == WithState(d, p, t)
<1>1. s \in NodeState /\ NodeExact(s, HeldBy(d, p)) /\ HeldBy(d, p) \subseteq Block
  BY ZenonT(60), HeldFinite DEF Exact, Books, Shaped
<1>2. s.partialBlock \cup {b} \in SUBSET Block /\ s.partialBlock \cup {b} \subseteq HeldBy(d, p)
  BY ZenonT(60), <1>1 DEF NodeExact
<1> HIDE DEF s
<1>3. t \in NodeState
  BY ZenonT(60), <1>1, <1>2 DEF NodeState
<1>4. /\ t.pindexBestKnownBlock = s.pindexBestKnownBlock
      /\ t.pindexLastCommonBlock = s.pindexLastCommonBlock
      /\ t.partialBlock = s.partialBlock \cup {b}
      /\ t.fPreferredDownload = s.fPreferredDownload
      /\ t.fSyncStarted = s.fSyncStarted
  BY ZenonT(60), <1>1 DEF NodeState
<1>5. NodeExact(t, HeldBy(d, p))
  BY ZenonT(60), <1>1, <1>2 DEF NodeExact, NodeState
<1> HIDE DEF t
<1>6. Exact(e) /\ Replaced(d, e, p, t)
  BY ZenonT(60), <1>3, <1>4, <1>5, StatePut DEF s
<1>7. e = SetPartial(d, p, b)
  BY ZenonT(60) DEF SetPartial, e, t, s
<1> HIDE DEF e
<1>8. SamePointers(d, e)
  BY ZenonT(60), <1>4, <1>6 DEF SamePointers, Replaced, s
<1>9. \A q \in Nodes(d) : e.mapNodeState[q].partialBlock =
          IF q = p THEN d.mapNodeState[q].partialBlock \cup {b} ELSE d.mapNodeState[q].partialBlock
  BY ZenonT(60), <1>4, <1>6 DEF Replaced, s
<1>10. e.mapBlocksInFlight = d.mapBlocksInFlight
  BY ZenonT(60), <1>6 DEF Replaced
<1> QED BY ZenonT(60), <1>6, <1>7, <1>8, <1>9, <1>10

\* Setting fSuccessfullyConnected keeps the counters exact.
LEMMA ConnectedSet ==
    ASSUME NEW d, Exact(d), NEW p \in Nodes(d)
    PROVE  LET e == WithState(d, p, [d.mapNodeState[p] EXCEPT !.fSuccessfullyConnected = TRUE])
           IN  /\ Exact(e) /\ SamePointers(d, e) /\ SameFlights(d, e)
               /\ e.mapNodeState[p].fSuccessfullyConnected
<1> DEFINE s == d.mapNodeState[p]
           t == [s EXCEPT !.fSuccessfullyConnected = TRUE]
           e == WithState(d, p, t)
<1>1. s \in NodeState /\ NodeExact(s, HeldBy(d, p))
  BY ZenonT(60) DEF Exact, Books, Shaped
<1> HIDE DEF s
<1>2. t \in NodeState
  BY ZenonT(60), <1>1 DEF NodeState
<1>3. /\ t.pindexBestKnownBlock = s.pindexBestKnownBlock
      /\ t.pindexLastCommonBlock = s.pindexLastCommonBlock
      /\ t.partialBlock = s.partialBlock
      /\ t.fPreferredDownload = s.fPreferredDownload
      /\ t.fSyncStarted = s.fSyncStarted
      /\ t.fSuccessfullyConnected
  BY ZenonT(60), <1>1 DEF NodeState
<1>4. NodeExact(t, HeldBy(d, p))
  BY ZenonT(60), <1>1 DEF NodeExact, NodeState
<1> HIDE DEF t
<1>5. Exact(e) /\ Replaced(d, e, p, t)
  BY ZenonT(60), <1>2, <1>3, <1>4, StatePut DEF s
<1>6. e = WithState(d, p, [d.mapNodeState[p] EXCEPT !.fSuccessfullyConnected = TRUE])
  BY ZenonT(60) DEF e, t, s
<1> HIDE DEF e
<1>7. SamePointers(d, e) /\ SameFlights(d, e) /\ e.mapNodeState[p].fSuccessfullyConnected
  BY ZenonT(60), <1>3, <1>5 DEF SamePointers, SameFlights, Replaced, s
<1> QED BY ZenonT(60), <1>5, <1>6, <1>7

\* UpdatePreferredDownload keeps nPreferredDownload exact for a peer that sent its version.
LEMMA PreferredUpdated ==
    ASSUME NEW d, Exact(d), NEW p \in Nodes(d), d.mapNodeState[p].fSuccessfullyConnected
    PROVE  LET e == UpdatePreferredDownload(d, p) IN Exact(e) /\ SamePointers(d, e) /\ SameFlights(d, e)
<1> DEFINE s == d.mapNodeState[p]
           t == [s EXCEPT !.fPreferredDownload = s.kind # "inbound"]
           n == d.nPreferredDownload - Flag(s.fPreferredDownload) + Flag(t.fPreferredDownload)
           e == [d EXCEPT !.mapNodeState[p] = t, !.nPreferredDownload = n]
<1>1. s \in NodeState /\ Books(d) /\ NodeExact(s, HeldBy(d, p))
      /\ d.nPreferredDownload \in Int /\ d.nSyncStarted \in Int
  BY ZenonT(60) DEF Exact, Books, Shaped
<1> HIDE DEF s
<1>2. t \in NodeState
  <2>1. (s.kind # "inbound") \in BOOLEAN
    BY ZenonT(60)
  <2> QED BY ZenonT(60), <1>1, <2>1 DEF NodeState
<1>3. /\ t.pindexBestKnownBlock = s.pindexBestKnownBlock
      /\ t.pindexLastCommonBlock = s.pindexLastCommonBlock
      /\ t.partialBlock = s.partialBlock
      /\ t.fSyncStarted = s.fSyncStarted
  BY ZenonT(60), <1>1 DEF NodeState
<1>4. NodeExact(t, HeldBy(d, p))
  BY ZenonT(60), <1>1 DEF NodeExact, NodeState, s
<1>5. n \in Int /\ n = d.nPreferredDownload + Flag(t.fPreferredDownload) - Flag(s.fPreferredDownload)
  <2> HIDE DEF t
  <2> QED BY <1>1 DEF Flag
<1>6. e = UpdatePreferredDownload(d, p)
  BY ZenonT(60) DEF UpdatePreferredDownload, s
<1> HIDE DEF t, n
<1>7. /\ e.mapNodeState = [d.mapNodeState EXCEPT ![p] = t]
      /\ e.mapBlocksInFlight = d.mapBlocksInFlight
      /\ e.nPeersWithValidatedDownloads = d.nPeersWithValidatedDownloads
      /\ e.nPreferredDownload = n
      /\ e.nSyncStarted = d.nSyncStarted
      /\ e \in Shaped(e)
  BY ZenonT(60), <1>1, <1>5 DEF Books, Shaped
<1> HIDE DEF e
<1>8. e.nSyncStarted = d.nSyncStarted + Flag(t.fSyncStarted) - Flag(s.fSyncStarted)
  BY <1>1, <1>3, <1>7 DEF Flag
<1>9. Exact(e) /\ Replaced(d, e, p, t)
  BY ZenonT(60), <1>2, <1>4, <1>5, <1>7, <1>8, StateChanged DEF s
<1>10. SamePointers(d, e) /\ SameFlights(d, e)
  BY ZenonT(60), <1>3, <1>9 DEF SamePointers, SameFlights, Replaced, s
<1> QED BY ZenonT(60), <1>6, <1>9, <1>10

\* What a peer is known to have.
LEMMA Better ==
    ASSUME NEW s \in NodeState, NEW b \in Block
    PROVE  /\ SameCounts(s, BetterKnown(s, b))
           /\ BetterKnown(s, b).pindexBestKnownBlock \in {s.pindexBestKnownBlock, b}
           /\ BetterKnown(s, b).pindexLastCommonBlock = s.pindexLastCommonBlock
           /\ BetterKnown(s, b).hashLastUnknownBlock = s.hashLastUnknownBlock
<1> DEFINE t == [s EXCEPT !.pindexBestKnownBlock = b]
<1>1. b \in MaybeBlock
  BY ZenonT(60) DEF MaybeBlock
<1>2. t \in NodeState
  BY ZenonT(60), <1>1 DEF NodeState
<1>3. /\ SameCounts(s, t)
      /\ t.pindexBestKnownBlock = b
      /\ t.pindexLastCommonBlock = s.pindexLastCommonBlock
      /\ t.hashLastUnknownBlock = s.hashLastUnknownBlock
  BY ZenonT(60), <1>2 DEF NodeState, SameCounts
<1>4. SameCounts(s, s)
  BY ZenonT(60) DEF SameCounts
<1>5. BetterKnown(s, b) = t \/ BetterKnown(s, b) = s
  BY ZenonT(60) DEF BetterKnown
<1> HIDE DEF t
<1> QED BY ZenonT(60), <1>3, <1>4, <1>5

\* ProcessBlockAvailability moves only pindexBestKnownBlock, to a block of the index.
LEMMA Availability ==
    ASSUME NEW s \in NodeState, NEW index \in SUBSET Block
    PROVE  LET t == ProcessBlockAvailability(s, index)
           IN  /\ SameCounts(s, t)
               /\ t.pindexBestKnownBlock \in {s.pindexBestKnownBlock} \cup index
               /\ t.pindexLastCommonBlock = s.pindexLastCommonBlock
<1> DEFINE u == s.hashLastUnknownBlock
           better == BetterKnown(s, u)
           t == [better EXCEPT !.hashLastUnknownBlock = NoBlock]
<1>1. SameCounts(s, s)
  BY ZenonT(60) DEF SameCounts
<1>2. CASE ~(u # NoBlock /\ Known(index, u))
  <2>1. ProcessBlockAvailability(s, index) = s
    BY ZenonT(60), <1>2 DEF ProcessBlockAvailability
  <2> QED BY ZenonT(60), <1>1, <2>1
<1>3. CASE u # NoBlock /\ Known(index, u)
  <2>1. u \in index /\ u \in Block
    BY ZenonT(60), <1>3 DEF Known
  <2>2. /\ SameCounts(s, better)
        /\ better.pindexBestKnownBlock \in {s.pindexBestKnownBlock, u}
        /\ better.pindexLastCommonBlock = s.pindexLastCommonBlock
    BY ZenonT(60), <2>1, Better
  <2>3. ProcessBlockAvailability(s, index) = t
    BY ZenonT(60), <1>3 DEF ProcessBlockAvailability
  <2> HIDE DEF better
  <2>4. better \in NodeState
    BY ZenonT(60), <2>2 DEF SameCounts
  <2>5. t \in NodeState
    BY ZenonT(60), <2>4 DEF NodeState, MaybeBlock
  <2>6. /\ SameCounts(better, t)
        /\ t.pindexBestKnownBlock = better.pindexBestKnownBlock
        /\ t.pindexLastCommonBlock = better.pindexLastCommonBlock
    BY ZenonT(60), <2>4, <2>5 DEF NodeState, SameCounts
  <2> HIDE DEF t
  <2>7. SameCounts(s, t)
    BY ZenonT(60), <2>2, <2>6 DEF SameCounts
  <2> QED BY ZenonT(60), <2>1, <2>2, <2>3, <2>6, <2>7
<1> QED BY ZenonT(60), <1>2, <1>3

\* UpdateBlockAvailability moves only pindexBestKnownBlock, to a block of the index.
LEMMA AvailabilityUpdated ==
    ASSUME NEW s \in NodeState, NEW index \in SUBSET Block, NEW b \in Block
    PROVE  LET t == UpdateBlockAvailability(s, index, b)
           IN  /\ SameCounts(s, t)
               /\ t.pindexBestKnownBlock \in {s.pindexBestKnownBlock} \cup index
               /\ t.pindexLastCommonBlock = s.pindexLastCommonBlock
<1> DEFINE r == ProcessBlockAvailability(s, index)
           t == UpdateBlockAvailability(s, index, b)
           u == [r EXCEPT !.hashLastUnknownBlock = b]
<1>1. /\ SameCounts(s, r)
      /\ r.pindexBestKnownBlock \in {s.pindexBestKnownBlock} \cup index
      /\ r.pindexLastCommonBlock = s.pindexLastCommonBlock
  BY ZenonT(60), Availability
<1>2. t = IF Known(index, b) THEN BetterKnown(r, b) ELSE u
  BY ZenonT(60) DEF UpdateBlockAvailability
<1> HIDE DEF r, t
<1>3. r \in NodeState
  BY ZenonT(60), <1>1 DEF SameCounts
<1>4. CASE Known(index, b)
  <2>1. /\ SameCounts(r, t)
        /\ t.pindexBestKnownBlock \in {r.pindexBestKnownBlock, b}
        /\ t.pindexLastCommonBlock = r.pindexLastCommonBlock
    BY ZenonT(60), <1>2, <1>3, <1>4, Better
  <2>2. SameCounts(s, t)
    BY ZenonT(60), <1>1, <2>1 DEF SameCounts
  <2>3. b \in index
    BY ZenonT(60), <1>4 DEF Known
  <2> QED BY ZenonT(60), <1>1, <2>1, <2>2, <2>3 DEF t
<1>5. CASE ~Known(index, b)
  <2>1. u \in NodeState
    BY ZenonT(60), <1>3 DEF NodeState, MaybeBlock
  <2>2. /\ SameCounts(r, u)
        /\ u.pindexBestKnownBlock = r.pindexBestKnownBlock
        /\ u.pindexLastCommonBlock = r.pindexLastCommonBlock
    BY ZenonT(60), <1>3, <2>1 DEF NodeState, SameCounts
  <2>3. t = u
    BY ZenonT(60), <1>2, <1>5
  <2> HIDE DEF u
  <2>4. SameCounts(s, t)
    BY ZenonT(60), <1>1, <2>2, <2>3 DEF SameCounts
  <2> QED BY ZenonT(60), <1>1, <2>2, <2>3, <2>4 DEF t
<1> QED BY ZenonT(60), <1>4, <1>5

\* A new peer holds nothing and counts nowhere.
LEMMA Entered ==
    ASSUME NEW d, Exact(d), NEW p \in Peer, p \notin Nodes(d), NEW kind \in {"inbound", "whitelisted", "outbound"}
    PROVE  LET e == Enter(d, p, kind)
           IN  /\ Exact(e) /\ Nodes(e) = Nodes(d) \cup {p}
               /\ e.mapNodeState[p] = CNodeState(kind)
               /\ \A q \in Nodes(d) : e.mapNodeState[q] = d.mapNodeState[q]
               /\ e.mapBlocksInFlight = d.mapBlocksInFlight
<1> DEFINE e == Enter(d, p, kind)
           t == CNodeState(kind)
<1>1. Books(d) /\ IsFiniteSet(Nodes(d))
  BY ZenonT(60) DEF Exact
<1>2. t \in NodeState
  <2>1. NoBlock \in MaybeBlock /\ {} \in SUBSET Block /\ 0 \in Int
    BY DEF MaybeBlock
  <2> QED BY ZenonT(60), <2>1 DEF CNodeState, NodeState
<1>3. /\ t.vBlocksInFlight = {} /\ t.partialBlock = {}
      /\ t.nBlocksInFlight = 0 /\ t.nBlocksInFlightValidHeaders = 0
      /\ t.nStallingSince = FALSE /\ t.fPreferredDownload = FALSE /\ t.fSyncStarted = FALSE
  BY ZenonT(60) DEF CNodeState
<1>4. /\ e.mapNodeState = [q \in Nodes(d) \cup {p} |-> IF q = p THEN t ELSE d.mapNodeState[q]]
      /\ e.mapBlocksInFlight = d.mapBlocksInFlight
      /\ e.nPeersWithValidatedDownloads = d.nPeersWithValidatedDownloads
      /\ e.nPreferredDownload = d.nPreferredDownload
      /\ e.nSyncStarted = d.nSyncStarted
      /\ e \in Shaped(e)
  BY ZenonT(60), <1>1 DEF Books, Shaped, Enter, Nodes
<1> HIDE DEF e, t
<1>5. /\ Books(e) /\ Nodes(e) = Nodes(d) \cup {p}
      /\ e.mapNodeState[p] = t
      /\ \A q \in Nodes(d) : e.mapNodeState[q] = d.mapNodeState[q]
  BY ZenonT(60), <1>1, <1>2, <1>4 DEF Books, Nodes, Flying
<1>6. IsFiniteSet(Nodes(e))
  BY ZenonT(60), <1>1, <1>5, FS_AddElement
<1>7. HeldBy(e, p) = {} /\ \A q \in Nodes(d) : HeldBy(e, q) = HeldBy(d, q)
  BY <1>1, <1>4 DEF HeldBy, Books, Flying
<1>8. \A q \in Nodes(e) : NodeExact(e.mapNodeState[q], HeldBy(e, q))
  <2>1. NodeExact(e.mapNodeState[p], HeldBy(e, p))
    BY <1>3, <1>5, <1>7, FS_EmptySet, BlockDownloadAssumption DEF NodeExact
  <2>2. \A q \in Nodes(d) : NodeExact(e.mapNodeState[q], HeldBy(e, q))
    BY ZenonT(60), <1>5, <1>7 DEF Exact
  <2> QED BY ZenonT(60), <1>5, <2>1, <2>2
<1>9. Downloading(e) = Downloading(d) /\ Preferred(e) = Preferred(d) /\ Started(e) = Started(d)
  <2>1. Downloading(e) = Downloading(d)
    BY ZenonT(60), <1>3, <1>5 DEF Downloading
  <2>2. Preferred(e) = Preferred(d)
    BY ZenonT(60), <1>3, <1>5 DEF Preferred
  <2>3. Started(e) = Started(d)
    BY ZenonT(60), <1>3, <1>5 DEF Started
  <2> QED BY ZenonT(60), <2>1, <2>2, <2>3
<1>10. Exact(e)
  BY ZenonT(60), <1>4, <1>5, <1>6, <1>8, <1>9 DEF Exact
<1> QED BY ZenonT(60), <1>4, <1>5, <1>10 DEF e, t

\* A peer that goes away takes its blocks and its share of the counters with it.
LEMMA Forgotten ==
    ASSUME NEW d, Exact(d), NEW p \in Nodes(d)
    PROVE  LET e == Forget(d, p)
           IN  /\ Exact(e) /\ Nodes(e) = Nodes(d) \ {p}
               /\ \A q \in Nodes(e) : e.mapNodeState[q] = d.mapNodeState[q]
               /\ Flying(e) = Flying(d) \ HeldBy(d, p)
               /\ \A b \in Flying(e) : e.mapBlocksInFlight[b] = d.mapBlocksInFlight[b]
<1> DEFINE e == Forget(d, p)
           s == d.mapNodeState[p]
<1>1. Books(d) /\ IsFiniteSet(Nodes(d)) /\ NodeExact(s, HeldBy(d, p)) /\ s.vBlocksInFlight = HeldBy(d, p)
  BY ZenonT(60) DEF Exact, NodeExact
<1>2. /\ e.mapNodeState = [q \in Nodes(d) \ {p} |-> d.mapNodeState[q]]
      /\ e.mapBlocksInFlight = [b \in Flying(d) \ HeldBy(d, p) |-> d.mapBlocksInFlight[b]]
      /\ e.nPeersWithValidatedDownloads = d.nPeersWithValidatedDownloads - Flag(s.nBlocksInFlightValidHeaders # 0)
      /\ e.nPreferredDownload = d.nPreferredDownload - Flag(s.fPreferredDownload)
      /\ e.nSyncStarted = d.nSyncStarted - Flag(s.fSyncStarted)
  BY ZenonT(60), <1>1 DEF Books, Shaped, Forget, Nodes, Flying
<1>3. /\ d.nPeersWithValidatedDownloads \in Int /\ d.nPreferredDownload \in Int /\ d.nSyncStarted \in Int
      /\ e.nPeersWithValidatedDownloads \in Int /\ e.nPreferredDownload \in Int /\ e.nSyncStarted \in Int
  <2>1. d.nPeersWithValidatedDownloads \in Int /\ d.nPreferredDownload \in Int /\ d.nSyncStarted \in Int
    BY ZenonT(60), <1>1 DEF Books, Shaped
  <2> HIDE DEF e, s
  <2> QED BY <1>2, <2>1 DEF Flag
<1>4. e \in Shaped(e)
  BY ZenonT(60), <1>1, <1>2, <1>3 DEF Books, Shaped, Forget
<1> HIDE DEF e
<1>5. /\ Books(e) /\ Nodes(e) = Nodes(d) \ {p}
      /\ \A q \in Nodes(e) : e.mapNodeState[q] = d.mapNodeState[q]
      /\ Flying(e) = Flying(d) \ HeldBy(d, p)
      /\ \A b \in Flying(e) : e.mapBlocksInFlight[b] = d.mapBlocksInFlight[b]
  <2>1. Nodes(e) = Nodes(d) \ {p} /\ Flying(e) = Flying(d) \ HeldBy(d, p)
    BY ZenonT(60), <1>2 DEF Nodes, Flying
  <2>2. \A q \in Nodes(e) : e.mapNodeState[q] = d.mapNodeState[q]
    BY ZenonT(60), <1>2, <2>1
  <2>3. \A b \in Flying(e) : e.mapBlocksInFlight[b] = d.mapBlocksInFlight[b]
    BY ZenonT(60), <1>2, <2>1
  <2>4. Books(e)
    <3>1. \A q \in Nodes(e) : d.mapNodeState[q] \in NodeState
      BY ZenonT(60), <1>1, <2>1 DEF Books
    <3>2. \A b \in Flying(e) : d.mapBlocksInFlight[b] \in Nodes(e)
      BY ZenonT(60), <1>1, <2>1 DEF Books, HeldBy
    <3>3. e.mapNodeState \in [Nodes(e) -> NodeState] /\ e.mapBlocksInFlight \in [Flying(e) -> Nodes(e)]
      BY ZenonT(60), <1>2, <2>1, <3>1, <3>2
    <3> QED BY ZenonT(60), <1>1, <1>4, <2>1, <3>3 DEF Books
  <2> QED BY ZenonT(60), <2>1, <2>2, <2>3, <2>4
<1>6. \A q \in Nodes(e) : HeldBy(e, q) = HeldBy(d, q)
  BY ZenonT(60), <1>5 DEF HeldBy
<1>7. \A q \in Nodes(e) : NodeExact(e.mapNodeState[q], HeldBy(e, q))
  BY ZenonT(60), <1>5, <1>6 DEF Exact
<1>8. IsFiniteSet(Nodes(e))
  BY ZenonT(60), <1>1, <1>5, FS_Subset
<1>9. e.nPeersWithValidatedDownloads = Cardinality(Downloading(e))
  <2>1. Downloading(e) \in SUBSET Nodes(d) /\ Downloading(d) \in SUBSET Nodes(d) /\ p \notin Downloading(e)
    BY ZenonT(60), <1>5 DEF Downloading
  <2>2. \A q : q # p => (q \in Downloading(d) <=> q \in Downloading(e))
    BY ZenonT(60), <1>5 DEF Downloading
  <2>3. Cardinality(Downloading(e)) = Cardinality(Downloading(d))
            + Flag(p \in Downloading(e)) - Flag(p \in Downloading(d))
    BY ZenonT(60), <1>1, <2>1, <2>2, CountChange
  <2>4. p \in Downloading(d) <=> HeldBy(d, p) # {}
    BY ZenonT(60), <1>1 DEF Downloading, s
  <2>5. s.nBlocksInFlightValidHeaders # 0 <=> HeldBy(d, p) # {}
    BY ZenonT(60), <1>1, HeldFinite, FS_EmptySet DEF NodeExact
  <2> QED BY <1>2, <1>3, <2>1, <2>3, <2>4, <2>5 DEF Exact, Flag
<1>10. e.nPreferredDownload = Cardinality(Preferred(e))
  <2>1. Preferred(e) \in SUBSET Nodes(d) /\ Preferred(d) \in SUBSET Nodes(d) /\ p \notin Preferred(e)
    BY ZenonT(60), <1>5 DEF Preferred
  <2>2. \A q : q # p => (q \in Preferred(d) <=> q \in Preferred(e))
    BY ZenonT(60), <1>5 DEF Preferred
  <2>3. Cardinality(Preferred(e)) = Cardinality(Preferred(d)) + Flag(p \in Preferred(e)) - Flag(p \in Preferred(d))
    BY ZenonT(60), <1>1, <2>1, <2>2, CountChange
  <2>4. p \in Preferred(d) <=> s.fPreferredDownload
    BY ZenonT(60) DEF Preferred
  <2> QED BY <1>2, <1>3, <2>1, <2>3, <2>4 DEF Exact, Flag
<1>11. e.nSyncStarted = Cardinality(Started(e))
  <2>1. Started(e) \in SUBSET Nodes(d) /\ Started(d) \in SUBSET Nodes(d) /\ p \notin Started(e)
    BY ZenonT(60), <1>5 DEF Started
  <2>2. \A q : q # p => (q \in Started(d) <=> q \in Started(e))
    BY ZenonT(60), <1>5 DEF Started
  <2>3. Cardinality(Started(e)) = Cardinality(Started(d)) + Flag(p \in Started(e)) - Flag(p \in Started(d))
    BY ZenonT(60), <1>1, <2>1, <2>2, CountChange
  <2>4. p \in Started(d) <=> s.fSyncStarted
    BY ZenonT(60) DEF Started
  <2> QED BY <1>2, <1>3, <2>1, <2>3, <2>4 DEF Exact, Flag
<1>12. Exact(e)
  BY ZenonT(60), <1>5, <1>7, <1>8, <1>9, <1>10, <1>11 DEF Exact
<1> QED BY ZenonT(60), <1>5, <1>12 DEF e

-----------------------------------------------------------------------------
(* The walks along a branch.                                               *)

\* A branch holds its own block and the genesis block, and the branches of its blocks.
LEMMA BranchBlocks ==
    ASSUME NEW b \in Block
    PROVE  /\ Branch(b) \subseteq Block /\ b \in Branch(b) /\ Genesis \in Branch(b)
           /\ \A a \in Branch(b) : Branch(a) \subseteq Branch(b) /\ nHeight(a) \in 0 .. nHeight(b)
<1>1. b \in Branch(b)
  BY ZenonT(60), OnBranchReflexive DEF Branch
<1>2. Genesis \in Branch(b)
  BY ZenonT(60), Heights, BlockTreeAssumption DEF Branch
<1>3. \A a \in Branch(b) : Branch(a) \subseteq Branch(b)
  BY ZenonT(60), OnBranchTransitive DEF Branch
<1>4. \A a \in Branch(b) : nHeight(a) \in 0 .. nHeight(b)
  <2> TAKE a \in Branch(b)
  <2>1. a \in Block /\ OnBranch(a, b)
    BY ZenonT(60) DEF Branch
  <2>2. nHeight(a) \in Nat /\ nHeight(b) \in Nat
    BY ZenonT(60), <2>1, Heights
  <2>3. nHeight(a) <= nHeight(b)
    BY ZenonT(60), <2>1 DEF OnBranch, nHeight
  <2> QED BY <2>2, <2>3
<1> QED BY ZenonT(60), <1>1, <1>2, <1>3, <1>4 DEF Branch

\* A set of blocks of one branch has a highest member.
LEMMA HighestOfBranch ==
    ASSUME NEW b \in Block, NEW S \in SUBSET Branch(b), S # {}
    PROVE  Highest(S) \in S /\ \A c \in S : nHeight(c) <= nHeight(Highest(S))
<1> DEFINE D == {nHeight(b) - nHeight(c) : c \in S}
<1>1. nHeight(b) \in Nat /\ \A c \in S : nHeight(c) \in 0 .. nHeight(b)
  BY ZenonT(60), BranchBlocks, Heights
<1>2. D \subseteq Nat /\ D # {}
  BY <1>1
<1>3. PICK m \in D : \A n \in D : m <= n
  BY ZenonT(60), <1>2, LeastNatural
<1>4. PICK h \in S : m = nHeight(b) - nHeight(h)
  BY ZenonT(60)
<1>5. \A c \in S : nHeight(c) <= nHeight(h)
  <2> TAKE c \in S
  <2>1. m <= nHeight(b) - nHeight(c)
    BY ZenonT(60), <1>3
  <2> QED BY <1>1, <1>4, <2>1
<1>6. \E c \in S : \A a \in S : nHeight(a) <= nHeight(c)
  BY ZenonT(60), <1>5
<1> QED BY ZenonT(60), <1>6 DEF Highest

\* A set of blocks has a lowest member.
LEMMA LowestOf ==
    ASSUME NEW S \in SUBSET Block, S # {}
    PROVE  Lowest(S) \in S
<1> DEFINE D == {nHeight(c) : c \in S}
<1>1. D \subseteq Nat /\ D # {}
  BY ZenonT(60), Heights
<1>2. PICK m \in D : \A n \in D : m <= n
  BY ZenonT(60), <1>1, LeastNatural
<1>3. \E b \in S : \A c \in S : nHeight(b) <= nHeight(c)
  BY ZenonT(60), <1>2
<1> QED BY ZenonT(60), <1>3 DEF Lowest

\* The last block that two branches share is on both.
LEMMA CommonAncestor ==
    ASSUME NEW a \in Block, NEW b \in Block
    PROVE  LastCommonAncestor(a, b) \in Branch(a) \cap Branch(b)
<1>1. Branch(a) \cap Branch(b) \in SUBSET Branch(b) /\ Branch(a) \cap Branch(b) # {}
  BY ZenonT(60), BranchBlocks
<1> QED BY ZenonT(60), <1>1, HighestOfBranch DEF LastCommonAncestor

\* The first n blocks of a part of a branch are at most n blocks: their ranks differ.
LEMMA FirstBlocks ==
    ASSUME NEW b \in Block, NEW S \in SUBSET Branch(b), NEW n \in Nat
    PROVE  /\ FirstOf(S, n) \subseteq S /\ IsFiniteSet(FirstOf(S, n))
           /\ Cardinality(FirstOf(S, n)) \in Nat /\ Cardinality(FirstOf(S, n)) <= n
<1> DEFINE Below(c) == {a \in S : nHeight(a) < nHeight(c)}
           F == FirstOf(S, n)
           f == [c \in F |-> Cardinality(Below(c))]
<1>1. S \subseteq Block /\ IsFiniteSet(S)
  BY ZenonT(60), BranchBlocks, BlockTreeAssumption, FS_Subset
<1>2. F \subseteq S /\ IsFiniteSet(F) /\ Cardinality(F) \in Nat
  BY ZenonT(60), <1>1, FS_Subset, FS_CardinalityType DEF FirstOf
<1>3. \A c \in S : IsFiniteSet(Below(c)) /\ Cardinality(Below(c)) \in Nat
  BY ZenonT(60), <1>1, FS_Subset, FS_CardinalityType
<1>4. \A c \in S : nHeight(c) \in Nat
  BY ZenonT(60), <1>1, Heights
<1>5. ASSUME NEW c \in S, NEW e \in S, nHeight(c) < nHeight(e)
      PROVE  Cardinality(Below(c)) < Cardinality(Below(e))
  <2>1. c \notin Below(c)
    BY <1>4
  <2>2. Below(c) \cup {c} \in SUBSET Below(e)
    BY <1>4, <1>5
  <2>3. Cardinality(Below(c) \cup {c}) = Cardinality(Below(c)) + 1
    BY ZenonT(60), <1>3, <2>1, FS_AddElement
  <2>4. Cardinality(Below(c) \cup {c}) <= Cardinality(Below(e))
    BY ZenonT(60), <1>3, <2>2, FS_Subset
  <2> QED BY <1>3, <2>3, <2>4
<1>6. \A c, e \in S : nHeight(c) = nHeight(e) => c = e
  BY ZenonT(60), <1>1, AncestorUnique DEF Branch
<1>7. \A c, e \in S : Cardinality(Below(c)) = Cardinality(Below(e)) => c = e
  <2> TAKE c \in S, e \in S
  <2> HAVE Cardinality(Below(c)) = Cardinality(Below(e))
  <2>1. ~(nHeight(c) < nHeight(e)) /\ ~(nHeight(e) < nHeight(c))
    BY <1>3, <1>5
  <2>2. nHeight(c) = nHeight(e)
    BY <1>4, <2>1
  <2> QED BY ZenonT(60), <1>6, <2>2
<1>8. \A c \in F : Cardinality(Below(c)) < n
  BY ZenonT(60) DEF FirstOf
<1> HIDE DEF F, Below
<1>r. \A c \in F : Cardinality(Below(c)) \in 0 .. (n - 1)
  BY <1>2, <1>3, <1>8
<1>9. f \in Injection(F, 0 .. (n - 1))
  BY ZenonT(60), <1>2, <1>7, <1>r DEF Injection, IsInjective
<1>10. IsFiniteSet(0 .. (n - 1)) /\ Cardinality(0 .. (n - 1)) = n
  BY FS_Interval
<1>11. Cardinality(F) <= n
  BY <1>9, <1>10, FS_Injection
<1> QED BY ZenonT(60), <1>2, <1>11 DEF F

\* Of some blocks, one has most work.
LEMMA MostWork ==
    ASSUME NEW S \in SUBSET Block, S # {}
    PROVE  \E b \in S : \A c \in S : nChainWork[c] <= nChainWork[b]
<1> DEFINE Above(b) == {c \in S : nChainWork[c] > nChainWork[b]}
           D == {Cardinality(Above(b)) : b \in S}
<1>1. IsFiniteSet(S)
  BY ZenonT(60), BlockTreeAssumption, FS_Subset
<1>2. \A b \in S : IsFiniteSet(Above(b)) /\ Cardinality(Above(b)) \in Nat
  BY ZenonT(60), <1>1, FS_Subset, FS_CardinalityType
<1>3. \A b \in S : nChainWork[b] \in Nat
  BY ZenonT(60), BlockTreeAssumption
<1>4. D \subseteq Nat /\ D # {}
  BY ZenonT(60), <1>2
<1>5. PICK m \in D : \A n \in D : m <= n
  BY ZenonT(60), <1>4, LeastNatural
<1>6. PICK b \in S : m = Cardinality(Above(b))
  BY ZenonT(60)
<1>7. \A c \in S : nChainWork[c] <= nChainWork[b]
  <2> SUFFICES ASSUME NEW c \in S, nChainWork[c] > nChainWork[b]
               PROVE  FALSE
    BY <1>3
  <2>1. c \notin Above(c) /\ Above(c) \cup {c} \in SUBSET Above(b)
    BY <1>3
  <2>2. Cardinality(Above(c) \cup {c}) = Cardinality(Above(c)) + 1
    BY ZenonT(60), <1>2, <2>1, FS_AddElement
  <2>3. Cardinality(Above(c) \cup {c}) <= Cardinality(Above(b))
    BY ZenonT(60), <1>2, <2>1, FS_Subset
  <2>4. Cardinality(Above(b)) <= Cardinality(Above(c))
    BY ZenonT(60), <1>5, <1>6
  <2> HIDE DEF Above
  <2> QED BY <1>2, <2>2, <2>3, <2>4
<1> QED BY ZenonT(60), <1>7

-----------------------------------------------------------------------------
(* The invariants from one state to the next.                              *)

\* The peers' block pointers stay right when the index and the data only grow.
LEMMA PointersKept ==
    ASSUME NEW d, NEW e, NEW index, NEW have, NEW index2, NEW have2,
           Pointed(d, index, have), SamePointers(d, e), index \subseteq index2, have \subseteq have2
    PROVE  Pointed(e, index2, have2)
BY ZenonT(60) DEF Pointed, SamePointers

\* One peer learns of a block, or its walk moves on.
LEMMA PointersMoved ==
    ASSUME NEW d, NEW e, NEW index, NEW have, NEW index2, NEW have2, NEW p \in Nodes(d), NEW t,
           Pointed(d, index, have), Replaced(d, e, p, t), index \subseteq index2, have \subseteq have2,
           t.pindexBestKnownBlock \in {d.mapNodeState[p].pindexBestKnownBlock} \cup index2,
           \/ t.pindexLastCommonBlock = d.mapNodeState[p].pindexLastCommonBlock
           \/ t.pindexLastCommonBlock \in Block /\ Branch(t.pindexLastCommonBlock) \subseteq have2
    PROVE  Pointed(e, index2, have2)
BY ZenonT(60) DEF Pointed, Replaced

\* Requests of different kinds, or for different blocks, are different.
LEMMA RequestsDiffer ==
    ASSUME NEW b, NEW c
    PROVE  /\ GetData(b) # GetCompact(c) /\ GetData(b) # GetBlockTxn(c) /\ GetCompact(b) # GetBlockTxn(c)
           /\ GetData(b) = GetData(c) => b = c
           /\ GetCompact(b) = GetCompact(c) => b = c
           /\ GetBlockTxn(b) = GetBlockTxn(c) => b = c
           /\ GetData(b).kind # "headers" /\ GetCompact(b).kind # "headers" /\ GetBlockTxn(b).kind # "headers"
BY ZenonT(60) DEF GetData, GetCompact, GetBlockTxn

\* Every request the node builds is a request.
LEMMA RequestTypes ==
    ASSUME NEW b \in Block, NEW c \in Block
    PROVE  /\ GetData(b) \in Request /\ GetCompact(b) \in Request /\ GetBlockTxn(b) \in Request
           /\ GetHeaders(b, c) \in Request
BY ZenonT(60) DEF GetData, GetCompact, GetBlockTxn, GetHeaders, Request

\* What is expected stays expected as long as its requests are open.
LEMMA StaysExpected ==
    ASSUME NEW d, NEW e, NEW a, NEW a2, NEW h, NEW h2, NEW have, NEW have2, NEW q, NEW c,
           Expects(d, a, h, have, q, c), have \subseteq have2,
           c \in e.mapNodeState[q].partialBlock <=> c \in d.mapNodeState[q].partialBlock,
           a[q] \cap {GetData(c), GetCompact(c), GetBlockTxn(c)} \subseteq a2[q],
           Filling(h, q, c) => Filling(h2, q, c)
    PROVE  Expects(e, a2, h2, have2, q, c)
BY ZenonT(60) DEF Expects

\* A step that leaves the blocks in flight alone and closes no request.
LEMMA QuietStep ==
    ASSUME NEW d, NEW e, NEW a, NEW a2, NEW h, NEW have, NEW have2,
           Books(d), Expecting(d, a, h, have), SameFlights(d, e), have \subseteq have2,
           \A q \in Nodes(d) : a[q] \subseteq a2[q],
           h.step = "fill" => h.peer \in Nodes(d)
    PROVE  Expecting(e, a2, h, have2) /\ Flying(e) = Flying(d)
<1>1. Flying(e) = Flying(d) /\ e.mapBlocksInFlight = d.mapBlocksInFlight
  BY ZenonT(60) DEF SameFlights, Flying
<1>2. \A c \in Flying(d) : d.mapBlocksInFlight[c] \in Nodes(d)
  BY ZenonT(60) DEF Books
<1>3. \A c \in Flying(d) : Expects(e, a2, h, have2, d.mapBlocksInFlight[c], c)
  <2> TAKE c \in Flying(d)
  <2> DEFINE q == d.mapBlocksInFlight[c]
  <2>1. q \in Nodes(d) /\ Expects(d, a, h, have, q, c)
    BY ZenonT(60), <1>2 DEF Expecting
  <2> HIDE DEF q
  <2>2. c \in e.mapNodeState[q].partialBlock <=> c \in d.mapNodeState[q].partialBlock
    BY ZenonT(60), <2>1 DEF SameFlights
  <2>3. a[q] \cap {GetData(c), GetCompact(c), GetBlockTxn(c)} \subseteq a2[q]
    BY ZenonT(60), <2>1
  <2>4. Expects(e, a2, h, have2, q, c)
    BY ZenonT(60), <2>1, <2>2, <2>3, StaysExpected
  <2> QED BY ZenonT(60), <2>4 DEF q
<1>4. h.step = "fill" => h.block \in e.mapNodeState[h.peer].partialBlock
  BY ZenonT(60) DEF Expecting, SameFlights
<1> QED BY ZenonT(60), <1>1, <1>3, <1>4 DEF Expecting

-----------------------------------------------------------------------------
(* The chain.                                                              *)

Grows == headers \subseteq headers' /\ data \subseteq data'

\* After headers are added pindexBestHeader is one of them.
LEMMA BestHeader ==
    ASSUME ChainInv, NEW new \in SUBSET Block, AddHeaders(new)
    PROVE  bestHeader' \in headers' /\ headers' \in SUBSET Block
<1> DEFINE more == {b \in new : nChainWork[b] > nChainWork[bestHeader]}
<1>1. headers' = headers \cup new
  BY ZenonT(60) DEF AddHeaders
<1>2. CASE more = {}
  <2>1. bestHeader' = bestHeader
    BY ZenonT(60), <1>2 DEF AddHeaders
  <2> QED BY ZenonT(60), <1>1, <2>1 DEF ChainInv
<1>3. CASE more # {}
  <2>1. bestHeader' = CHOOSE b \in more : \A c \in more : nChainWork[c] <= nChainWork[b]
    BY ZenonT(60), <1>3 DEF AddHeaders
  <2>2. more \in SUBSET Block
    BY ZenonT(60)
  <2>3. \E b \in more : \A c \in more : nChainWork[c] <= nChainWork[b]
    BY ZenonT(60), <1>3, <2>2, MostWork
  <2>4. bestHeader' \in more
    BY ZenonT(60), <2>1, <2>3
  <2> QED BY ZenonT(60), <1>1, <2>4 DEF ChainInv
<1> QED BY ZenonT(60), <1>2, <1>3

\* Headers are added with the branches they are on.
LEMMA HeadersAdded ==
    ASSUME ChainInv, NEW new \in SUBSET Block, AddHeaders(new),
           \A b \in new : Branch(b) \subseteq headers \cup new
    PROVE  /\ bestHeader' \in headers' /\ headers' \in SUBSET Block /\ headers \subseteq headers'
           /\ \A b \in headers' : Branch(b) \subseteq headers'
<1>1. headers' = headers \cup new
  BY ZenonT(60) DEF AddHeaders
<1>2. \A b \in headers' : Branch(b) \subseteq headers'
  BY ZenonT(60), <1>1 DEF ChainInv
<1> QED BY ZenonT(60), <1>1, <1>2, BestHeader

\* A step that adds only headers with their branches keeps the invariant of the chain.
LEMMA OnlyHeaders ==
    ASSUME ChainInv, UNCHANGED <<data, tip>>,
           bestHeader' \in headers', headers' \in SUBSET Block, headers \subseteq headers',
           \A b \in headers' : Branch(b) \subseteq headers'
    PROVE  ChainInv' /\ Grows
BY ZenonT(60) DEF ChainInv, Grows, Linked

\* The branch of a block whose parent has a header.
LEMMA ParentBranch ==
    ASSUME ChainInv, NEW b \in Block \ {Genesis}, pprev(b) \in headers
    PROVE  Branch(b) \subseteq headers \cup {b}
<1>1. Branch(pprev(b)) \subseteq headers
  BY ZenonT(60) DEF ChainInv
<1>2. ASSUME NEW a \in Branch(b), a # b PROVE a \in Branch(pprev(b))
  BY ZenonT(60), <1>2, Parent DEF Branch
<1> QED BY ZenonT(60), <1>1, <1>2

\* The headers of last's branch above a block that has a header.
LEMMA UpperBranch ==
    ASSUME ChainInv, NEW last \in Block, NEW low \in 0 .. nHeight(last), GetAncestor(last, low) \in headers
    PROVE  LET new == BlocksBetween(last, low, nHeight(last))
           IN  new \in SUBSET Block /\ (\A b \in new : Branch(b) \subseteq headers \cup new)
               /\ last \in headers \cup new
<1> DEFINE new == BlocksBetween(last, low, nHeight(last))
           root == GetAncestor(last, low)
<1>0. nHeight(last) \in Nat
  BY ZenonT(60), Heights
<1>1. new \in SUBSET Block /\ new \subseteq Branch(last)
  BY ZenonT(60), BranchBlocks DEF BlocksBetween
<1>2. root \in Block /\ nHeight(root) = low /\ OnBranch(root, last)
  BY ZenonT(60), AncestorOnBranch
<1>3. ASSUME NEW a \in Branch(last) PROVE a \in headers \cup new
  <2>1. a \in Block /\ OnBranch(a, last) /\ nHeight(a) \in 0 .. nHeight(last)
    BY ZenonT(60), BranchBlocks DEF Branch
  <2>2. CASE nHeight(a) > low
    <3>1. nHeight(a) \in (low + 1) .. nHeight(last)
      BY <1>0, <2>1, <2>2
    <3> QED BY ZenonT(60), <3>1 DEF BlocksBetween
  <2>3. CASE nHeight(a) <= low
    <3>1. OnBranch(a, root)
      BY ZenonT(60), <1>2, <2>1, <2>3, AncestorsComparable DEF nHeight
    <3>2. a \in Branch(root)
      BY ZenonT(60), <2>1, <3>1 DEF Branch
    <3> QED BY ZenonT(60), <3>2 DEF ChainInv
  <2> QED BY <1>0, <2>1, <2>2, <2>3
<1>4. \A b \in new : Branch(b) \subseteq headers \cup new
  BY ZenonT(60), <1>1, <1>3, BranchBlocks
<1>5. last \in headers \cup new
  BY ZenonT(60), <1>3, BranchBlocks
<1> QED BY ZenonT(60), <1>1, <1>4, <1>5

\* ProcessNewBlock keeps the invariant of the chain, stored or not.
LEMMA BlockProcessed ==
    ASSUME ChainInv, NEW b \in Block \ {Genesis}, NEW forced, ProcessNewBlock(b, forced)
    PROVE  ChainInv' /\ Grows
<1>1. CASE pprev(b) \notin headers
  <2>1. UNCHANGED chain
    BY ZenonT(60), <1>1 DEF ProcessNewBlock
  <2> QED BY ZenonT(60), <2>1 DEF chain, ChainInv, Grows, Linked
<1>2. CASE pprev(b) \in headers
  <2>1. AddHeaders({b}) /\ data' = (IF Accepts(b, forced) THEN data \cup {b} ELSE data) /\ ActivateBestChain(data')
    BY ZenonT(60), <1>2 DEF ProcessNewBlock
  <2>2. /\ bestHeader' \in headers' /\ headers' \in SUBSET Block /\ headers \subseteq headers'
        /\ \A c \in headers' : Branch(c) \subseteq headers'
    BY ZenonT(60), <1>2, <2>1, ParentBranch, HeadersAdded
  <2>3. headers' = headers \cup {b}
    BY ZenonT(60), <2>1 DEF AddHeaders
  <2>4. data \subseteq data' /\ data' \subseteq headers'
    BY ZenonT(60), <2>1, <2>3 DEF ChainInv
  <2>5. tip' \in data' /\ Branch(tip') \subseteq data'
    <3> DEFINE linked == {c \in data' : Branch(c) \subseteq data' /\ nHeight(c) > nHeight(tip)}
    <3>1. tip' = tip \/ tip' \in linked
      BY ZenonT(60), <2>1 DEF ActivateBestChain
    <3>2. CASE tip' = tip
      BY ZenonT(60), <2>4, <3>2 DEF ChainInv, Linked
    <3> QED BY ZenonT(60), <3>1, <3>2
  <2> QED BY ZenonT(60), <2>2, <2>4, <2>5 DEF ChainInv, Grows, Linked
<1> QED BY ZenonT(60), <1>1, <1>2

\* A step that leaves the chain alone keeps its invariant.
LEMMA ChainKept ==
    ASSUME ChainInv, UNCHANGED chain
    PROVE  ChainInv' /\ Grows
BY ZenonT(60) DEF ChainInv, Grows, Linked, chain

-----------------------------------------------------------------------------
(* The requests, the turns and what is fetched.                            *)

\* The connected peers are the ones of mapNodeState, and only they hold blocks in flight.
LEMMA Connection ==
    ASSUME Exact(dl)
    PROVE  /\ Connected = Nodes(dl) /\ Connected \subseteq Peer /\ Books(dl)
           /\ \A p \in Connected : dl.mapNodeState[p] \in NodeState
           /\ \A b \in Flying(dl) : b \in Block /\ dl.mapBlocksInFlight[b] \in Connected
BY ZenonT(60) DEF Exact, Books, Connected, Nodes

\* What sending requests does to the sets of open requests.
LEMMA Asks ==
    ASSUME asked \in [Peer -> SUBSET Request], NEW p \in Peer, NEW requests \in SUBSET Request, Ask(p, requests)
    PROVE  /\ asked' \in [Peer -> SUBSET Request]
           /\ asked'[p] = asked[p] \cup requests
           /\ \A q \in Peer : asked[q] \subseteq asked'[q]
BY ZenonT(60) DEF Ask

\* What answering requests, and sending others, does to the sets of open requests.
LEMMA Answers ==
    ASSUME asked \in [Peer -> SUBSET Request], NEW p \in Peer, NEW answered,
           NEW requests \in SUBSET Request, AskAnswered(p, answered, requests)
    PROVE  /\ asked' \in [Peer -> SUBSET Request]
           /\ asked'[p] = (asked[p] \ answered) \cup requests
           /\ \A q \in Peer \ {p} : asked'[q] = asked[q]
BY ZenonT(60) DEF AskAnswered

\* A message handler that is between two sections has a connected peer and a block.
LEMMA HandlerSteps ==
    ASSUME ThreadInv
    PROVE  handler.step # "idle" => handler.peer \in Connected /\ handler.block \in Block \ {Genesis}
BY DEF ThreadInv, Idle

\* A state of the download has its own pointers and flights.
LEMMA SameBooks ==
    ASSUME NEW d
    PROVE  SamePointers(d, d) /\ SameFlights(d, d)
BY ZenonT(60) DEF SamePointers, SameFlights

\* The getheaders of a starting sync is a request.
LEMMA SyncRequests ==
    ASSUME IInv, NEW p \in Peer, NEW d, NEW e
    PROVE  SyncRequest(d, e, p) \in SUBSET Request
<1>1. bestHeader \in Block /\ Genesis \in Block
  BY ZenonT(60), BlockTreeAssumption DEF IInv, ChainInv
<1>2. (IF bestHeader = Genesis THEN Genesis ELSE pprev(bestHeader)) \in Block
  BY ZenonT(60), <1>1, Parent
<1>3. PeerTip[p] \in Block
  BY ZenonT(60), BlockDownloadAssumption
<1> QED BY ZenonT(60), <1>2, <1>3, RequestTypes DEF SyncRequest

Requests(b) == {GetData(b), GetCompact(b), GetBlockTxn(b)}

\* What the message thread does next, other than to fill in a compact block.
Busy == [step : {"process", "reconstructed", "release"}, peer : Connected,
         block : Block \ {Genesis}, forced : BOOLEAN]

\* Requests for different blocks have nothing in common.
LEMMA OtherRequests ==
    ASSUME NEW b, NEW c, b # c
    PROVE  Requests(b) \cap Requests(c) = {}
BY ZenonT(60), RequestsDiffer DEF Requests

\* The compact block of b is kept for p.
PartialAdded(d, e, p, b) ==
    \A q \in Nodes(d) : e.mapNodeState[q].partialBlock =
        IF q = p THEN d.mapNodeState[q].partialBlock \cup {b} ELSE d.mapNodeState[q].partialBlock

\* The turn of a peer, and the messages that count.
LEMMA TurnFacts ==
    ASSUME IInv, NEW p, Turn(p)
    PROVE  /\ p \in Nodes(dl) /\ p \in Connected /\ p \in Peer /\ handler = Idle /\ handler.step = "idle"
           /\ Exact(dl) /\ dl.mapNodeState[p] \in NodeState
<1>1. p \in Connected /\ handler = Idle
  BY ZenonT(60) DEF Turn
<1> QED BY ZenonT(60), <1>1, Connection DEF IInv, Idle

\* A peer's message is handled in that peer's turn, within the bound on unasked messages.
LEMMA TakesFacts ==
    ASSUME IInv, NEW p, NEW request, Takes(p, request)
    PROVE  Turn(p) /\ unasked' \in 0 .. MaxUnasked
BY BlockDownloadAssumption DEF Takes, IInv, ThreadInv

\* The requests for a block c in flight from q are open, or others that do.
StillAsked(q, c) ==
    \/ asked[q] \cap Requests(c) \subseteq asked'[q]
    \/ c \in data' \/ GetData(c) \in asked'[q]
    \/ c \in dl.mapNodeState[q].partialBlock /\ asked[q] \ {GetCompact(c)} \subseteq asked'[q]

\* FindNextBlocksToDownload starts from a block whose branch has arrived.
LEMMA CommonIsLinked ==
    ASSUME ChainInv, NEW s, s.pindexBestKnownBlock \in Block,
           s.pindexLastCommonBlock # NoBlock =>
               s.pindexLastCommonBlock \in Block /\ Branch(s.pindexLastCommonBlock) \subseteq data
    PROVE  CommonBlock(s) \in Block /\ Branch(CommonBlock(s)) \subseteq data
<1> DEFINE best == s.pindexBestKnownBlock
           h == IF nHeight(best) < nHeight(tip) THEN nHeight(best) ELSE nHeight(tip)
           guess == IF s.pindexLastCommonBlock # NoBlock THEN s.pindexLastCommonBlock ELSE GetAncestor(tip, h)
<1>1. tip \in Block /\ Branch(tip) \subseteq data
  BY ZenonT(60) DEF ChainInv, Linked
<1>2. h \in 0 .. nHeight(tip)
  BY <1>1, Heights
<1>3. GetAncestor(tip, h) \in Branch(tip)
  BY ZenonT(60), <1>1, <1>2, AncestorOnBranch DEF Branch
<1>4. guess \in Block /\ Branch(guess) \subseteq data
  <2>1. CASE s.pindexLastCommonBlock # NoBlock
    BY ZenonT(60), <2>1
  <2>2. CASE s.pindexLastCommonBlock = NoBlock
    <3>1. guess = GetAncestor(tip, h)
      BY ZenonT(60), <2>2
    <3> QED BY ZenonT(60), <1>1, <1>3, <3>1, BranchBlocks
  <2> QED BY ZenonT(60), <2>1, <2>2
<1>5. CommonBlock(s) = LastCommonAncestor(guess, best)
  BY ZenonT(60) DEF CommonBlock
<1> HIDE DEF guess
<1>6. CommonBlock(s) \in Branch(guess)
  BY ZenonT(60), <1>4, <1>5, CommonAncestor
<1> QED BY ZenonT(60), <1>4, <1>6, BranchBlocks

\* The last linked block of FindNextBlocksToDownload's walk has the data of its whole branch.
LEMMA WalkIsLinked ==
    ASSUME NEW best \in Block, NEW walk \in SUBSET Branch(best), NEW low \in Block, Branch(low) \subseteq data
    PROVE  LastLinked(low, walk) \in Block /\ Branch(LastLinked(low, walk)) \subseteq data
<1> DEFINE linked == {b \in walk : Linked(b)}
<1>1. CASE linked = {}
  BY ZenonT(60), <1>1 DEF LastLinked
<1>2. CASE linked # {}
  <2>1. LastLinked(low, walk) = Highest(linked)
    BY ZenonT(60), <1>2 DEF LastLinked
  <2>2. Highest(linked) \in linked
    BY ZenonT(60), <1>2, HighestOfBranch
  <2> QED BY ZenonT(60), <2>1, <2>2, BranchBlocks DEF Linked
<1> QED BY ZenonT(60), <1>1, <1>2

\* The peer FindNextBlocksToDownload names as staller has a block in flight.
LEMMA StallerHolds ==
    ASSUME NEW d, Exact(d), NEW p, NEW common, NEW walk \in SUBSET Block,
           NodeStaller(d, p, common, walk) # NoPeer
    PROVE  /\ NodeStaller(d, p, common, walk) \in Nodes(d)
           /\ HeldBy(d, NodeStaller(d, p, common, walk)) # {}
<1> DEFINE waiting == {b \in walk \ data : InFlight(d, b)}
           b == Lowest(waiting)
<1>1. waiting # {} /\ NodeStaller(d, p, common, walk) = Holder(d, b)
  BY ZenonT(60) DEF NodeStaller
<1>2. b \in waiting
  BY ZenonT(60), <1>1, LowestOf
<1> HIDE DEF b
<1>3. b \in Flying(d) /\ Holder(d, b) = d.mapBlocksInFlight[b]
  BY ZenonT(60), <1>2 DEF InFlight, Flying, Holder
<1>4. d.mapBlocksInFlight[b] \in Nodes(d) /\ b \in HeldBy(d, d.mapBlocksInFlight[b])
  BY ZenonT(60), <1>3 DEF Exact, Books, HeldBy
<1> QED BY ZenonT(60), <1>1, <1>3, <1>4

\* The number of blocks in flight from a peer, and the room that is left.
LEMMA Room ==
    ASSUME NEW d, Exact(d), NEW p \in Nodes(d), NEW b \in Block, NEW S \in SUBSET Branch(b),
           NEW n, n = MAX_BLOCKS_IN_TRANSIT_PER_PEER - d.mapNodeState[p].nBlocksInFlight
    PROVE  FirstOf(S, n) \subseteq S /\ HasRoom(d, p, FirstOf(S, n))
<1> DEFINE blocks == FirstOf(S, n)
           new == {c \in blocks : ~InFlight(d, c)}
<1>1. /\ d.mapNodeState[p].nBlocksInFlight = Cardinality(HeldBy(d, p))
      /\ Cardinality(HeldBy(d, p)) \in Nat
      /\ Cardinality(HeldBy(d, p)) <= MAX_BLOCKS_IN_TRANSIT_PER_PEER
  BY ZenonT(60), HeldFinite DEF Exact, NodeExact
<1>2. n \in Nat /\ MAX_BLOCKS_IN_TRANSIT_PER_PEER \in Nat
  BY <1>1, BlockDownloadAssumption
<1>3. blocks \subseteq S /\ IsFiniteSet(blocks) /\ Cardinality(blocks) \in Nat /\ Cardinality(blocks) <= n
  BY ZenonT(60), <1>2, FirstBlocks
<1> HIDE DEF blocks
<1>4. IsFiniteSet(new) /\ Cardinality(new) \in Nat /\ Cardinality(new) <= Cardinality(blocks)
  BY ZenonT(60), <1>3, FS_Subset, FS_CardinalityType
<1> HIDE DEF new
<1>5. Cardinality(HeldBy(d, p)) + Cardinality(new) <= MAX_BLOCKS_IN_TRANSIT_PER_PEER
  BY <1>1, <1>2, <1>3, <1>4
<1> QED BY ZenonT(60), <1>3, <1>5 DEF blocks, new, HasRoom

\* The same for every set of blocks of a branch.
LEMMA RoomOnBranch ==
    ASSUME NEW d, Exact(d), NEW p \in Nodes(d), NEW b \in Block
    PROVE  \A S \in SUBSET Branch(b) : \A n :
              n = MAX_BLOCKS_IN_TRANSIT_PER_PEER - d.mapNodeState[p].nBlocksInFlight
              => FirstOf(S, n) \subseteq S /\ HasRoom(d, p, FirstOf(S, n))
BY ZenonT(60), Room

\* FindNextBlocksToDownload walks, and asks for, blocks of the peer's best branch only.
LEMMA WalkBlocks ==
    ASSUME NEW s, s.pindexBestKnownBlock \in Block, NEW common, NEW d
    PROVE  /\ Walk(s, common) \in SUBSET Branch(s.pindexBestKnownBlock)
           /\ ToDownload(d, common, Walk(s, common)) \in SUBSET Branch(s.pindexBestKnownBlock)
BY ZenonT(60) DEF Walk, BlocksBetween, ToDownload

\* The answer to a request for headers.
LEMMA HeadersAnswered ==
    ASSUME IInv, NEW p \in Peer, NEW answered, \A r \in answered : r.kind = "headers",
           NEW requests \in SUBSET Request, AskAnswered(p, answered, requests)
    PROVE  /\ asked' \in [Peer -> SUBSET Request] /\ asked'[p] = (asked[p] \ answered) \cup requests
           /\ \A c \in Flying(dl) : StillAsked(dl.mapBlocksInFlight[c], c)
<1>1. /\ asked' \in [Peer -> SUBSET Request]
      /\ asked'[p] = (asked[p] \ answered) \cup requests
      /\ \A q \in Peer \ {p} : asked'[q] = asked[q]
  BY ZenonT(60), Answers DEF IInv, ThreadInv
<1>2. ASSUME NEW c PROVE Requests(c) \cap answered = {}
  BY ZenonT(60), RequestsDiffer DEF Requests
<1>3. ASSUME NEW c, NEW q \in Peer PROVE asked[q] \cap Requests(c) \subseteq asked'[q]
  BY ZenonT(60), <1>1, <1>2
<1>4. \A c \in Flying(dl) : dl.mapBlocksInFlight[c] \in Peer
  BY ZenonT(60), Connection DEF IInv
<1> QED BY ZenonT(60), <1>1, <1>3, <1>4 DEF StillAsked

\* Direct fetch takes blocks of the branch that was announced, up to the limit.
LEMMA FetchedBlocks ==
    ASSUME NEW d, Exact(d), NEW p \in Nodes(d), NEW last \in Block
    PROVE  DirectFetch(d, p, last) \in SUBSET Branch(last) /\ HasRoom(d, p, DirectFetch(d, p, last))
<1> DEFINE S == ToFetch(d, last)
           n == MAX_BLOCKS_IN_TRANSIT_PER_PEER - d.mapNodeState[p].nBlocksInFlight
           fork == nHeight(LastCommonAncestor(last, tip))
           miss == {b \in BlocksBetween(last, fork, nHeight(last)) \ data : ~InFlight(d, b)}
<1>1. miss \subseteq Branch(last)
  BY ZenonT(60) DEF BlocksBetween
<1>2. S = miss \/ S = {}
  BY ZenonT(60) DEF ToFetch
<1>3. S \in SUBSET Branch(last)
  BY ZenonT(60), <1>1, <1>2
<1>4. DirectFetch(d, p, last) = FirstOf(S, n) \/ DirectFetch(d, p, last) = {}
  BY ZenonT(60) DEF DirectFetch
<1> HIDE DEF S
<1>5. FirstOf(S, n) \subseteq S /\ HasRoom(d, p, FirstOf(S, n))
  BY ZenonT(60), <1>3, Room
<1>6. HasRoom(d, p, {})
  <2>1. Cardinality(HeldBy(d, p)) \in Nat /\ Cardinality(HeldBy(d, p)) <= MAX_BLOCKS_IN_TRANSIT_PER_PEER
    BY ZenonT(60), HeldFinite DEF Exact, NodeExact
  <2>2. {b \in {} : ~InFlight(d, b)} = {} /\ Cardinality({}) = 0
    BY ZenonT(60), FS_EmptySet
  <2> QED BY <2>1, <2>2 DEF HasRoom
<1> QED BY ZenonT(60), <1>3, <1>4, <1>5, <1>6

\* A peer that announces a block, or sends its header.
LEMMA AvailabilityStep ==
    ASSUME IInv, NEW p \in Nodes(dl), NEW b \in Block, NEW index \in SUBSET Block,
           NEW index2, index \subseteq index2, headers \subseteq index2
    PROVE  LET d == WithState(dl, p, UpdateBlockAvailability(dl.mapNodeState[p], index, b))
           IN  Exact(d) /\ SameFlights(dl, d) /\ Pointed(d, index2, data)
<1> DEFINE s == dl.mapNodeState[p]
           t == UpdateBlockAvailability(s, index, b)
           d == WithState(dl, p, t)
<1>1. s \in NodeState /\ Exact(dl)
  BY ZenonT(60), Connection DEF IInv, Connected, Nodes
<1>2. /\ SameCounts(s, t)
      /\ t.pindexBestKnownBlock \in {s.pindexBestKnownBlock} \cup index
      /\ t.pindexLastCommonBlock = s.pindexLastCommonBlock
  BY ZenonT(60), <1>1, AvailabilityUpdated
<1> HIDE DEF t
<1>3. Exact(d) /\ SameFlights(dl, d) /\ Replaced(dl, d, p, t)
  BY ZenonT(60), <1>1, <1>2, StateKept
<1> HIDE DEF d
<1>4. Pointed(d, index2, data)
  BY ZenonT(60), <1>2, <1>3, PointersMoved DEF IInv, NamedInv
<1> QED BY ZenonT(60), <1>3, <1>4 DEF d, t

\* A compact block of b closes one request.
LEMMA CompactAnswered ==
    ASSUME IInv, NEW p \in Peer, NEW b, NEW requests \in SUBSET Request,
           AskAnswered(p, {GetCompact(b)}, requests)
    PROVE  /\ asked' \in [Peer -> SUBSET Request]
           /\ requests \subseteq asked'[p]
           /\ \A q \in Peer : asked[q] \ {GetCompact(b)} \subseteq asked'[q]
           /\ \A q \in Peer : \A c : c # b => asked[q] \cap Requests(c) \subseteq asked'[q]
           /\ \A c \in Flying(dl) : c # b \/ dl.mapBlocksInFlight[c] # p => StillAsked(dl.mapBlocksInFlight[c], c)
<1>1. /\ asked' \in [Peer -> SUBSET Request]
      /\ asked'[p] = (asked[p] \ {GetCompact(b)}) \cup requests
      /\ \A q \in Peer \ {p} : asked'[q] = asked[q]
  BY ZenonT(60), Answers DEF IInv, ThreadInv
<1>2. \A q \in Peer : asked[q] \ {GetCompact(b)} \subseteq asked'[q]
  BY ZenonT(60), <1>1
<1>3. ASSUME NEW c, c # b PROVE GetCompact(b) \notin Requests(c)
  BY ZenonT(60), <1>3, RequestsDiffer DEF Requests
<1>4. \A q \in Peer : \A c : c # b => asked[q] \cap Requests(c) \subseteq asked'[q]
  BY ZenonT(60), <1>2, <1>3
<1>5. \A c \in Flying(dl) : c # b \/ dl.mapBlocksInFlight[c] # p => StillAsked(dl.mapBlocksInFlight[c], c)
  <2> TAKE c \in Flying(dl)
  <2> DEFINE q == dl.mapBlocksInFlight[c]
  <2>1. q \in Peer
    BY ZenonT(60), Connection DEF IInv
  <2> HIDE DEF q
  <2>2. CASE c # b
    BY ZenonT(60), <1>4, <2>1, <2>2 DEF StillAsked, q
  <2>3. CASE q # p
    BY ZenonT(60), <1>1, <2>1, <2>3 DEF StillAsked, q
  <2> QED BY ZenonT(60), <2>2, <2>3 DEF q
<1> QED BY ZenonT(60), <1>1, <1>2, <1>4, <1>5

\* There is room for a compact block that may be downloaded from p.
LEMMA CompactRoom ==
    ASSUME NEW d, Exact(d), NEW p \in Nodes(d), NEW b \in Block, TakesCompact(d, p, b)
    PROVE  HasRoom(d, p, {b}) /\ (b \in Flying(d) => d.mapBlocksInFlight[b] = p)
<1> DEFINE new == {c \in {b} : ~InFlight(d, c)}
<1>1. /\ d.mapNodeState[p].nBlocksInFlight = Cardinality(HeldBy(d, p))
      /\ Cardinality(HeldBy(d, p)) \in Nat
      /\ Cardinality(HeldBy(d, p)) <= MAX_BLOCKS_IN_TRANSIT_PER_PEER
      /\ p \in Peer
  BY ZenonT(60), HeldFinite, FS_CardinalityType DEF Exact, NodeExact, Books, Shaped
<1>2. CASE ~InFlight(d, b)
  <2>1. Cardinality(HeldBy(d, p)) < MAX_BLOCKS_IN_TRANSIT_PER_PEER
    <3>1. Holder(d, b) # p
      BY ZenonT(60), <1>1, <1>2, BlockDownloadAssumption DEF Holder, InFlight
    <3> QED BY ZenonT(60), <1>1, <3>1 DEF TakesCompact
  <2>2. new = {b}
    BY ZenonT(60), <1>2
  <2>3. Cardinality(new) = 1
    BY ZenonT(60), <2>2, FS_Singleton
  <2>4. b \notin Flying(d)
    BY ZenonT(60), <1>2 DEF InFlight, Flying
  <2> HIDE DEF new
  <2>5. Cardinality(HeldBy(d, p)) + Cardinality(new) <= MAX_BLOCKS_IN_TRANSIT_PER_PEER
    BY <1>1, <2>1, <2>3, BlockDownloadAssumption
  <2> QED BY ZenonT(60), <2>4, <2>5 DEF HasRoom, new
<1>3. CASE InFlight(d, b)
  <2>1. d.mapBlocksInFlight[b] = p
    BY ZenonT(60), <1>3 DEF TakesCompact, InFlight, Holder
  <2>2. new = {}
    BY ZenonT(60), <1>3
  <2>3. Cardinality(new) = 0
    BY ZenonT(60), <2>2, FS_EmptySet
  <2> HIDE DEF new
  <2>4. Cardinality(HeldBy(d, p)) + Cardinality(new) <= MAX_BLOCKS_IN_TRANSIT_PER_PEER
    BY <1>1, <2>3
  <2> QED BY ZenonT(60), <2>1, <2>4 DEF HasRoom, new
<1> QED BY ZenonT(60), <1>2, <1>3

\* Marked as in flight and taken out of flight again: the block is released.
LEMMA ReleasedAgain ==
    ASSUME NEW d, NEW e, NEW f, NEW g, NEW h, NEW p, NEW b, Added(d, e, p, {b}),
           SamePointers(e, f), f.mapBlocksInFlight = e.mapBlocksInFlight,
           \A q \in Nodes(e) : f.mapNodeState[q].partialBlock =
               IF q = p THEN e.mapNodeState[q].partialBlock \cup {b} ELSE e.mapNodeState[q].partialBlock,
           Dropped(f, g, b), SamePointers(g, h), SameFlights(g, h)
    PROVE  Dropped(d, h, b)
<1>1. Nodes(e) = Nodes(d) /\ Nodes(f) = Nodes(d) /\ Nodes(g) = Nodes(d) /\ Nodes(h) = Nodes(d)
  BY ZenonT(60) DEF Added, Dropped, SamePointers
<1>2. SamePointers(d, h)
  BY <1>1 DEF Added, Dropped, SamePointers
<1>3. Flying(h) = Flying(d) \ {b} /\ (\A c \in Flying(h) : h.mapBlocksInFlight[c] = d.mapBlocksInFlight[c])
  <2>1. Flying(h) = Flying(g) /\ Flying(g) = Flying(f) \ {b} /\ Flying(f) = Flying(d) \cup {b}
    BY ZenonT(60) DEF Added, Dropped, SameFlights, Flying
  <2>2. \A c \in Flying(h) : h.mapBlocksInFlight[c] = f.mapBlocksInFlight[c]
    BY ZenonT(60), <2>1 DEF Dropped, SameFlights
  <2>3. \A c \in Flying(h) : f.mapBlocksInFlight[c] = d.mapBlocksInFlight[c]
    <3>1. \A c \in Flying(h) : c \in Flying(d) /\ c \in Flying(e)
      BY ZenonT(60), <2>1 DEF Added
    <3> QED BY ZenonT(60), <3>1 DEF Added
  <2> QED BY ZenonT(60), <2>1, <2>2, <2>3
<1>4. ASSUME NEW q \in Nodes(d)
      PROVE  h.mapNodeState[q].partialBlock = d.mapNodeState[q].partialBlock \ {b}
  <2>1. e.mapNodeState[q].partialBlock = d.mapNodeState[q].partialBlock
    BY ZenonT(60) DEF Added
  <2>2. f.mapNodeState[q].partialBlock \ {b} = e.mapNodeState[q].partialBlock \ {b}
    BY ZenonT(60), <1>1
  <2>3. h.mapNodeState[q].partialBlock = f.mapNodeState[q].partialBlock \ {b}
    BY ZenonT(60), <1>1 DEF Dropped, SameFlights
  <2> QED BY ZenonT(60), <2>1, <2>2, <2>3
<1> QED BY ZenonT(60), <1>2, <1>3, <1>4 DEF Dropped

\* The empty function, which mapNodeState and mapBlocksInFlight start as.
LEMMA NoFunction ==
    ASSUME NEW S
    PROVE  DOMAIN <<>> = {} /\ <<>> \in [{} -> S]
<1>1. DOMAIN <<>> = {}
  OBVIOUS
<1> QED BY <1>1

-----------------------------------------------------------------------------
(* The actions that leave the blocks in flight alone.                      *)

\* An action that leaves the blocks in flight alone and drops no request keeps the invariant.
LEMMA QuietAction ==
    ASSUME IInv, ChainInv', Grows, Exact(dl'), SameFlights(dl, dl'), Pointed(dl', headers', data'),
           asked' \in [Peer -> SUBSET Request], \A q \in Peer : asked[q] \subseteq asked'[q],
           UNCHANGED <<gone, handler>>, fDisconnect' \subseteq Connected, unasked' \in 0 .. MaxUnasked
    PROVE  IInv'
<1>1. Connected \subseteq Peer /\ Connected = Nodes(dl) /\ Books(dl)
  BY ZenonT(60), Connection DEF IInv
<1>2. Connected' = Connected
  BY ZenonT(60), <1>1 DEF SameFlights, Connected, Nodes
<1>3. ThreadInv'
  BY ZenonT(60), <1>2 DEF IInv, ThreadInv, Idle
<1>4. Expecting(dl', asked', handler, data') /\ Flying(dl') = Flying(dl)
  <2>1. handler.step = "fill" => handler.peer \in Nodes(dl)
    BY ZenonT(60), <1>1, HandlerSteps DEF IInv
  <2>2. \A q \in Nodes(dl) : asked[q] \subseteq asked'[q]
    BY ZenonT(60), <1>1
  <2>3. Expecting(dl, asked, handler, data) /\ data \subseteq data'
    BY ZenonT(60) DEF IInv, ExpectedInv, Grows
  <2> QED BY ZenonT(60), <1>1, <2>1, <2>2, <2>3, QuietStep
<1>5. NamedInv'
  BY ZenonT(60), <1>4 DEF IInv, NamedInv, Grows
<1>6. ExpectedInv'
  BY ZenonT(60), <1>4 DEF ExpectedInv
<1> QED BY ZenonT(60), <1>3, <1>5, <1>6 DEF IInv

\* The bookkeeping changes in flags only.
LEMMA FlagAction ==
    ASSUME IInv, UNCHANGED chain, Exact(dl'), SameFlights(dl, dl'), SamePointers(dl, dl'),
           asked' \in [Peer -> SUBSET Request], \A q \in Peer : asked[q] \subseteq asked'[q],
           UNCHANGED <<gone, handler, unasked>>, fDisconnect' \subseteq Connected
    PROVE  IInv'
<1>1. ChainInv' /\ Grows
  BY ZenonT(60), ChainKept DEF IInv
<1>2. Pointed(dl', headers', data')
  BY ZenonT(60), <1>1, PointersKept DEF IInv, NamedInv, Grows
<1>3. unasked' \in 0 .. MaxUnasked
  BY ZenonT(60) DEF IInv, ThreadInv
<1> QED BY ZenonT(60), <1>1, <1>2, <1>3, QuietAction

\* The handler of version and verack keeps the invariant.
LEMMA VERSIONStep ==
    ASSUME IInv, NEW p \in Peer, VERSION(p)
    PROVE  IInv'
<1> DEFINE d == WithState(dl, p, [dl.mapNodeState[p] EXCEPT !.fSuccessfullyConnected = TRUE])
<1>1. p \in Nodes(dl) /\ Exact(dl) /\ dl' = UpdatePreferredDownload(d, p)
  BY ZenonT(60) DEF VERSION, IInv, Nodes, Connected
<1>2. /\ Exact(d) /\ SamePointers(dl, d) /\ SameFlights(dl, d)
      /\ d.mapNodeState[p].fSuccessfullyConnected
  BY ZenonT(60), <1>1, ConnectedSet
<1> HIDE DEF d
<1>3. p \in Nodes(d)
  BY ZenonT(60), <1>1, <1>2 DEF SamePointers
<1>4. Exact(dl') /\ SamePointers(d, dl') /\ SameFlights(d, dl')
  BY ZenonT(60), <1>1, <1>2, <1>3, PreferredUpdated
<1>5. SamePointers(dl, dl') /\ SameFlights(dl, dl')
  BY ZenonT(60), <1>2, <1>4 DEF SamePointers, SameFlights
<1>6. /\ UNCHANGED <<chain, fDisconnect, gone, asked, handler, unasked>>
  BY ZenonT(60) DEF VERSION
<1> QED BY ZenonT(60), <1>4, <1>5, <1>6, FlagAction DEF IInv, ThreadInv

\* Closing a connection keeps the invariant.
LEMMA ClosesStep ==
    ASSUME IInv, NEW p \in Peer, Closes(p)
    PROVE  IInv'
<1>1. /\ UNCHANGED <<chain, dl, gone, asked, handler, unasked>>
      /\ p \in Connected /\ fDisconnect' = fDisconnect \cup {p}
  BY ZenonT(60) DEF Closes
<1>2. fDisconnect' \subseteq Connected
  BY ZenonT(60), <1>1 DEF IInv, ThreadInv
<1>3. Exact(dl') /\ SamePointers(dl, dl') /\ SameFlights(dl, dl')
  BY ZenonT(60), <1>1, SameBooks DEF IInv
<1> QED BY ZenonT(60), <1>1, <1>2, <1>3, FlagAction DEF IInv, ThreadInv

\* CheckIfBanned keeps the invariant.
LEMMA CheckIfBannedStep ==
    ASSUME IInv, NEW p \in Peer, CheckIfBanned(p)
    PROVE  IInv'
<1>1. /\ UNCHANGED <<chain, gone, asked, handler, unasked>>
      /\ p \in Connected /\ fDisconnect' \in {fDisconnect, fDisconnect \cup {p}}
      /\ dl' = WithState(dl, p, [dl.mapNodeState[p] EXCEPT !.fShouldBan = FALSE])
  BY ZenonT(60) DEF CheckIfBanned, Turn
<1>2. fDisconnect' \subseteq Connected
  BY ZenonT(60), <1>1 DEF IInv, ThreadInv
<1>3. Exact(dl') /\ SamePointers(dl, dl') /\ SameFlights(dl, dl')
  BY ZenonT(60), <1>1, BanSet DEF IInv, Connected, Nodes
<1> QED BY ZenonT(60), <1>1, <1>2, <1>3, FlagAction DEF IInv, ThreadInv

\* Disconnecting a peer for a stall or a timeout keeps the invariant.
LEMMA TimesOutStep ==
    ASSUME IInv, NEW p \in Peer, Turn(p), TimesOut(p)
    PROVE  IInv'
<1>1. /\ UNCHANGED <<chain, gone, handler, unasked>>
      /\ p \in Connected /\ fDisconnect' = fDisconnect \cup {p}
      /\ dl' = StartSync(dl, p) /\ Ask(p, SyncRequest(dl, dl', p))
  BY ZenonT(60) DEF TimesOut, Turn
<1>2. fDisconnect' \subseteq Connected
  BY ZenonT(60), <1>1 DEF IInv, ThreadInv
<1>3. Exact(dl') /\ SamePointers(dl, dl') /\ SameFlights(dl, dl')
  BY ZenonT(60), <1>1, SyncStarts DEF IInv, Connected, Nodes
<1>4. SyncRequest(dl, dl', p) \in SUBSET Request
  BY ZenonT(60), SyncRequests
<1>5. asked' \in [Peer -> SUBSET Request] /\ \A q \in Peer : asked[q] \subseteq asked'[q]
  BY ZenonT(60), <1>1, <1>4, Asks DEF IInv, ThreadInv
<1> QED BY ZenonT(60), <1>1, <1>2, <1>3, <1>5, FlagAction

\* The handler of inv keeps the invariant.
LEMMA INVStep ==
    ASSUME IInv, NEW p \in Peer, NEW b \in Block, INV(p, b)
    PROVE  IInv'
<1> DEFINE s == dl.mapNodeState[p]
           t == UpdateBlockAvailability(s, headers, b)
<1>1. /\ UNCHANGED <<chain, fDisconnect, gone, handler>>
      /\ p \in Nodes(dl) /\ unasked < MaxUnasked /\ unasked' = unasked + 1
      /\ dl' = WithState(dl, p, t)
      /\ Ask(p, IF b \notin headers /\ ~InFlight(dl, b) THEN {GetHeaders(bestHeader, b)} ELSE {})
  BY ZenonT(60) DEF INV, Turn, Connected, Nodes
<1>2. s \in NodeState /\ headers \in SUBSET Block /\ Exact(dl) /\ bestHeader \in Block
  BY ZenonT(60), <1>1, Connection DEF IInv, ChainInv, Connected, Nodes
<1>3. /\ SameCounts(s, t)
      /\ t.pindexBestKnownBlock \in {s.pindexBestKnownBlock} \cup headers
      /\ t.pindexLastCommonBlock = s.pindexLastCommonBlock
  BY ZenonT(60), <1>2, AvailabilityUpdated
<1> HIDE DEF t
<1>4. Exact(dl') /\ SameFlights(dl, dl') /\ Replaced(dl, dl', p, t)
  BY ZenonT(60), <1>1, <1>2, <1>3, StateKept
<1>5. ChainInv' /\ Grows /\ headers' = headers
  BY ZenonT(60), <1>1, ChainKept DEF IInv, chain
<1>6. Pointed(dl', headers', data')
  BY ZenonT(60), <1>1, <1>3, <1>4, <1>5, PointersMoved DEF IInv, NamedInv, Grows
<1>7. asked' \in [Peer -> SUBSET Request] /\ \A q \in Peer : asked[q] \subseteq asked'[q]
  <2>1. (IF b \notin headers /\ ~InFlight(dl, b) THEN {GetHeaders(bestHeader, b)} ELSE {}) \in SUBSET Request
    BY ZenonT(60), <1>2, RequestTypes
  <2> QED BY ZenonT(60), <1>1, <2>1, Asks DEF IInv, ThreadInv
<1>8. unasked' \in 0 .. MaxUnasked /\ fDisconnect' \subseteq Connected
  BY <1>1, BlockDownloadAssumption DEF IInv, ThreadInv
<1> QED BY ZenonT(60), <1>1, <1>4, <1>5, <1>6, <1>7, <1>8, QuietAction

\* A block submitted locally keeps the invariant.
LEMMA SubmitBlockStep ==
    ASSUME IInv, NEW b \in Block \ {Genesis}, SubmitBlock(b)
    PROVE  IInv'
<1>1. /\ UNCHANGED <<dl, fDisconnect, gone, asked, handler>>
      /\ unasked < MaxUnasked /\ unasked' = unasked + 1
      /\ ProcessNewBlock(b, TRUE)
  BY ZenonT(60) DEF SubmitBlock
<1>2. ChainInv' /\ Grows
  BY ZenonT(60), <1>1, BlockProcessed DEF IInv
<1>3. Exact(dl') /\ SamePointers(dl, dl') /\ SameFlights(dl, dl')
  BY ZenonT(60), <1>1, SameBooks DEF IInv
<1>4. Pointed(dl', headers', data')
  BY ZenonT(60), <1>2, <1>3, PointersKept DEF IInv, NamedInv, Grows
<1>5. unasked' \in 0 .. MaxUnasked /\ fDisconnect' \subseteq Connected
  BY <1>1, BlockDownloadAssumption DEF IInv, ThreadInv
<1> QED BY ZenonT(60), <1>1, <1>2, <1>3, <1>4, <1>5, QuietAction DEF IInv, ThreadInv

-----------------------------------------------------------------------------
(* The actions that take blocks out of flight.                             *)

\* The block b leaves, and only its requests are closed.
LEMMA ReleaseAction ==
    ASSUME IInv, ChainInv', Grows, NEW b, Exact(dl'), NEW d, SameFlights(dl, d), Dropped(d, dl', b),
           Pointed(dl', headers', data'),
           asked' \in [Peer -> SUBSET Request], \A q \in Peer : asked[q] \ Requests(b) \subseteq asked'[q],
           handler.step = "fill" => handler.block = b,
           handler' = Idle \/ handler' \in Busy,
           UNCHANGED <<gone, fDisconnect>>, unasked' \in 0 .. MaxUnasked
    PROVE  IInv'
<1>1. /\ Connected = Nodes(dl) /\ Connected \subseteq Peer /\ Books(dl)
      /\ \A c \in Flying(dl) : c \in Block /\ dl.mapBlocksInFlight[c] \in Connected
  BY ZenonT(60), Connection DEF IInv
<1>d. /\ Nodes(dl') = Nodes(dl) /\ Flying(dl') = Flying(dl) \ {b}
      /\ \A c \in Flying(dl') : dl'.mapBlocksInFlight[c] = dl.mapBlocksInFlight[c]
      /\ \A q \in Nodes(dl) : dl'.mapNodeState[q].partialBlock = dl.mapNodeState[q].partialBlock \ {b}
  BY ZenonT(60) DEF SameFlights, Dropped, SamePointers, Flying
<1>2. Connected' = Connected
  BY ZenonT(60), <1>1, <1>d DEF Connected, Nodes
<1>3. ThreadInv' /\ handler'.step # "fill"
  BY <1>2 DEF IInv, ThreadInv, Idle, Busy
<1>4. NamedInv'
  BY ZenonT(60), <1>d DEF IInv, NamedInv, Grows
<1>5. ASSUME NEW c \in Flying(dl')
      PROVE  Expects(dl', asked', handler', data', dl'.mapBlocksInFlight[c], c)
  <2> DEFINE q == dl.mapBlocksInFlight[c]
  <2>1. c \in Flying(dl) /\ c # b /\ q \in Connected /\ dl'.mapBlocksInFlight[c] = q
    BY ZenonT(60), <1>1, <1>d
  <2> HIDE DEF q
  <2>2. Expects(dl, asked, handler, data, q, c)
    BY ZenonT(60), <2>1 DEF IInv, ExpectedInv, Expecting, q
  <2>3. data \subseteq data'
    BY ZenonT(60) DEF Grows
  <2>4. c \in dl'.mapNodeState[q].partialBlock <=> c \in dl.mapNodeState[q].partialBlock
    BY ZenonT(60), <1>1, <1>d, <2>1
  <2>5. asked[q] \cap {GetData(c), GetCompact(c), GetBlockTxn(c)} \subseteq asked'[q]
    <3>1. Requests(b) \cap Requests(c) = {}
      BY ZenonT(60), <2>1, OtherRequests
    <3>2. asked[q] \ Requests(b) \subseteq asked'[q]
      BY ZenonT(60), <1>1, <2>1
    <3>3. asked[q] \cap Requests(c) \subseteq asked'[q]
      BY ZenonT(60), <3>1, <3>2
    <3> QED BY ZenonT(60), <3>3 DEF Requests
  <2>6. ~Filling(handler, q, c)
    BY ZenonT(60), <2>1 DEF Filling
  <2>7. Expects(dl', asked', handler', data', q, c)
    BY ZenonT(60), <2>2, <2>3, <2>4, <2>5, <2>6, StaysExpected
  <2> QED BY ZenonT(60), <2>1, <2>7
<1>6. ExpectedInv'
  BY ZenonT(60), <1>3, <1>5 DEF ExpectedInv, Expecting
<1> QED BY ZenonT(60), <1>3, <1>4, <1>6 DEF IInv

\* The first section of the handler of block keeps the invariant.
LEMMA BLOCKStep ==
    ASSUME IInv, NEW p \in Peer, NEW b \in Block \ {Genesis}, BLOCK(p, b)
    PROVE  IInv'
<1>1. /\ Takes(p, GetData(b)) /\ AskAnswered(p, {GetData(b)}, {})
      /\ dl' = MarkBlockAsReceived(dl, b)
      /\ handler' = Handle("process", p, b, InFlight(dl, b))
      /\ UNCHANGED <<chain, fDisconnect, gone>>
  BY ZenonT(60) DEF BLOCK
<1>2. Turn(p) /\ unasked' \in 0 .. MaxUnasked
  BY ZenonT(60), <1>1, TakesFacts
<1>3. p \in Connected /\ handler.step = "idle" /\ Exact(dl)
  BY ZenonT(60), <1>2, TurnFacts
<1>4. Exact(dl') /\ Dropped(dl, dl', b) /\ SameFlights(dl, dl)
  BY ZenonT(60), <1>1, <1>3, ReceivedExact, SameBooks
<1>5. ChainInv' /\ Grows
  BY ZenonT(60), <1>1, ChainKept DEF IInv
<1>6. Pointed(dl', headers', data')
  BY ZenonT(60), <1>4, <1>5, PointersKept DEF IInv, NamedInv, Grows, Dropped
<1>7. asked' \in [Peer -> SUBSET Request] /\ \A q \in Peer : asked[q] \ Requests(b) \subseteq asked'[q]
  BY <1>1, Answers DEF IInv, ThreadInv, Requests
<1>8. handler' \in Busy
  BY <1>1, <1>3 DEF Handle, InFlight, Busy
<1>9. UNCHANGED <<gone, fDisconnect>> /\ handler.step # "fill"
  BY ZenonT(60), <1>1, <1>3
<1> QED BY ZenonT(60), <1>2, <1>4, <1>5, <1>6, <1>7, <1>8, <1>9, ReleaseAction

\* Releasing a block that was reconstructed while another peer sends it keeps the invariant.
LEMMA HandlerReleasesStep ==
    ASSUME IInv, HandlerReleases
    PROVE  IInv'
<1> DEFINE b == handler.block
<1>1. /\ dl' = MarkBlockAsReceived(dl, b)
      /\ handler' = Idle /\ handler.step # "fill"
      /\ UNCHANGED <<chain, fDisconnect, gone, asked, unasked>>
  BY ZenonT(60) DEF HandlerReleases
<1>3. Exact(dl)
  BY ZenonT(60) DEF IInv
<1>4. Exact(dl') /\ Dropped(dl, dl', b) /\ SameFlights(dl, dl)
  BY ZenonT(60), <1>1, <1>3, ReceivedExact, SameBooks
<1>5. ChainInv' /\ Grows
  BY ZenonT(60), <1>1, ChainKept DEF IInv
<1>6. Pointed(dl', headers', data')
  BY ZenonT(60), <1>4, <1>5, PointersKept DEF IInv, NamedInv, Grows, Dropped
<1>7. /\ asked' \in [Peer -> SUBSET Request] /\ \A q \in Peer : asked[q] \ Requests(b) \subseteq asked'[q]
      /\ unasked' \in 0 .. MaxUnasked /\ UNCHANGED <<gone, fDisconnect>>
  BY ZenonT(60), <1>1 DEF IInv, ThreadInv
<1> QED BY ZenonT(60), <1>1, <1>4, <1>5, <1>6, <1>7, ReleaseAction

\* Only the thread and the chain move on.
LEMMA HandlerProcessesStep ==
    ASSUME IInv, HandlerProcesses
    PROVE  IInv'
<1>1. /\ handler.step \in {"process", "reconstructed"}
      /\ ProcessNewBlock(handler.block, handler.forced)
      /\ handler' = IF handler.step = "process" THEN Idle ELSE [handler EXCEPT !.step = "release"]
      /\ UNCHANGED <<dl, fDisconnect, gone, asked, unasked>>
  BY ZenonT(60) DEF HandlerProcesses
<1>2. handler.block \in Block \ {Genesis} /\ handler.step # "fill" /\ handler # Idle
  BY <1>1, HandlerSteps DEF IInv, Idle
<1>3. ChainInv' /\ Grows
  BY ZenonT(60), <1>1, <1>2, BlockProcessed DEF IInv
<1>4. handler' = Idle \/ handler' \in Busy
  BY ZenonT(60), <1>1, <1>2 DEF IInv, ThreadInv, Busy
<1>5. Connected' = Connected
  BY ZenonT(60), <1>1 DEF Connected
<1>6. ThreadInv' /\ handler'.step # "fill"
  BY ZenonT(60), <1>1, <1>4, <1>5 DEF IInv, ThreadInv, Idle, Busy
<1>7. Exact(dl') /\ SamePointers(dl, dl') /\ Flying(dl') = Flying(dl)
  BY ZenonT(60), <1>1, SameBooks DEF IInv
<1>8. NamedInv'
  BY ZenonT(60), <1>3, <1>7, PointersKept DEF IInv, NamedInv, Grows
<1>9. ExpectedInv'
  <2>1. ASSUME NEW c \in Flying(dl)
        PROVE  Expects(dl, asked, handler', data', dl.mapBlocksInFlight[c], c)
    BY ZenonT(60), <1>2, <1>3 DEF IInv, ExpectedInv, Expecting, Expects, Filling, Grows
  <2> QED BY ZenonT(60), <1>1, <1>6, <2>1 DEF ExpectedInv, Expecting
<1> QED BY ZenonT(60), <1>3, <1>6, <1>7, <1>8, <1>9 DEF IInv

-----------------------------------------------------------------------------
(* Peers come and go.                                                      *)

\* InitializeNode keeps the invariant.
LEMMA InitializeNodeStep ==
    ASSUME IInv, NEW p \in Peer, NEW kind \in Kinds[p], InitializeNode(p, kind)
    PROVE  IInv'
<1>1. /\ p \notin Connected /\ p \notin gone
      /\ dl' = Enter(dl, p, kind)
      /\ UNCHANGED <<chain, fDisconnect, gone, asked, handler, unasked>>
  BY ZenonT(60) DEF InitializeNode
<1>2. /\ Connected = Nodes(dl) /\ Connected \subseteq Peer /\ Books(dl)
      /\ \A c \in Flying(dl) : c \in Block /\ dl.mapBlocksInFlight[c] \in Connected
  BY ZenonT(60), Connection DEF IInv
<1>3. kind \in {"inbound", "whitelisted", "outbound"}
  BY ZenonT(60), BlockDownloadAssumption
<1>4. /\ Exact(dl') /\ Nodes(dl') = Nodes(dl) \cup {p}
      /\ dl'.mapNodeState[p] = CNodeState(kind)
      /\ \A q \in Nodes(dl) : dl'.mapNodeState[q] = dl.mapNodeState[q]
      /\ dl'.mapBlocksInFlight = dl.mapBlocksInFlight
  BY <1>1, <1>2, <1>3, Entered DEF IInv
<1>5. ChainInv' /\ Grows /\ data' = data /\ headers' = headers
  BY ZenonT(60), <1>1, ChainKept DEF IInv, chain
<1>6. Connected' = Connected \cup {p} /\ Flying(dl') = Flying(dl)
  BY ZenonT(60), <1>2, <1>4 DEF Connected, Nodes, Flying
<1>7. ThreadInv'
  BY ZenonT(60), <1>1, <1>6 DEF IInv, ThreadInv, Idle
<1>8. NamedInv'
  <2>1. /\ dl'.mapNodeState[p].pindexBestKnownBlock = NoBlock
        /\ dl'.mapNodeState[p].pindexLastCommonBlock = NoBlock
    BY <1>4 DEF CNodeState
  <2> QED BY ZenonT(60), <1>2, <1>4, <1>5, <1>6, <2>1 DEF IInv, NamedInv, Pointed
<1>9. ExpectedInv'
  <2>1. ASSUME NEW c \in Flying(dl)
        PROVE  Expects(dl', asked', handler', data', dl'.mapBlocksInFlight[c], c)
    <3> DEFINE q == dl.mapBlocksInFlight[c]
    <3>1. q \in Nodes(dl) /\ dl'.mapBlocksInFlight[c] = q
      BY ZenonT(60), <1>2, <1>4
    <3>2. Expects(dl, asked, handler, data, q, c)
      BY ZenonT(60) DEF IInv, ExpectedInv, Expecting
    <3> HIDE DEF q
    <3>3. Expects(dl', asked, handler, data, q, c)
      BY ZenonT(60), <1>4, <3>1, <3>2 DEF Expects
    <3> QED BY ZenonT(60), <1>1, <1>5, <3>1, <3>3
  <2>2. handler'.step = "fill" => handler'.block \in dl'.mapNodeState[handler'.peer].partialBlock
    BY ZenonT(60), <1>1, <1>2, <1>4, HandlerSteps DEF IInv, ExpectedInv, Expecting
  <2> QED BY ZenonT(60), <1>6, <2>1, <2>2 DEF ExpectedInv, Expecting
<1> QED BY ZenonT(60), <1>4, <1>5, <1>7, <1>8, <1>9 DEF IInv

\* FinalizeNode, which erases the peer's blocks in flight and its counts, keeps the invariant.
LEMMA FinalizeNodeStep ==
    ASSUME IInv, NEW p \in Peer, FinalizeNode(p)
    PROVE  IInv'
<1>1. /\ p \in fDisconnect /\ p \in Connected /\ handler.peer # p
      /\ dl' = Forget(dl, p)
      /\ asked' = [asked EXCEPT ![p] = {}]
      /\ gone' = gone \cup {p} /\ fDisconnect' = fDisconnect \ {p}
      /\ UNCHANGED <<chain, handler, unasked>>
  BY ZenonT(60) DEF FinalizeNode
<1>2. /\ Connected = Nodes(dl) /\ Connected \subseteq Peer /\ Books(dl)
      /\ \A c \in Flying(dl) : c \in Block /\ dl.mapBlocksInFlight[c] \in Connected
  BY ZenonT(60), Connection DEF IInv
<1>3. /\ Exact(dl') /\ Nodes(dl') = Nodes(dl) \ {p}
      /\ \A q \in Nodes(dl') : dl'.mapNodeState[q] = dl.mapNodeState[q]
      /\ Flying(dl') = Flying(dl) \ HeldBy(dl, p)
      /\ \A b \in Flying(dl') : dl'.mapBlocksInFlight[b] = dl.mapBlocksInFlight[b]
  BY ZenonT(60), <1>1, <1>2, Forgotten DEF IInv
<1>4. ChainInv' /\ Grows /\ data' = data /\ headers' = headers
  BY ZenonT(60), <1>1, ChainKept DEF IInv, chain
<1>5. Connected' = Connected \ {p}
  BY ZenonT(60), <1>2, <1>3 DEF Connected, Nodes
<1>6. /\ asked' \in [Peer -> SUBSET Request] /\ \A q \in Peer \ {p} : asked'[q] = asked[q]
  BY ZenonT(60), <1>1 DEF IInv, ThreadInv
<1>7. ThreadInv'
  <2>1. handler' = Idle \/ handler' \in [step : {"process", "fill", "reconstructed", "release"},
                                         peer : Connected', block : Block \ {Genesis}, forced : BOOLEAN]
    BY ZenonT(60), <1>1, <1>5 DEF IInv, ThreadInv
  <2>2. fDisconnect' \subseteq Connected' /\ gone' \subseteq Peer \ Connected'
    BY ZenonT(60), <1>1, <1>2, <1>5 DEF IInv, ThreadInv
  <2>3. unasked' \in 0 .. MaxUnasked
    BY ZenonT(60), <1>1 DEF IInv, ThreadInv
  <2> QED BY ZenonT(60), <1>6, <2>1, <2>2, <2>3 DEF ThreadInv, Idle
<1>8. NamedInv'
  BY ZenonT(60), <1>3, <1>4 DEF IInv, NamedInv, Pointed
<1>9. ExpectedInv'
  <2>1. ASSUME NEW c \in Flying(dl')
        PROVE  Expects(dl', asked', handler', data', dl'.mapBlocksInFlight[c], c)
    <3> DEFINE q == dl.mapBlocksInFlight[c]
    <3>1. c \in Flying(dl) /\ q \in Nodes(dl) /\ q # p /\ dl'.mapBlocksInFlight[c] = q
      BY ZenonT(60), <1>2, <1>3 DEF HeldBy
    <3>2. Expects(dl, asked, handler, data, q, c)
      BY ZenonT(60), <3>1 DEF IInv, ExpectedInv, Expecting
    <3> HIDE DEF q
    <3>3. asked'[q] = asked[q] /\ dl'.mapNodeState[q] = dl.mapNodeState[q]
      BY ZenonT(60), <1>2, <1>3, <1>6, <3>1
    <3>4. Expects(dl', asked', handler, data, q, c)
      BY ZenonT(60), <3>2, <3>3 DEF Expects
    <3> QED BY ZenonT(60), <1>1, <1>4, <3>1, <3>4
  <2>2. handler'.step = "fill" => handler'.block \in dl'.mapNodeState[handler'.peer].partialBlock
    BY ZenonT(60), <1>1, <1>2, <1>3, HandlerSteps DEF IInv, ExpectedInv, Expecting
  <2> QED BY ZenonT(60), <2>1, <2>2 DEF ExpectedInv, Expecting
<1> QED BY ZenonT(60), <1>3, <1>4, <1>7, <1>8, <1>9 DEF IInv

-----------------------------------------------------------------------------
(* The actions that put blocks in flight.                                  *)

\* The peer p is asked for the blocks that are new.
LEMMA AddAction ==
    ASSUME IInv, ChainInv', Grows, NEW p \in Connected, handler = Idle, handler' = Idle \/ handler' \in Busy,
           NEW d, SameFlights(dl, d), NEW blocks \in SUBSET headers',
           NEW e, Added(d, e, p, blocks), Exact(dl'), SameFlights(e, dl'),
           Pointed(dl', headers', data'),
           asked' \in [Peer -> SUBSET Request],
           \A c \in Flying(dl) : StillAsked(dl.mapBlocksInFlight[c], c),
           \A c \in blocks \ Flying(dl) : GetData(c) \in asked'[p] \/ GetCompact(c) \in asked'[p],
           UNCHANGED <<gone, fDisconnect>>, unasked' \in 0 .. MaxUnasked
    PROVE  IInv'
<1>1. /\ Connected = Nodes(dl) /\ Connected \subseteq Peer /\ Books(dl)
      /\ \A c \in Flying(dl) : c \in Block /\ dl.mapBlocksInFlight[c] \in Connected
  BY ZenonT(60), Connection DEF IInv
<1>2. /\ Nodes(dl') = Nodes(dl) /\ Flying(dl') = Flying(dl) \cup blocks
      /\ \A c \in Flying(dl') :
            dl'.mapBlocksInFlight[c] = IF c \in Flying(dl) THEN dl.mapBlocksInFlight[c] ELSE p
      /\ \A q \in Nodes(dl) : dl'.mapNodeState[q].partialBlock = dl.mapNodeState[q].partialBlock
  BY ZenonT(60) DEF SameFlights, Added, SamePointers, Flying
<1>3. Connected' = Connected
  BY ZenonT(60), <1>1, <1>2 DEF Connected, Nodes
<1>4. ThreadInv' /\ handler'.step # "fill" /\ handler.step # "fill"
  <2>1. Idle.step # "fill" /\ \A h \in Busy : h.step # "fill"
    BY ZenonT(60) DEF Idle, Busy
  <2>2. \A h \in Busy : h \in [step : {"process", "fill", "reconstructed", "release"},
                              peer : Connected, block : Block \ {Genesis}, forced : BOOLEAN]
    BY ZenonT(60) DEF Busy
  <2> QED BY ZenonT(60), <1>3, <2>1, <2>2 DEF IInv, ThreadInv
<1>5. NamedInv'
  BY ZenonT(60), <1>2 DEF IInv, NamedInv, Grows
<1>6. ASSUME NEW c \in Flying(dl), NEW q, q = dl.mapBlocksInFlight[c]
      PROVE  Expects(dl', asked', handler', data', q, c)
  <2>1. q \in Nodes(dl) /\ q \in Peer
    BY ZenonT(60), <1>1, <1>6
  <2>2. Expects(dl, asked, handler, data, q, c)
    BY ZenonT(60), <1>6 DEF IInv, ExpectedInv, Expecting
  <2>3. data \subseteq data'
    BY ZenonT(60) DEF Grows
  <2>4. c \in dl'.mapNodeState[q].partialBlock <=> c \in dl.mapNodeState[q].partialBlock
    BY ZenonT(60), <1>2, <2>1
  <2>6. ~Filling(handler, q, c)
    BY ZenonT(60), <1>4 DEF Filling
  <2>7. StillAsked(q, c)
    BY ZenonT(60), <1>6
  <2>8. CASE asked[q] \cap Requests(c) \subseteq asked'[q]
    <3>1. asked[q] \cap {GetData(c), GetCompact(c), GetBlockTxn(c)} \subseteq asked'[q]
      BY ZenonT(60), <2>8 DEF Requests
    <3> QED BY ZenonT(60), <2>2, <2>3, <2>4, <2>6, <3>1, StaysExpected
  <2>9. CASE c \in data' \/ GetData(c) \in asked'[q]
    BY ZenonT(60), <2>9 DEF Expects
  <2>10. CASE c \in dl.mapNodeState[q].partialBlock /\ asked[q] \ {GetCompact(c)} \subseteq asked'[q]
    <3>1. GetData(c) # GetCompact(c) /\ GetBlockTxn(c) # GetCompact(c)
      BY ZenonT(60), RequestsDiffer
    <3> QED BY ZenonT(60), <2>2, <2>3, <2>4, <2>6, <2>10, <3>1 DEF Expects
  <2> QED BY ZenonT(60), <2>7, <2>8, <2>9, <2>10 DEF StillAsked
<1>7. ASSUME NEW c \in blocks, c \notin Flying(dl)
      PROVE  Expects(dl', asked', handler', data', p, c)
  <2>1. dl.mapNodeState[p].partialBlock \subseteq Flying(dl)
    BY ZenonT(60), <1>1 DEF IInv, Exact, NodeExact, HeldBy
  <2>2. c \notin dl'.mapNodeState[p].partialBlock
    BY ZenonT(60), <1>1, <1>2, <1>7, <2>1
  <2>3. GetData(c) \in asked'[p] \/ GetCompact(c) \in asked'[p]
    BY ZenonT(60), <1>7
  <2> QED BY ZenonT(60), <2>2, <2>3 DEF Expects
<1>8. ASSUME NEW c \in Flying(dl')
      PROVE  Expects(dl', asked', handler', data', dl'.mapBlocksInFlight[c], c)
  BY ZenonT(60), <1>2, <1>6, <1>7
<1>9. ExpectedInv'
  BY ZenonT(60), <1>4, <1>8 DEF ExpectedInv, Expecting
<1> QED BY ZenonT(60), <1>4, <1>5, <1>9 DEF IInv

\* FindNextBlocksToDownload with the requests that follow keeps the invariant.
LEMMA FindStep ==
    ASSUME IInv, NEW p, Turn(p), NEW d, Exact(d), SamePointers(dl, d), SameFlights(dl, d),
           NEW requests \in SUBSET Request,
           NEW s, s = ProcessBlockAvailability(d.mapNodeState[p], headers), Interesting(s),
           FindAndFetch(d, p, s, requests),
           UNCHANGED <<chain, fDisconnect, gone, handler, unasked>>
    PROVE  IInv'
<1> DEFINE best == s.pindexBestKnownBlock
           common == CommonBlock(s)
           walk == Walk(s, common)
           vBlocks == FirstOf(ToDownload(d, common, walk), MAX_BLOCKS_IN_TRANSIT_PER_PEER - s.nBlocksInFlight)
           t == [s EXCEPT !.pindexLastCommonBlock = LastLinked(common, walk)]
           d1 == WithState(d, p, t)
           d2 == MarkBlockAsInFlight(d1, p, vBlocks)
           staller == NodeStaller(d, p, common, walk)
<1>1. /\ dl' = MarkStaller(d2, p, staller)
      /\ Ask(p, requests \cup {GetData(b) : b \in vBlocks})
  BY ZenonT(60) DEF FindAndFetch
<1>2. p \in Nodes(d) /\ p \in Connected /\ p \in Peer /\ handler = Idle /\ d.mapNodeState[p] \in NodeState
  BY ZenonT(60), TurnFacts DEF SamePointers, Exact, Books
<1>3. ChainInv' /\ Grows /\ headers' = headers /\ data' = data /\ headers \in SUBSET Block
  BY ZenonT(60), ChainKept DEF IInv, chain, ChainInv
<1>4. /\ SameCounts(d.mapNodeState[p], s)
      /\ s.pindexBestKnownBlock \in {d.mapNodeState[p].pindexBestKnownBlock} \cup headers
      /\ s.pindexLastCommonBlock = d.mapNodeState[p].pindexLastCommonBlock
  BY ZenonT(60), <1>2, <1>3, Availability
<1>5. Pointed(d, headers, data)
  BY ZenonT(60), PointersKept DEF IInv, NamedInv
<1>6. /\ best \in headers /\ best \in Block
      /\ s.pindexLastCommonBlock # NoBlock =>
            s.pindexLastCommonBlock \in Block /\ Branch(s.pindexLastCommonBlock) \subseteq data
  BY ZenonT(60), <1>2, <1>3, <1>4, <1>5 DEF Pointed, Interesting
<1>7. common \in Block /\ Branch(common) \subseteq data
  BY ZenonT(60), <1>6, CommonIsLinked DEF IInv
<1>8. /\ walk \in SUBSET Branch(best) /\ ToDownload(d, common, walk) \in SUBSET Branch(best)
      /\ Branch(best) \subseteq headers
  BY ZenonT(60), <1>6, WalkBlocks DEF IInv, ChainInv
<1>9. LastLinked(common, walk) \in Block /\ Branch(LastLinked(common, walk)) \subseteq data
  BY ZenonT(60), <1>6, <1>7, <1>8, WalkIsLinked
<1>10. s \in NodeState /\ s.nBlocksInFlight = d.mapNodeState[p].nBlocksInFlight
  BY ZenonT(60), <1>4 DEF SameCounts
<1>11. t \in NodeState
  BY ZenonT(60), <1>9, <1>10 DEF NodeState, MaybeBlock
<1>12. /\ SameCounts(s, t) /\ t.pindexBestKnownBlock = best
       /\ t.pindexLastCommonBlock = LastLinked(common, walk)
  BY ZenonT(60), <1>10, <1>11 DEF NodeState, SameCounts
<1>13. staller # NoPeer => staller \in Nodes(d) /\ HeldBy(d, staller) # {}
  BY ZenonT(60), <1>3, <1>8, StallerHolds
<1>14. vBlocks \subseteq ToDownload(d, common, walk) /\ HasRoom(d, p, vBlocks)
  <2> DEFINE S == ToDownload(d, common, walk)
             n == MAX_BLOCKS_IN_TRANSIT_PER_PEER - s.nBlocksInFlight
  <2>1. n = MAX_BLOCKS_IN_TRANSIT_PER_PEER - d.mapNodeState[p].nBlocksInFlight
    BY ZenonT(60), <1>10
  <2>2. S \in SUBSET Branch(best)
    BY ZenonT(60), <1>8
  <2>b. best \in Block /\ p \in Nodes(d)
    BY ZenonT(60), <1>2, <1>6
  <2> HIDE DEF S, n, best
  <2>3. \A T \in SUBSET Branch(best) : \A k :
           k = MAX_BLOCKS_IN_TRANSIT_PER_PEER - d.mapNodeState[p].nBlocksInFlight
           => FirstOf(T, k) \subseteq T /\ HasRoom(d, p, FirstOf(T, k))
    BY ZenonT(60), <2>b, RoomOnBranch
  <2>4. FirstOf(S, n) \subseteq S /\ HasRoom(d, p, FirstOf(S, n))
    BY ZenonT(60), <2>1, <2>2, <2>3
  <2> QED BY ZenonT(60), <2>4 DEF S, n
<1> HIDE DEF t, staller, vBlocks
<1>15. SameCounts(d.mapNodeState[p], t)
  BY ZenonT(60), <1>4, <1>12 DEF SameCounts
<1>16. Exact(d1) /\ SameFlights(d, d1) /\ Replaced(d, d1, p, t)
  BY ZenonT(60), <1>2, <1>15, StateKept
<1> HIDE DEF d1
<1>17. Pointed(d1, headers, data)
  BY ZenonT(60), <1>2, <1>4, <1>5, <1>9, <1>12, <1>16, PointersMoved
<1>18. Exact(d2) /\ Added(d1, d2, p, vBlocks)
  <2>1. p \in Nodes(d1) /\ HeldBy(d1, p) = HeldBy(d, p)
    BY ZenonT(60), <1>2, <1>16 DEF Replaced
  <2>2. HasRoom(d1, p, vBlocks)
    BY ZenonT(60), <1>14, <1>16, <2>1 DEF Replaced, InFlight, HasRoom
  <2>3. vBlocks \in SUBSET Block
    BY ZenonT(60), <1>3, <1>8, <1>14
  <2> QED BY ZenonT(60), <1>16, <2>1, <2>2, <2>3, InFlightMarked
<1> HIDE DEF d2
<1>19. staller # NoPeer => staller \in Nodes(d2) /\ HeldBy(d2, staller) # {}
  <2>1. Nodes(d2) = Nodes(d) /\ Flying(d1) = Flying(d) /\ d1.mapBlocksInFlight = d.mapBlocksInFlight
    BY ZenonT(60), <1>16, <1>18 DEF Added, SamePointers, Replaced, Flying
  <2>2. \A c \in Flying(d) : c \in Flying(d2) /\ d2.mapBlocksInFlight[c] = d.mapBlocksInFlight[c]
    BY ZenonT(60), <1>18, <2>1 DEF Added
  <2>3. HeldBy(d, staller) \subseteq HeldBy(d2, staller)
    BY ZenonT(60), <2>2 DEF HeldBy
  <2> QED BY ZenonT(60), <1>13, <2>1, <2>3
<1>20. Exact(dl') /\ SamePointers(d2, dl') /\ SameFlights(d2, dl')
  BY ZenonT(60), <1>1, <1>18, <1>19, StallerMarked
<1>21. Pointed(dl', headers', data')
  <2>1. Pointed(d2, headers, data)
    BY ZenonT(60), <1>17, <1>18, PointersKept DEF Added
  <2> QED BY ZenonT(60), <1>3, <1>20, <2>1, PointersKept
<1>22. SameFlights(dl, d1)
  BY ZenonT(60), <1>16 DEF SameFlights
<1>23. vBlocks \in SUBSET headers' /\ vBlocks \in SUBSET Block
  BY ZenonT(60), <1>3, <1>8, <1>14
<1>24. /\ asked' \in [Peer -> SUBSET Request]
       /\ asked'[p] = asked[p] \cup (requests \cup {GetData(b) : b \in vBlocks})
       /\ \A q \in Peer : asked[q] \subseteq asked'[q]
  <2>1. requests \cup {GetData(b) : b \in vBlocks} \in SUBSET Request
    BY ZenonT(60), <1>23, RequestTypes
  <2> QED BY ZenonT(60), <1>1, <1>2, <2>1, Asks DEF IInv, ThreadInv
<1>25. /\ \A c \in Flying(dl) : StillAsked(dl.mapBlocksInFlight[c], c)
       /\ \A c \in vBlocks \ Flying(dl) : GetData(c) \in asked'[p] \/ GetCompact(c) \in asked'[p]
  BY ZenonT(60), <1>24, Connection DEF StillAsked, IInv
<1>26. handler' = Idle /\ unasked' \in 0 .. MaxUnasked /\ UNCHANGED <<gone, fDisconnect>>
  BY ZenonT(60), <1>2 DEF IInv, ThreadInv
<1> QED BY ZenonT(60), <1>2, <1>3, <1>18, <1>20, <1>21, <1>22, <1>23, <1>24, <1>25, <1>26, AddAction

\* The part of SendMessages that asks for blocks keeps the invariant.
LEMMA FetchStep ==
    ASSUME IInv, NEW p, Turn(p), NEW d, Exact(d), SamePointers(dl, d), SameFlights(dl, d),
           NEW requests \in SUBSET Request, FetchBlocks(d, p, requests),
           UNCHANGED <<chain, fDisconnect, gone, handler, unasked>>
    PROVE  IInv'
<1> DEFINE s == ProcessBlockAvailability(d.mapNodeState[p], headers)
<1>1. \/ dl' = d /\ Ask(p, requests)
      \/ dl' = WithState(d, p, s) /\ Ask(p, requests)
      \/ Interesting(s) /\ FindAndFetch(d, p, s, requests)
  BY ZenonT(60) DEF FetchBlocks
<1>2. p \in Nodes(d) /\ p \in Connected /\ p \in Peer /\ d.mapNodeState[p] \in NodeState
  BY ZenonT(60), TurnFacts DEF SamePointers, Exact, Books
<1>3. Ask(p, requests) => asked' \in [Peer -> SUBSET Request] /\ \A q \in Peer : asked[q] \subseteq asked'[q]
  BY ZenonT(60), <1>2, Asks DEF IInv, ThreadInv
<1>4. fDisconnect' \subseteq Connected /\ unasked' \in 0 .. MaxUnasked
  BY ZenonT(60) DEF IInv, ThreadInv
<1>5. CASE dl' = d /\ Ask(p, requests)
  BY ZenonT(60), <1>3, <1>4, <1>5, FlagAction
<1>6. CASE dl' = WithState(d, p, s) /\ Ask(p, requests)
  <2>1. ChainInv' /\ Grows /\ headers' = headers /\ data' = data /\ headers \in SUBSET Block
    BY ZenonT(60), ChainKept DEF IInv, chain, ChainInv
  <2>2. /\ SameCounts(d.mapNodeState[p], s)
        /\ s.pindexBestKnownBlock \in {d.mapNodeState[p].pindexBestKnownBlock} \cup headers
        /\ s.pindexLastCommonBlock = d.mapNodeState[p].pindexLastCommonBlock
    BY ZenonT(60), <1>2, <2>1, Availability
  <2> HIDE DEF s
  <2>3. Exact(dl') /\ SameFlights(d, dl') /\ Replaced(d, dl', p, s)
    BY ZenonT(60), <1>2, <1>6, <2>2, StateKept
  <2>4. Pointed(d, headers, data)
    BY ZenonT(60), PointersKept DEF IInv, NamedInv
  <2>5. Pointed(dl', headers', data')
    BY ZenonT(60), <1>2, <2>1, <2>2, <2>3, <2>4, PointersMoved
  <2>6. SameFlights(dl, dl')
    BY ZenonT(60), <2>3 DEF SameFlights
  <2> QED BY ZenonT(60), <1>3, <1>4, <1>6, <2>1, <2>3, <2>5, <2>6, QuietAction
<1>7. CASE Interesting(s) /\ FindAndFetch(d, p, s, requests)
  BY ZenonT(60), <1>7, FindStep
<1> QED BY ZenonT(60), <1>1, <1>5, <1>6, <1>7

\* SendMessages keeps the invariant.
LEMMA SendMessagesStep ==
    ASSUME IInv, NEW p \in Peer, SendMessages(p)
    PROVE  IInv'
<1> DEFINE started == StartSync(dl, p)
           d == DisarmHeaders(started, p)
<1>1. /\ Turn(p) /\ FetchBlocks(d, p, SyncRequest(dl, started, p))
      /\ UNCHANGED <<chain, fDisconnect, gone, handler, unasked>>
  BY ZenonT(60) DEF SendMessages
<1>2. p \in Nodes(dl) /\ Exact(dl)
  BY ZenonT(60), <1>1, TurnFacts
<1>3. Exact(started) /\ SamePointers(dl, started) /\ SameFlights(dl, started)
  BY ZenonT(60), <1>2, SyncStarts
<1> HIDE DEF started
<1>4. p \in Nodes(started)
  BY ZenonT(60), <1>2, <1>3 DEF SamePointers
<1>5. Exact(d) /\ SamePointers(started, d) /\ SameFlights(started, d)
  BY ZenonT(60), <1>3, <1>4, HeadersDisarmed
<1> HIDE DEF d
<1>6. SamePointers(dl, d) /\ SameFlights(dl, d)
  BY ZenonT(60), <1>3, <1>5 DEF SamePointers, SameFlights
<1>7. SyncRequest(dl, started, p) \in SUBSET Request
  BY ZenonT(60), SyncRequests
<1> QED BY ZenonT(60), <1>1, <1>5, <1>6, <1>7, FetchStep

\* The headers timeout of a whitelisted peer keeps the invariant.
LEMMA HeadersTimeoutWhitelistedStep ==
    ASSUME IInv, NEW p \in Peer, HeadersTimeoutWhitelisted(p)
    PROVE  IInv'
<1> DEFINE d == StopSync(dl, p)
<1>1. /\ Turn(p) /\ HeadersLate(p) /\ FetchBlocks(d, p, {})
      /\ UNCHANGED <<chain, fDisconnect, gone, handler, unasked>>
  BY ZenonT(60) DEF HeadersTimeoutWhitelisted
<1>2. p \in Nodes(dl) /\ Exact(dl) /\ dl.mapNodeState[p].fSyncStarted
  BY ZenonT(60), <1>1, TurnFacts DEF HeadersLate
<1>3. Exact(d) /\ SamePointers(dl, d) /\ SameFlights(dl, d)
  BY ZenonT(60), <1>2, SyncStops
<1> HIDE DEF d
<1>4. {} \in SUBSET Request
  BY ZenonT(60)
<1> QED BY ZenonT(60), <1>1, <1>3, <1>4, FetchStep

\* An answer that brings no block.
LEMMA AnswerAction ==
    ASSUME IInv, ChainInv', Grows, handler = Idle, handler' = Idle \/ handler' \in Busy,
           Exact(dl'), SameFlights(dl, dl'), Pointed(dl', headers', data'),
           NEW p \in Connected, asked' \in [Peer -> SUBSET Request],
           \A c \in Flying(dl) : StillAsked(dl.mapBlocksInFlight[c], c),
           UNCHANGED <<gone, fDisconnect>>, unasked' \in 0 .. MaxUnasked
    PROVE  IInv'
<1>1. SameFlights(dl', dl') /\ Added(dl', dl', p, {}) /\ {} \in SUBSET headers'
  BY ZenonT(60) DEF SameFlights, SamePointers, Added
<1>2. \A c \in {} \ Flying(dl) : GetData(c) \in asked'[p] \/ GetCompact(c) \in asked'[p]
  BY ZenonT(60)
<1> QED BY ZenonT(60), <1>1, <1>2, AddAction

\* The direct fetch at the end of ProcessHeadersMessage keeps the invariant.
LEMMA FetchDirectlyStep ==
    ASSUME IInv, ChainInv', Grows, NEW p, Turn(p), handler' = Idle, NEW last \in headers',
           NEW d, Exact(d), SameFlights(dl, d), Pointed(d, headers', data'),
           NEW answered, \A c \in Flying(dl) : Requests(c) \cap answered = {},
           FetchDirectly(d, p, last, answered),
           UNCHANGED <<gone, fDisconnect>>, unasked' \in 0 .. MaxUnasked
    PROVE  IInv'
<1> DEFINE fetch == DirectFetch(d, p, last)
<1>1. /\ p \in Connected /\ p \in Peer /\ handler = Idle /\ p \in Nodes(d)
  BY ZenonT(60), TurnFacts DEF SameFlights
<1>2. last \in Block /\ Branch(last) \subseteq headers' /\ headers' \subseteq Block
  BY ZenonT(60) DEF ChainInv
<1>3. fetch \in SUBSET Branch(last) /\ HasRoom(d, p, fetch)
  BY ZenonT(60), <1>1, <1>2, FetchedBlocks
<1>4. /\ dl' = MarkBlockAsInFlight(d, p, fetch)
      /\ \/ AskAnswered(p, answered, {GetData(b) : b \in fetch})
         \/ AskAnswered(p, answered, {GetCompact(b) : b \in fetch})
  BY ZenonT(60) DEF FetchDirectly
<1> HIDE DEF fetch
<1>5. fetch \in SUBSET Block /\ fetch \in SUBSET headers'
  BY ZenonT(60), <1>2, <1>3
<1>6. Exact(dl') /\ Added(d, dl', p, fetch) /\ SameFlights(dl', dl')
  BY ZenonT(60), <1>1, <1>3, <1>4, <1>5, InFlightMarked, SameBooks
<1>7. Pointed(dl', headers', data')
  BY ZenonT(60), <1>6, PointersKept DEF Added
<1>8. /\ asked' \in [Peer -> SUBSET Request]
      /\ \A q \in Peer : asked[q] \ answered \subseteq asked'[q]
      /\ \A c \in fetch : GetData(c) \in asked'[p] \/ GetCompact(c) \in asked'[p]
  <2>1. {GetData(b) : b \in fetch} \in SUBSET Request /\ {GetCompact(b) : b \in fetch} \in SUBSET Request
    BY ZenonT(60), <1>5, RequestTypes
  <2>2. asked \in [Peer -> SUBSET Request]
    BY ZenonT(60) DEF IInv, ThreadInv
  <2>3. CASE AskAnswered(p, answered, {GetData(b) : b \in fetch})
    <3>1. /\ asked' \in [Peer -> SUBSET Request]
          /\ asked'[p] = (asked[p] \ answered) \cup {GetData(b) : b \in fetch}
          /\ \A q \in Peer \ {p} : asked'[q] = asked[q]
      BY ZenonT(60), <1>1, <2>1, <2>2, <2>3, Answers
    <3> QED BY ZenonT(60), <1>1, <3>1
  <2>4. CASE AskAnswered(p, answered, {GetCompact(b) : b \in fetch})
    <3>1. /\ asked' \in [Peer -> SUBSET Request]
          /\ asked'[p] = (asked[p] \ answered) \cup {GetCompact(b) : b \in fetch}
          /\ \A q \in Peer \ {p} : asked'[q] = asked[q]
      BY ZenonT(60), <1>1, <2>1, <2>2, <2>4, Answers
    <3> QED BY ZenonT(60), <1>1, <3>1
  <2> QED BY ZenonT(60), <1>4, <2>3, <2>4
<1>9. \A c \in Flying(dl) : StillAsked(dl.mapBlocksInFlight[c], c)
  <2>1. \A c \in Flying(dl) : dl.mapBlocksInFlight[c] \in Peer
    BY ZenonT(60), Connection DEF IInv
  <2> QED BY ZenonT(60), <1>8, <2>1 DEF StillAsked
<1>10. \A c \in fetch \ Flying(dl) : GetData(c) \in asked'[p] \/ GetCompact(c) \in asked'[p]
  BY ZenonT(60), <1>8
<1> QED BY ZenonT(60), <1>1, <1>5, <1>6, <1>7, <1>8, <1>9, <1>10, AddAction

\* ProcessHeadersMessage keeps the invariant.
LEMMA ProcessHeadersMessageStep ==
    ASSUME IInv, NEW p, Turn(p), NEW last \in Block, NEW low \in 0 .. nHeight(last),
           NEW answered, \A r \in answered : r.kind = "headers",
           ProcessHeadersMessage(p, low, last, answered),
           UNCHANGED <<data, tip, fDisconnect, gone, handler>>, unasked' \in 0 .. MaxUnasked
    PROVE  IInv'
<1> DEFINE new == BlocksBetween(last, low, nHeight(last))
           connects == GetAncestor(last, low) \in headers
           d == WithState(dl, p, UpdateBlockAvailability(dl.mapNodeState[p], headers \cup new, last))
<1>1. \/ /\ ~connects
         /\ dl' = WithState(dl, p, UpdateBlockAvailability(dl.mapNodeState[p], headers, last))
         /\ AskAnswered(p, answered, {GetHeaders(bestHeader, PeerTip[p])})
         /\ UNCHANGED <<headers, bestHeader>>
      \/ AskAnswered(p, answered, {}) /\ UNCHANGED <<dl, headers, bestHeader>>
      \/ connects /\ AddHeaders(new) /\ FetchDirectly(d, p, last, answered)
  BY ZenonT(60) DEF ProcessHeadersMessage
<1>2. /\ p \in Nodes(dl) /\ p \in Connected /\ p \in Peer /\ handler = Idle /\ handler' = Idle
      /\ UNCHANGED <<gone, fDisconnect>> /\ ChainInv
  BY ZenonT(60), TurnFacts DEF IInv
<1>3. UNCHANGED <<headers, bestHeader>> => UNCHANGED chain
  BY ZenonT(60) DEF chain
<1>4. CASE /\ dl' = WithState(dl, p, UpdateBlockAvailability(dl.mapNodeState[p], headers, last))
           /\ AskAnswered(p, answered, {GetHeaders(bestHeader, PeerTip[p])})
           /\ UNCHANGED <<headers, bestHeader>>
  <2>1. ChainInv' /\ Grows /\ headers' = headers /\ data' = data
    BY ZenonT(60), <1>2, <1>3, <1>4, ChainKept
  <2>2. headers \in SUBSET Block /\ bestHeader \in Block /\ PeerTip[p] \in Block
    BY ZenonT(60), <1>2, BlockDownloadAssumption DEF ChainInv
  <2>3. Exact(dl') /\ SameFlights(dl, dl') /\ Pointed(dl', headers, data)
    BY ZenonT(60), <1>2, <1>4, <2>2, AvailabilityStep
  <2>4. {GetHeaders(bestHeader, PeerTip[p])} \in SUBSET Request
    BY ZenonT(60), <2>2, RequestTypes
  <2>5. /\ asked' \in [Peer -> SUBSET Request]
        /\ \A c \in Flying(dl) : StillAsked(dl.mapBlocksInFlight[c], c)
    BY ZenonT(60), <1>2, <1>4, <2>4, HeadersAnswered
  <2> QED BY ZenonT(60), <1>2, <2>1, <2>3, <2>5, AnswerAction
<1>5. CASE AskAnswered(p, answered, {}) /\ UNCHANGED <<dl, headers, bestHeader>>
  <2>1. ChainInv' /\ Grows /\ headers' = headers /\ data' = data
    BY ZenonT(60), <1>2, <1>3, <1>5, ChainKept
  <2>2. Exact(dl') /\ SameFlights(dl, dl') /\ Pointed(dl', headers', data')
    BY ZenonT(60), <1>5, <2>1, SameBooks DEF IInv, NamedInv
  <2>3. /\ asked' \in [Peer -> SUBSET Request]
        /\ \A c \in Flying(dl) : StillAsked(dl.mapBlocksInFlight[c], c)
    BY ZenonT(60), <1>2, <1>5, HeadersAnswered
  <2> QED BY ZenonT(60), <1>2, <2>1, <2>2, <2>3, AnswerAction
<1>6. CASE connects /\ AddHeaders(new) /\ FetchDirectly(d, p, last, answered)
  <2>1. /\ new \in SUBSET Block /\ (\A b \in new : Branch(b) \subseteq headers \cup new)
        /\ last \in headers \cup new
    BY ZenonT(60), <1>2, <1>6, UpperBranch
  <2> HIDE DEF new
  <2>2. headers' = headers \cup new
    BY ZenonT(60), <1>6 DEF AddHeaders
  <2>3. ChainInv' /\ Grows
    BY ZenonT(60), <1>2, <1>6, <2>1, HeadersAdded, OnlyHeaders
  <2>4. headers \cup new \in SUBSET Block /\ headers \subseteq headers' /\ headers \cup new \subseteq headers'
    BY ZenonT(60), <1>2, <2>1, <2>2 DEF ChainInv
  <2>5. Exact(d) /\ SameFlights(dl, d) /\ Pointed(d, headers', data)
    BY ZenonT(60), <1>2, <2>4, AvailabilityStep
  <2> HIDE DEF d
  <2>6. \A c \in Flying(dl) : Requests(c) \cap answered = {}
    BY ZenonT(60), RequestsDiffer DEF Requests
  <2>7. last \in headers' /\ Pointed(d, headers', data')
    BY ZenonT(60), <2>1, <2>2, <2>5
  <2> QED BY ZenonT(60), <1>2, <1>6, <2>3, <2>5, <2>6, <2>7, FetchDirectlyStep
<1> QED BY ZenonT(60), <1>1, <1>4, <1>5, <1>6

\* The handler of headers keeps the invariant.
LEMMA HEADERSStep ==
    ASSUME IInv, NEW p \in Peer, HEADERS(p)
    PROVE  IInv'
<1>1. UNCHANGED <<data, tip, fDisconnect, gone, handler>>
  BY ZenonT(60) DEF HEADERS
<1>2. CASE \E r \in asked[p] :
             LET low == nHeight(LastCommonAncestor(r.from, PeerTip[p]))
             IN  /\ r.kind = "headers"
                 /\ Turn(p)
                 /\ UNCHANGED unasked
                 /\ IF low < nHeight(r.to)
                    THEN ProcessHeadersMessage(p, low, r.to, {r})
                    ELSE AskAnswered(p, {r}, {}) /\ UNCHANGED <<dl, headers, bestHeader>>
  <2>1. PICK r \in asked[p] :
             LET low == nHeight(LastCommonAncestor(r.from, PeerTip[p]))
             IN  /\ r.kind = "headers"
                 /\ Turn(p)
                 /\ UNCHANGED unasked
                 /\ IF low < nHeight(r.to)
                    THEN ProcessHeadersMessage(p, low, r.to, {r})
                    ELSE AskAnswered(p, {r}, {}) /\ UNCHANGED <<dl, headers, bestHeader>>
    BY ZenonT(60), <1>2
  <2> DEFINE low == nHeight(LastCommonAncestor(r.from, PeerTip[p]))
  <2>2. unasked' \in 0 .. MaxUnasked /\ (\A x \in {r} : x.kind = "headers") /\ Turn(p)
    BY ZenonT(60), <2>1 DEF IInv, ThreadInv
  <2>3. r.from \in Block /\ r.to \in Block /\ PeerTip[p] \in Block
    BY BlockDownloadAssumption DEF IInv, ThreadInv, Request
  <2>4. low \in Nat /\ nHeight(r.to) \in Nat
    BY ZenonT(60), <2>3, CommonAncestor, Heights DEF Branch
  <2>5. CASE low < nHeight(r.to)
    <3>1. low \in 0 .. nHeight(r.to) /\ ProcessHeadersMessage(p, low, r.to, {r})
      BY <2>1, <2>4, <2>5
    <3> HIDE DEF low
    <3> QED BY ZenonT(60), <1>1, <2>2, <2>3, <3>1, ProcessHeadersMessageStep
  <2>6. CASE ~(low < nHeight(r.to))
    <3>1. AskAnswered(p, {r}, {}) /\ UNCHANGED <<dl, headers, bestHeader>>
      BY ZenonT(60), <2>1, <2>6
    <3>2. /\ p \in Connected /\ handler = Idle /\ handler' = Idle /\ UNCHANGED <<gone, fDisconnect>>
      BY ZenonT(60), <1>1, <2>2, TurnFacts
    <3>3. ChainInv' /\ Grows /\ headers' = headers /\ data' = data
      BY ZenonT(60), <1>1, <3>1, ChainKept DEF chain, IInv
    <3>4. Exact(dl') /\ SameFlights(dl, dl') /\ Pointed(dl', headers', data')
      BY ZenonT(60), <3>1, <3>3, SameBooks DEF IInv, NamedInv
    <3>5. /\ asked' \in [Peer -> SUBSET Request]
          /\ \A c \in Flying(dl) : StillAsked(dl.mapBlocksInFlight[c], c)
      <4>1. {} \in SUBSET Request
        BY ZenonT(60)
      <4> DEFINE answered == {r}
      <4>2. (\A x \in answered : x.kind = "headers") /\ AskAnswered(p, answered, {})
        BY ZenonT(60), <2>2, <3>1
      <4> HIDE DEF answered
      <4> QED BY ZenonT(60), <4>1, <4>2, HeadersAnswered
    <3> QED BY ZenonT(60), <2>2, <3>2, <3>3, <3>4, <3>5, AnswerAction
  <2> QED BY ZenonT(60), <2>5, <2>6
<1>3. CASE \E b \in Branch(PeerTip[p]) \ {Genesis} :
             /\ Turn(p)
             /\ unasked < MaxUnasked /\ unasked' = unasked + 1
             /\ ProcessHeadersMessage(p, nHeight(b) - 1, b, {})
  <2>1. PICK b \in Branch(PeerTip[p]) \ {Genesis} :
             /\ Turn(p)
             /\ unasked < MaxUnasked /\ unasked' = unasked + 1
             /\ ProcessHeadersMessage(p, nHeight(b) - 1, b, {})
    BY ZenonT(60), <1>3
  <2>2. unasked' \in 0 .. MaxUnasked
    BY <2>1, BlockDownloadAssumption DEF IInv, ThreadInv
  <2> DEFINE low == nHeight(b) - 1
             answered == {}
  <2>3. b \in Block /\ low \in 0 .. nHeight(b)
    BY Heights DEF Branch
  <2>4. (\A r \in answered : r.kind = "headers") /\ ProcessHeadersMessage(p, low, b, answered) /\ Turn(p)
    BY ZenonT(60), <2>1
  <2> HIDE DEF low, answered
  <2> QED BY ZenonT(60), <1>1, <2>2, <2>3, <2>4, ProcessHeadersMessageStep
<1> QED BY ZenonT(60), <1>2, <1>3 DEF HEADERS

-----------------------------------------------------------------------------
(* Compact blocks.                                                         *)

\* The message is done with, or the block goes on to validation.
LEMMA QuitStep ==
    ASSUME IInv, ChainInv', Grows, NEW p, Turn(p), NEW b, NEW requests \in SUBSET Request,
           AskAnswered(p, {GetCompact(b)}, requests), handler' = Idle \/ handler' \in Busy,
           Exact(dl'), SameFlights(dl, dl'), Pointed(dl', headers', data'),
           b \in Flying(dl) /\ dl.mapBlocksInFlight[b] = p =>
               \/ b \in data' \/ GetData(b) \in requests
               \/ b \in dl.mapNodeState[p].partialBlock,
           UNCHANGED <<gone, fDisconnect>>, unasked' \in 0 .. MaxUnasked
    PROVE  IInv'
<1>1. p \in Peer /\ p \in Connected /\ handler = Idle
  BY ZenonT(60), TurnFacts
<1>2. /\ asked' \in [Peer -> SUBSET Request]
      /\ requests \subseteq asked'[p]
      /\ asked[p] \ {GetCompact(b)} \subseteq asked'[p]
      /\ \A c \in Flying(dl) : c # b \/ dl.mapBlocksInFlight[c] # p => StillAsked(dl.mapBlocksInFlight[c], c)
  BY ZenonT(60), <1>1, CompactAnswered
<1>3. \A c \in Flying(dl) : StillAsked(dl.mapBlocksInFlight[c], c)
  <2> TAKE c \in Flying(dl)
  <2>1. CASE c # b \/ dl.mapBlocksInFlight[c] # p
    BY ZenonT(60), <1>2, <2>1
  <2>2. CASE c = b /\ dl.mapBlocksInFlight[c] = p
    BY ZenonT(60), <1>2, <2>2 DEF StillAsked
  <2> QED BY ZenonT(60), <2>1, <2>2
<1> QED BY ZenonT(60), <1>1, <1>2, <1>3, AnswerAction

\* The message thread is idle, or about to fill in the compact block.
LEMMA FillHandler ==
    ASSUME NEW p, NEW b
    PROVE  /\ Idle.step # "fill" /\ Filling(Handle("fill", p, b, TRUE), p, b)
           /\ Handle("fill", p, b, TRUE).peer = p /\ Handle("fill", p, b, TRUE).block = b
BY ZenonT(60) DEF Filling, Handle, Idle

\* The compact block of b is taken from p, which is asked for what is missing.
LEMMA PartialAction ==
    ASSUME IInv, ChainInv', Grows, NEW p, Turn(p), NEW b \in headers',
           NEW d, SameFlights(dl, d), NEW e, Added(d, e, p, {b}), Nodes(e) = Nodes(dl),
           b \in Flying(dl) => dl.mapBlocksInFlight[b] = p,
           Exact(dl'), SamePointers(e, dl'), dl'.mapBlocksInFlight = e.mapBlocksInFlight,
           PartialAdded(e, dl', p, b),
           Pointed(dl', headers', data'),
           asked' \in [Peer -> SUBSET Request],
           \A q \in Peer : \A c : c # b => asked[q] \cap Requests(c) \subseteq asked'[q],
           \/ {GetBlockTxn(b), GetData(b)} \cap asked'[p] # {} /\ handler' = Idle
           \/ b # Genesis /\ handler' = Handle("fill", p, b, TRUE),
           UNCHANGED <<gone, fDisconnect>>, unasked' \in 0 .. MaxUnasked
    PROVE  IInv'
<1>1. /\ Connected = Nodes(dl) /\ Connected \subseteq Peer /\ Books(dl)
      /\ \A c \in Flying(dl) : c \in Block /\ dl.mapBlocksInFlight[c] \in Connected
      /\ p \in Connected /\ handler.step # "fill" /\ b \in Block
  BY ZenonT(60), Connection, TurnFacts DEF IInv, ChainInv
<1>2. /\ Nodes(dl') = Nodes(dl) /\ Flying(dl') = Flying(dl) \cup {b}
      /\ \A c \in Flying(dl) : dl'.mapBlocksInFlight[c] = dl.mapBlocksInFlight[c]
      /\ dl'.mapBlocksInFlight[b] = p
      /\ b \in dl'.mapNodeState[p].partialBlock
  BY ZenonT(60), <1>1 DEF SameFlights, Added, SamePointers, Flying, PartialAdded
<1>3. ASSUME NEW q \in Nodes(dl), NEW c, c # b
      PROVE  c \in dl'.mapNodeState[q].partialBlock <=> c \in dl.mapNodeState[q].partialBlock
  <2>1. q \in Nodes(e) /\ q \in Nodes(d)
    BY ZenonT(60) DEF SameFlights
  <2>2. d.mapNodeState[q].partialBlock = dl.mapNodeState[q].partialBlock
    BY ZenonT(60) DEF SameFlights
  <2>3. e.mapNodeState[q].partialBlock = d.mapNodeState[q].partialBlock
    BY ZenonT(60), <2>1 DEF Added
  <2>4. CASE q = p
    BY ZenonT(60), <1>3, <2>1, <2>2, <2>3, <2>4 DEF PartialAdded
  <2>5. CASE q # p
    BY ZenonT(60), <2>1, <2>2, <2>3, <2>5 DEF PartialAdded
  <2> QED BY ZenonT(60), <2>4, <2>5
<1>4. Connected' = Connected
  BY ZenonT(60), <1>1, <1>2 DEF Connected, Nodes
<1>5. handler' = Idle \/ handler' \in [step : {"process", "fill", "reconstructed", "release"},
                                       peer : Connected', block : Block \ {Genesis}, forced : BOOLEAN]
  <2>1. CASE handler' = Idle
    BY ZenonT(60), <2>1
  <2>2. CASE b # Genesis /\ handler' = Handle("fill", p, b, TRUE)
    <3>1. p \in Connected' /\ b \in Block \ {Genesis}
      BY ZenonT(60), <1>1, <1>4, <2>2
    <3>2. handler' = [step |-> "fill", peer |-> p, block |-> b, forced |-> TRUE]
      BY ZenonT(60), <2>2 DEF Handle
    <3> QED BY ZenonT(60), <3>1, <3>2
  <2> QED BY ZenonT(60), <2>1, <2>2
<1>6. ThreadInv'
  BY ZenonT(60), <1>4, <1>5 DEF IInv, ThreadInv, Idle
<1>7. NamedInv'
  BY ZenonT(60), <1>2 DEF IInv, NamedInv, Grows
<1>8. Expects(dl', asked', handler', data', p, b)
  <2>1. CASE {GetBlockTxn(b), GetData(b)} \cap asked'[p] # {}
    <3>1. GetBlockTxn(b) \in asked'[p] \/ GetData(b) \in asked'[p]
      BY ZenonT(60), <2>1
    <3> QED BY ZenonT(60), <1>2, <3>1 DEF Expects
  <2>2. CASE handler' = Handle("fill", p, b, TRUE)
    <3>1. Filling(handler', p, b)
      BY ZenonT(60), <2>2, FillHandler
    <3> QED BY ZenonT(60), <1>2, <3>1 DEF Expects
  <2> QED BY ZenonT(60), <2>1, <2>2
<1>9. ASSUME NEW c \in Flying(dl), c # b, NEW q, q = dl.mapBlocksInFlight[c]
      PROVE  Expects(dl', asked', handler', data', q, c)
  <2>1. q \in Nodes(dl) /\ q \in Peer
    BY ZenonT(60), <1>1, <1>9
  <2>2. Expects(dl, asked, handler, data, q, c)
    BY ZenonT(60), <1>9 DEF IInv, ExpectedInv, Expecting
  <2>3. data \subseteq data'
    BY ZenonT(60) DEF Grows
  <2>4. c \in dl'.mapNodeState[q].partialBlock <=> c \in dl.mapNodeState[q].partialBlock
    BY ZenonT(60), <1>3, <1>9, <2>1
  <2>5. asked[q] \cap {GetData(c), GetCompact(c), GetBlockTxn(c)} \subseteq asked'[q]
    BY ZenonT(60), <1>9, <2>1 DEF Requests
  <2>6. ~Filling(handler, q, c)
    BY ZenonT(60), <1>1 DEF Filling
  <2> QED BY ZenonT(60), <2>2, <2>3, <2>4, <2>5, <2>6, StaysExpected
<1>10. ASSUME NEW c \in Flying(dl')
       PROVE  Expects(dl', asked', handler', data', dl'.mapBlocksInFlight[c], c)
  BY ZenonT(60), <1>2, <1>8, <1>9
<1>11. handler'.step = "fill" => handler'.block \in dl'.mapNodeState[handler'.peer].partialBlock
  <2>1. CASE handler' = Idle
    BY ZenonT(60), <2>1, FillHandler
  <2>2. CASE handler' = Handle("fill", p, b, TRUE)
    <3>1. handler'.peer = p /\ handler'.block = b
      BY ZenonT(60), <2>2, FillHandler
    <3> QED BY ZenonT(60), <1>2, <3>1
  <2> QED BY ZenonT(60), <2>1, <2>2
<1>12. ExpectedInv'
  BY ZenonT(60), <1>10, <1>11 DEF ExpectedInv, Expecting
<1> QED BY ZenonT(60), <1>6, <1>7, <1>12 DEF IInv

\* Starting the reconstruction of a compact block keeps the invariant.
LEMMA StartCompactStep ==
    ASSUME IInv, ChainInv', Grows, NEW p, Turn(p), NEW b \in headers', b # Genesis,
           NEW d, Exact(d), SameFlights(dl, d), Pointed(d, headers', data'),
           TakesCompact(d, p, b), StartCompact(d, p, b, {GetCompact(b)}),
           UNCHANGED <<gone, fDisconnect>>, unasked' \in 0 .. MaxUnasked
    PROVE  IInv'
<1> DEFINE e == MarkBlockAsInFlight(d, p, {b})
           f == SetPartial(e, p, b)
           g == MarkBlockAsReceived(f, b)
<1>1. /\ p \in Peer /\ p \in Nodes(dl) /\ p \in Nodes(d) /\ handler.step = "idle" /\ b \in Block
      /\ {b} \in SUBSET Block
  BY ZenonT(60), TurnFacts DEF SameFlights, ChainInv
<1>2. HasRoom(d, p, {b}) /\ (b \in Flying(d) => d.mapBlocksInFlight[b] = p)
  BY ZenonT(60), <1>1, CompactRoom
<1>3. Exact(e) /\ Added(d, e, p, {b})
  BY ZenonT(60), <1>1, <1>2, InFlightMarked
<1>4. PICK status \in ReadStatus(p) :
        /\ dl' = IF status = "invalid" THEN Punish(g, p) ELSE f
        /\ AskAnswered(p, {GetCompact(b)}, CompactRequests(status, b))
        /\ handler' = IF status = "complete" THEN Handle("fill", p, b, TRUE) ELSE Idle
  BY ZenonT(60) DEF StartCompact
<1> HIDE DEF e
<1>5. p \in Nodes(e) /\ b \in HeldBy(e, p) /\ Nodes(e) = Nodes(d) /\ Nodes(e) = Nodes(dl)
  BY ZenonT(60), <1>1, <1>2, <1>3 DEF Added, SamePointers, HeldBy, SameFlights
<1>6. /\ Exact(f) /\ SamePointers(e, f) /\ f.mapBlocksInFlight = e.mapBlocksInFlight
      /\ \A q \in Nodes(e) : f.mapNodeState[q].partialBlock =
            IF q = p THEN e.mapNodeState[q].partialBlock \cup {b} ELSE e.mapNodeState[q].partialBlock
  BY ZenonT(60), <1>3, <1>5, PartialSet
<1> HIDE DEF f
<1>7. Pointed(e, headers', data') /\ Pointed(f, headers', data')
  <2>1. SamePointers(d, e)
    BY ZenonT(60), <1>3 DEF Added
  <2>2. Pointed(e, headers', data')
    BY ZenonT(60), <2>1, PointersKept
  <2> QED BY ZenonT(60), <1>6, <2>2, PointersKept
<1>8. status \in {"missing", "complete", "failed", "invalid"}
  BY ZenonT(60) DEF ReadStatus
<1>9. CompactRequests(status, b) \in SUBSET Request
  BY ZenonT(60), <1>1, RequestTypes DEF CompactRequests
<1>10. /\ asked' \in [Peer -> SUBSET Request]
       /\ CompactRequests(status, b) \subseteq asked'[p]
       /\ \A q \in Peer : asked[q] \ {GetCompact(b)} \subseteq asked'[q]
       /\ \A q \in Peer : \A c : c # b => asked[q] \cap Requests(c) \subseteq asked'[q]
  <2> DEFINE requests == CompactRequests(status, b)
  <2>1. requests \in SUBSET Request /\ AskAnswered(p, {GetCompact(b)}, requests)
    BY ZenonT(60), <1>4, <1>9
  <2> HIDE DEF requests
  <2>2. /\ asked' \in [Peer -> SUBSET Request]
        /\ requests \subseteq asked'[p]
        /\ \A q \in Peer : asked[q] \ {GetCompact(b)} \subseteq asked'[q]
        /\ \A q \in Peer : \A c : c # b => asked[q] \cap Requests(c) \subseteq asked'[q]
    BY ZenonT(60), <1>1, <2>1, CompactAnswered
  <2> QED BY ZenonT(60), <2>2 DEF requests
<1>11. CASE status = "invalid"
  <2>1. dl' = Punish(g, p) /\ handler' = Idle
    BY ZenonT(60), <1>4, <1>11
  <2>2. Exact(g) /\ Dropped(f, g, b)
    BY ZenonT(60), <1>6, ReceivedExact
  <2> HIDE DEF g
  <2>3. p \in Nodes(g)
    BY ZenonT(60), <1>5, <1>6, <2>2 DEF Dropped, SamePointers
  <2>4. Exact(dl') /\ SamePointers(g, dl') /\ SameFlights(g, dl')
    BY ZenonT(60), <2>1, <2>2, <2>3, Punished
  <2>5. Dropped(d, dl', b)
    BY ZenonT(60), <1>3, <1>6, <2>2, <2>4, ReleasedAgain
  <2>6. SamePointers(d, dl')
    BY ZenonT(60), <2>5 DEF Dropped
  <2>7. Pointed(dl', headers', data')
    BY ZenonT(60), <2>6, PointersKept
  <2>8. \A q \in Peer : asked[q] \ Requests(b) \subseteq asked'[q]
    BY ZenonT(60), <1>10 DEF Requests
  <2>9. handler.step = "fill" => handler.block = b
    BY ZenonT(60), <1>1
  <2> QED BY ZenonT(60), <1>10, <2>1, <2>4, <2>5, <2>7, <2>8, <2>9, ReleaseAction
<1>12. CASE status # "invalid"
  <2>1. dl' = f
    BY ZenonT(60), <1>4, <1>12
  <2>2. \/ {GetBlockTxn(b), GetData(b)} \cap asked'[p] # {} /\ handler' = Idle
        \/ b # Genesis /\ handler' = Handle("fill", p, b, TRUE)
    <3>1. CASE status = "complete"
      BY ZenonT(60), <1>4, <3>1
    <3>2. CASE status = "missing"
      BY ZenonT(60), <1>4, <1>10, <3>2 DEF CompactRequests
    <3>3. CASE status = "failed"
      BY ZenonT(60), <1>4, <1>10, <3>3 DEF CompactRequests
    <3> QED BY ZenonT(60), <1>8, <1>12, <3>1, <3>2, <3>3
  <2>3. b \in Flying(dl) => dl.mapBlocksInFlight[b] = p
    BY ZenonT(60), <1>2 DEF SameFlights, Flying
  <2>4. Exact(dl') /\ SamePointers(e, dl') /\ dl'.mapBlocksInFlight = e.mapBlocksInFlight
    BY ZenonT(60), <1>6, <2>1
  <2>5. PartialAdded(e, dl', p, b)
    BY ZenonT(60), <1>6, <2>1 DEF PartialAdded
  <2>6. Pointed(dl', headers', data')
    BY ZenonT(60), <1>7, <2>1
  <2> QED BY ZenonT(60), <1>3, <1>5, <1>10, <2>2, <2>3, <2>4, <2>5, <2>6, PartialAction
<1> QED BY ZenonT(60), <1>11, <1>12

\* The handling of a compact block whose header was accepted keeps the invariant.
LEMMA CompactAcceptedStep ==
    ASSUME IInv, ChainInv', Grows, NEW p, Turn(p), NEW b \in Block, b # Genesis, headers' = headers \cup {b},
           CompactAccepted(p, b, {GetCompact(b)}),
           UNCHANGED <<data, gone, fDisconnect>>, unasked' \in 0 .. MaxUnasked
    PROVE  IInv'
<1> DEFINE d == WithState(dl, p, UpdateBlockAvailability(dl.mapNodeState[p], headers \cup {b}, b))
           again == IF InFlight(d, b) THEN {GetData(b)} ELSE {}
           A == {GetCompact(b)}
<1>1. /\ p \in Peer /\ p \in Nodes(dl) /\ p \in Connected /\ b \in headers'
      /\ headers' \in SUBSET Block /\ headers \subseteq headers'
  BY ZenonT(60), TurnFacts DEF ChainInv
<1>2. Exact(d) /\ SameFlights(dl, d) /\ Pointed(d, headers', data')
  BY ZenonT(60), <1>1, AvailabilityStep
<1>3. \/ dl' = d /\ AskAnswered(p, A, {}) /\ handler' = Idle /\ b \in data
      \/ dl' = d /\ AskAnswered(p, A, again) /\ handler' = Idle
      \/ dl' = d /\ AskAnswered(p, A, {}) /\ handler' = Idle /\ ~InFlight(d, b)
      \/ ~TakesCompact(d, p, b) /\ TryReconstruct(d, p, b, A)
      \/ dl' = d /\ AskAnswered(p, A, {}) /\ handler' = Idle /\ AlreadySyncing(d, p, b)
      \/ TakesCompact(d, p, b) /\ StartCompact(d, p, b, A)
      \/ ~InFlight(d, b) /\ FetchDirectly(d, p, b, A) /\ handler' = Idle
  BY Zenon DEF CompactAccepted
<1> HIDE DEF d
<1>4. InFlight(d, b) <=> b \in Flying(dl)
  BY ZenonT(60), <1>2 DEF SameFlights, InFlight, Flying
<1>5. Holder(d, b) = p <=> (b \in Flying(dl) /\ dl.mapBlocksInFlight[b] = p)
  BY ZenonT(60), <1>1, <1>2, BlockDownloadAssumption DEF SameFlights, Holder, Flying
<1>6. {} \in SUBSET Request /\ again \in SUBSET Request
  BY ZenonT(60), RequestTypes
<1>7. ASSUME NEW requests \in SUBSET Request, dl' = d, AskAnswered(p, A, requests),
             handler' = Idle \/ handler' \in Busy,
             b \in Flying(dl) /\ dl.mapBlocksInFlight[b] = p =>
               \/ b \in data' \/ GetData(b) \in requests
               \/ b \in dl.mapNodeState[p].partialBlock
      PROVE  IInv'
  BY ZenonT(60), <1>2, <1>7, QuitStep
<1>8. CASE dl' = d /\ AskAnswered(p, A, {}) /\ handler' = Idle /\ b \in data
  BY ZenonT(60), <1>6, <1>7, <1>8
<1>9. CASE dl' = d /\ AskAnswered(p, A, again) /\ handler' = Idle
  <2>1. b \in Flying(dl) => GetData(b) \in again
    BY ZenonT(60), <1>4
  <2> HIDE DEF again, A
  <2> QED BY ZenonT(60), <1>6, <1>7, <1>9, <2>1
<1>10. CASE dl' = d /\ AskAnswered(p, A, {}) /\ handler' = Idle /\ ~InFlight(d, b)
  BY ZenonT(60), <1>4, <1>6, <1>7, <1>10
<1>11. CASE ~TakesCompact(d, p, b) /\ TryReconstruct(d, p, b, A)
  <2>1. dl' = d /\ AskAnswered(p, A, {}) /\ handler' \in {Idle, Handle("reconstructed", p, b, TRUE)}
    BY ZenonT(60), <1>11 DEF TryReconstruct
  <2>2. handler' = Idle \/ handler' \in Busy
    <3>1. Handle("reconstructed", p, b, TRUE) \in Busy
      BY ZenonT(60), <1>1 DEF Handle, Busy
    <3> QED BY ZenonT(60), <2>1, <3>1
  <2>3. ~(b \in Flying(dl) /\ dl.mapBlocksInFlight[b] = p)
    BY ZenonT(60), <1>5, <1>11 DEF TakesCompact
  <2> QED BY ZenonT(60), <1>6, <1>7, <2>1, <2>2, <2>3
<1>12. CASE dl' = d /\ AskAnswered(p, A, {}) /\ handler' = Idle /\ AlreadySyncing(d, p, b)
  <2>1. b \in dl.mapNodeState[p].partialBlock
    BY ZenonT(60), <1>1, <1>2, <1>12 DEF AlreadySyncing, SameFlights
  <2> QED BY ZenonT(60), <1>6, <1>7, <1>12, <2>1
<1>13. CASE TakesCompact(d, p, b) /\ StartCompact(d, p, b, A)
  BY ZenonT(60), <1>1, <1>2, <1>13, StartCompactStep
<1>14. CASE ~InFlight(d, b) /\ FetchDirectly(d, p, b, A) /\ handler' = Idle
  <2>1. \A c \in Flying(dl) : Requests(c) \cap A = {}
    BY ZenonT(60), <1>4, <1>14, RequestsDiffer DEF Requests
  <2> HIDE DEF A
  <2> QED BY ZenonT(60), <1>1, <1>2, <1>14, <2>1, FetchDirectlyStep
<1> QED BY ZenonT(60), <1>3, <1>8, <1>9, <1>10, <1>11, <1>12, <1>13, <1>14

\* The handler of cmpctblock keeps the invariant.
LEMMA CMPCTBLOCKStep ==
    ASSUME IInv, NEW p \in Peer, NEW b \in Block \ {Genesis}, CMPCTBLOCK(p, b)
    PROVE  IInv'
<1>1. Takes(p, GetCompact(b)) /\ UNCHANGED <<data, tip, fDisconnect, gone>>
  BY ZenonT(60) DEF CMPCTBLOCK
<1>2. Turn(p) /\ unasked' \in 0 .. MaxUnasked
  BY ZenonT(60), <1>1, TakesFacts
<1>3. CASE pprev(b) \in headers
  <2>1. AddHeaders({b}) /\ CompactAccepted(p, b, {GetCompact(b)})
    BY ZenonT(60), <1>3 DEF CMPCTBLOCK
  <2>2. headers' = headers \cup {b} /\ {b} \in SUBSET Block
    BY ZenonT(60), <2>1 DEF AddHeaders
  <2>3. \A c \in {b} : Branch(c) \subseteq headers \cup {b}
    BY ZenonT(60), <1>3, ParentBranch DEF IInv
  <2>4. /\ bestHeader' \in headers' /\ headers' \in SUBSET Block /\ headers \subseteq headers'
        /\ \A c \in headers' : Branch(c) \subseteq headers'
    BY ZenonT(60), <2>1, <2>2, <2>3, HeadersAdded DEF IInv
  <2>5. ChainInv' /\ Grows
    BY ZenonT(60), <1>1, <2>4, OnlyHeaders DEF IInv
  <2> QED BY ZenonT(60), <1>1, <1>2, <2>1, <2>2, <2>5, CompactAcceptedStep
<1>4. CASE pprev(b) \notin headers
  <2> DEFINE requests == IF IsInitialBlockDownload THEN {} ELSE {GetHeaders(bestHeader, PeerTip[p])}
  <2>1. AskAnswered(p, {GetCompact(b)}, requests) /\ UNCHANGED <<headers, bestHeader, dl, handler>>
    BY ZenonT(60), <1>4 DEF CMPCTBLOCK
  <2>2. requests \in SUBSET Request
    <3>1. bestHeader \in Block /\ PeerTip[p] \in Block
      BY ZenonT(60), BlockDownloadAssumption DEF IInv, ChainInv
    <3> QED BY ZenonT(60), <3>1, RequestTypes
  <2> HIDE DEF requests
  <2>3. b \notin Flying(dl)
    <3>1. b \notin headers
      BY ZenonT(60), <1>4, Parent DEF IInv, ChainInv, Branch
    <3> QED BY ZenonT(60), <3>1 DEF IInv, NamedInv
  <2>4. ChainInv' /\ Grows /\ headers' = headers /\ data' = data
    BY ZenonT(60), <1>1, <2>1, ChainKept DEF chain, IInv
  <2>5. Exact(dl') /\ SameFlights(dl, dl') /\ Pointed(dl', headers', data')
    BY ZenonT(60), <2>1, <2>4, SameBooks DEF IInv, NamedInv
  <2>6. handler' = Idle
    BY ZenonT(60), <1>2, <2>1, TurnFacts
  <2> QED BY ZenonT(60), <1>1, <1>2, <2>1, <2>2, <2>3, <2>4, <2>5, <2>6, QuitStep
<1> QED BY ZenonT(60), <1>3, <1>4

\* Transactions for b from p that nothing waits for, or that do not work out.
LEMMA FillAction ==
    ASSUME IInv, UNCHANGED chain, dl' = dl, handler' = Idle, NEW p, NEW b,
           handler.step = "fill" => handler.peer = p /\ handler.block = b,
           asked' \in [Peer -> SUBSET Request],
           \A q \in Peer : asked[q] \ {GetBlockTxn(b)} \subseteq asked'[q],
           \A q \in Peer \ {p} : asked'[q] = asked[q],
           b \in Flying(dl) /\ dl.mapBlocksInFlight[b] = p =>
               GetData(b) \in asked'[p] \/ b \notin dl.mapNodeState[p].partialBlock,
           UNCHANGED <<gone, fDisconnect>>, unasked' \in 0 .. MaxUnasked
    PROVE  IInv'
<1>1. \A c \in Flying(dl) : dl.mapBlocksInFlight[c] \in Peer
  BY ZenonT(60), Connection DEF IInv
<1>2. ChainInv' /\ headers' = headers /\ data' = data
  BY ZenonT(60), ChainKept DEF chain, IInv
<1>3. ThreadInv'
  BY ZenonT(60) DEF IInv, ThreadInv, Connected
<1>4. NamedInv' /\ Exact(dl')
  BY ZenonT(60), <1>2 DEF IInv, NamedInv
<1>5. ASSUME NEW c \in Flying(dl), NEW q, q = dl.mapBlocksInFlight[c]
      PROVE  Expects(dl', asked', handler', data', q, c)
  <2>1. Expects(dl, asked, handler, data, q, c) /\ q \in Peer
    BY ZenonT(60), <1>1, <1>5 DEF IInv, ExpectedInv, Expecting
  <2>2. CASE c # b \/ q # p
    <3>1. asked[q] \cap {GetData(c), GetCompact(c), GetBlockTxn(c)} \subseteq asked'[q]
      BY ZenonT(60), <2>1, <2>2, RequestsDiffer
    <3>2. ~Filling(handler, q, c)
      BY ZenonT(60), <2>2 DEF Filling
    <3>3. data \subseteq data'
      BY ZenonT(60), <1>2
    <3>4. c \in dl'.mapNodeState[q].partialBlock <=> c \in dl.mapNodeState[q].partialBlock
      BY ZenonT(60)
    <3> QED BY ZenonT(60), <2>1, <3>1, <3>2, <3>3, <3>4, StaysExpected
  <2>3. CASE c = b /\ q = p
    <3>1. CASE GetData(b) \in asked'[p]
      BY ZenonT(60), <2>3, <3>1 DEF Expects
    <3>2. CASE b \notin dl.mapNodeState[p].partialBlock
      <4>1. GetData(b) # GetBlockTxn(b) /\ GetCompact(b) # GetBlockTxn(b)
        BY ZenonT(60), RequestsDiffer
      <4> QED BY ZenonT(60), <1>2, <2>1, <2>3, <3>2, <4>1 DEF Expects
    <3> QED BY ZenonT(60), <1>5, <2>3, <3>1, <3>2
  <2> QED BY ZenonT(60), <2>2, <2>3
<1>6. ASSUME NEW c \in Flying(dl')
      PROVE  Expects(dl', asked', handler', data', dl'.mapBlocksInFlight[c], c)
  BY ZenonT(60), <1>5
<1>7. handler'.step # "fill"
  BY ZenonT(60) DEF Idle
<1>8. ExpectedInv'
  BY ZenonT(60), <1>6, <1>7 DEF ExpectedInv, Expecting
<1> QED BY ZenonT(60), <1>2, <1>3, <1>4, <1>8 DEF IInv

\* Filling a partial block with the missing transactions keeps the invariant.
LEMMA FillBlockStep ==
    ASSUME IInv, NEW p \in Connected, NEW b \in Block \ {Genesis},
           NEW answered \in SUBSET {GetBlockTxn(b)}, FillBlock(p, b, answered),
           handler = Idle \/ Filling(handler, p, b),
           UNCHANGED <<chain, fDisconnect, gone, unasked>>
    PROVE  IInv'
<1>1. p \in Peer /\ p \in Nodes(dl) /\ Exact(dl)
  BY ZenonT(60), Connection DEF IInv
<1>2. handler.step = "fill" => handler.peer = p /\ handler.block = b
  BY DEF Idle, Filling
<1>3. unasked' \in 0 .. MaxUnasked /\ asked \in [Peer -> SUBSET Request]
  BY ZenonT(60) DEF IInv, ThreadInv
<1>4. ASSUME NEW requests \in SUBSET Request, AskAnswered(p, answered, requests)
      PROVE  /\ asked' \in [Peer -> SUBSET Request]
             /\ \A q \in Peer : asked[q] \ {GetBlockTxn(b)} \subseteq asked'[q]
             /\ \A q \in Peer \ {p} : asked'[q] = asked[q]
             /\ requests \subseteq asked'[p]
  <2>1. /\ asked' \in [Peer -> SUBSET Request]
        /\ asked'[p] = (asked[p] \ answered) \cup requests
        /\ \A q \in Peer \ {p} : asked'[q] = asked[q]
    BY ZenonT(60), <1>1, <1>3, <1>4, Answers
  <2> QED BY ZenonT(60), <2>1
<1>5. CASE ~AlreadySyncing(dl, p, b)
  <2>1. dl' = dl /\ AskAnswered(p, answered, {}) /\ handler' = Idle
    BY ZenonT(60), <1>5 DEF FillBlock
  <2>2. /\ asked' \in [Peer -> SUBSET Request]
        /\ \A q \in Peer : asked[q] \ {GetBlockTxn(b)} \subseteq asked'[q]
        /\ \A q \in Peer \ {p} : asked'[q] = asked[q]
    BY ZenonT(60), <1>4, <2>1
  <2>3. b \in Flying(dl) /\ dl.mapBlocksInFlight[b] = p => b \notin dl.mapNodeState[p].partialBlock
    BY ZenonT(60), <1>5 DEF AlreadySyncing, Holder, Flying
  <2> QED BY ZenonT(60), <1>2, <1>3, <2>1, <2>2, <2>3, FillAction
<1>6. CASE AlreadySyncing(dl, p, b)
  <2>1. PICK status \in ReadStatus(p) \ {"missing"} :
          /\ dl' = CASE status = "complete" -> MarkBlockAsReceived(dl, b)
                     [] status = "invalid" -> Punish(MarkBlockAsReceived(dl, b), p)
                     [] OTHER -> dl
          /\ AskAnswered(p, answered, CompactRequests(status, b))
          /\ handler' = IF status = "complete" THEN Handle("process", p, b, TRUE) ELSE Idle
    BY ZenonT(60), <1>6 DEF FillBlock
  <2> DEFINE e == MarkBlockAsReceived(dl, b)
             requests == CompactRequests(status, b)
  <2>2. status \in {"complete", "failed", "invalid"}
    BY ZenonT(60) DEF ReadStatus
  <2>3. requests \in SUBSET Request /\ AskAnswered(p, answered, requests)
    BY ZenonT(60), <2>1, RequestTypes DEF CompactRequests
  <2>4. status = "failed" => GetData(b) \in requests
    BY ZenonT(60) DEF CompactRequests
  <2> HIDE DEF requests
  <2>5. /\ asked' \in [Peer -> SUBSET Request]
        /\ \A q \in Peer : asked[q] \ {GetBlockTxn(b)} \subseteq asked'[q]
        /\ \A q \in Peer \ {p} : asked'[q] = asked[q]
        /\ requests \subseteq asked'[p]
    BY ZenonT(60), <1>4, <2>3
  <2>6. CASE status = "failed"
    <3>1. dl' = dl /\ handler' = Idle
      BY ZenonT(60), <2>1, <2>6
    <3>2. GetData(b) \in asked'[p]
      BY ZenonT(60), <2>4, <2>5, <2>6
    <3> QED BY ZenonT(60), <1>2, <1>3, <2>5, <3>1, <3>2, FillAction
  <2>7. CASE status # "failed"
    <3>1. \/ dl' = e /\ handler' = Handle("process", p, b, TRUE)
          \/ dl' = Punish(e, p) /\ handler' = Idle
      BY ZenonT(60), <2>1, <2>2, <2>7
    <3>2. Exact(e) /\ Dropped(dl, e, b)
      BY ZenonT(60), <1>1, ReceivedExact
    <3> HIDE DEF e
    <3>3. p \in Nodes(e)
      BY ZenonT(60), <1>1, <3>2 DEF Dropped, SamePointers
    <3>4. Exact(dl') /\ Dropped(dl, dl', b)
      <4>1. CASE dl' = Punish(e, p)
        <5>1. Exact(dl') /\ SamePointers(e, dl') /\ SameFlights(e, dl')
          BY ZenonT(60), <3>2, <3>3, <4>1, Punished
        <5>2. Nodes(e) = Nodes(dl)
          BY ZenonT(60), <3>2 DEF Dropped, SamePointers
        <5>3. SamePointers(dl, dl')
          BY ZenonT(60), <3>2, <5>1, <5>2 DEF Dropped, SamePointers
        <5> QED BY ZenonT(60), <3>2, <5>1, <5>2, <5>3 DEF Dropped, SameFlights, Flying
      <4> QED BY ZenonT(60), <3>1, <3>2, <4>1
    <3>5. SamePointers(dl, dl') /\ Pointed(dl, headers, data)
      BY ZenonT(60), <3>4 DEF Dropped, IInv, NamedInv
    <3>6. ChainInv' /\ Grows /\ headers' = headers /\ data' = data
      BY ZenonT(60), ChainKept DEF chain, IInv
    <3>7. Pointed(dl', headers', data')
      BY ZenonT(60), <3>5, <3>6, PointersKept
    <3>8. \A q \in Peer : asked[q] \ Requests(b) \subseteq asked'[q]
      BY ZenonT(60), <2>5 DEF Requests
    <3>9. handler' = Idle \/ handler' \in Busy
      <4>1. Handle("process", p, b, TRUE) \in Busy
        BY ZenonT(60) DEF Handle, Busy
      <4> QED BY ZenonT(60), <3>1, <4>1
    <3>10. SameFlights(dl, dl)
      BY ZenonT(60), SameBooks
    <3> QED BY ZenonT(60), <1>2, <1>3, <2>5, <3>4, <3>6, <3>7, <3>8, <3>9, <3>10, ReleaseAction
  <2> QED BY ZenonT(60), <2>6, <2>7
<1> QED BY ZenonT(60), <1>5, <1>6

\* The handler of blocktxn keeps the invariant.
LEMMA BLOCKTXNStep ==
    ASSUME IInv, NEW p \in Peer, NEW b \in Block \ {Genesis}, BLOCKTXN(p, b)
    PROVE  IInv'
<1>1. /\ Turn(p) /\ FillBlock(p, b, {GetBlockTxn(b)})
      /\ UNCHANGED <<chain, fDisconnect, gone, unasked>>
  BY ZenonT(60) DEF BLOCKTXN
<1>2. p \in Connected /\ handler = Idle
  BY ZenonT(60), <1>1, TurnFacts
<1>3. {GetBlockTxn(b)} \in SUBSET {GetBlockTxn(b)}
  BY ZenonT(60)
<1> QED BY ZenonT(60), <1>1, <1>2, <1>3, FillBlockStep

\* The blocktxn made up by a cmpctblock that lacked nothing keeps the invariant.
LEMMA BLOCKTXN_DummyStep ==
    ASSUME IInv, BLOCKTXN_Dummy
    PROVE  IInv'
<1> DEFINE p == handler.peer
           b == handler.block
<1>1. /\ handler.step = "fill" /\ FillBlock(p, b, {})
      /\ UNCHANGED <<chain, fDisconnect, gone, unasked>>
  BY ZenonT(60) DEF BLOCKTXN_Dummy
<1>2. p \in Connected /\ b \in Block \ {Genesis}
  BY ZenonT(60), <1>1, HandlerSteps DEF IInv
<1>3. Filling(handler, p, b) /\ {} \in SUBSET {GetBlockTxn(b)}
  BY ZenonT(60), <1>1 DEF Filling
<1> HIDE DEF p, b
<1> QED BY ZenonT(60), <1>1, <1>2, <1>3, FillBlockStep

-----------------------------------------------------------------------------
(* The invariant holds.                                                    *)

\* The initial states satisfy the inductive invariant.
LEMMA InitIInv == Init => IInv
<1> SUFFICES ASSUME Init PROVE IInv
  BY ZenonT(60)
<1>1. /\ dl.mapNodeState = <<>> /\ dl.mapBlocksInFlight = <<>>
      /\ dl.nPeersWithValidatedDownloads = 0 /\ dl.nPreferredDownload = 0 /\ dl.nSyncStarted = 0
      /\ dl \in Shaped(dl)
  BY DEF Init, Shaped
<1>2. Nodes(dl) = {} /\ Flying(dl) = {} /\ Connected = {}
  BY ZenonT(60), <1>1, NoFunction DEF Nodes, Flying, Connected
<1>3. Books(dl)
  BY ZenonT(60), <1>1, <1>2, NoFunction DEF Books
<1>4. Exact(dl)
  <2>1. IsFiniteSet({}) /\ Cardinality({}) = 0
    BY ZenonT(60), FS_EmptySet
  <2>2. Downloading(dl) = {} /\ Preferred(dl) = {} /\ Started(dl) = {}
    BY ZenonT(60), <1>2 DEF Downloading, Preferred, Started
  <2> QED BY ZenonT(60), <1>1, <1>2, <1>3, <2>1, <2>2 DEF Exact
<1>5. ChainInv
  <2>1. Genesis \in Block /\ Branch(Genesis) \subseteq {Genesis}
    <3>1. Genesis \in Block /\ nHeight(Genesis) = 0
      BY ZenonT(60), BlockTreeAssumption, Heights
    <3>2. ASSUME NEW a \in Branch(Genesis) PROVE a = Genesis
      BY <3>1, Heights DEF Branch, OnBranch, nHeight
    <3> QED BY ZenonT(60), <3>1, <3>2
  <2> QED BY ZenonT(60), <2>1 DEF Init, ChainInv, Linked
<1>6. ThreadInv
  BY <1>2, BlockDownloadAssumption DEF Init, ThreadInv
<1>7. NamedInv
  BY ZenonT(60), <1>2 DEF NamedInv, Pointed
<1>8. ExpectedInv
  BY ZenonT(60), <1>2 DEF Init, ExpectedInv, Expecting, Idle
<1> QED BY ZenonT(60), <1>4, <1>5, <1>6, <1>7, <1>8 DEF IInv

\* Every action of the node and of its peers keeps the inductive invariant.
LEMMA NextStep == IInv /\ [Next]_vars => IInv'
<1> SUFFICES ASSUME IInv, [Next]_vars PROVE IInv'
  BY ZenonT(60)
<1>1. CASE UNCHANGED vars
  <2>1. UNCHANGED <<headers, bestHeader, data, tip, dl, fDisconnect, gone, asked, handler, unasked>>
    BY ZenonT(60), <1>1 DEF vars, chain
  <2>2. ChainInv' /\ ThreadInv'
    BY ZenonT(60), <2>1 DEF IInv, ChainInv, ThreadInv, Linked, Connected
  <2> QED BY ZenonT(60), <2>1, <2>2 DEF IInv, NamedInv, ExpectedInv
<1>2. ASSUME NEW p \in Peer, NEW kind \in Kinds[p], InitializeNode(p, kind) PROVE IInv'
  BY ZenonT(60), <1>2, InitializeNodeStep
<1>3. ASSUME NEW p \in Peer, VERSION(p) PROVE IInv'
  BY ZenonT(60), <1>3, VERSIONStep
<1>4. ASSUME NEW p \in Peer, Closes(p) PROVE IInv'
  BY ZenonT(60), <1>4, ClosesStep
<1>5. ASSUME NEW p \in Peer, FinalizeNode(p) PROVE IInv'
  BY ZenonT(60), <1>5, FinalizeNodeStep
<1>6. ASSUME NEW p \in Peer, SendMessages(p) PROVE IInv'
  BY ZenonT(60), <1>6, SendMessagesStep
<1>7. ASSUME NEW p \in Peer, CheckIfBanned(p) PROVE IInv'
  BY ZenonT(60), <1>7, CheckIfBannedStep
<1>8. ASSUME NEW p \in Peer, Timeout(p) PROVE IInv'
  <2>1. (Turn(p) /\ TimesOut(p)) \/ HeadersTimeoutWhitelisted(p)
    BY ZenonT(60), <1>8 DEF Timeout, StallingTimeout, DownloadTimeout, HeadersTimeout
  <2> QED BY ZenonT(60), <2>1, TimesOutStep, HeadersTimeoutWhitelistedStep
<1>9. ASSUME NEW p \in Peer, Message(p) PROVE IInv'
  <2>1. CASE HEADERS(p)
    BY ZenonT(60), <2>1, HEADERSStep
  <2>2. ASSUME NEW b \in Branch(PeerTip[p]) \ {Genesis},
               INV(p, b) \/ BLOCK(p, b) \/ CMPCTBLOCK(p, b) \/ BLOCKTXN(p, b)
        PROVE  IInv'
    <3>1. b \in Block \ {Genesis}
      BY ZenonT(60) DEF Branch
    <3> QED BY ZenonT(60), <2>2, <3>1, INVStep, BLOCKStep, CMPCTBLOCKStep, BLOCKTXNStep
  <2> QED BY ZenonT(60), <1>9, <2>1, <2>2 DEF Message
<1>10. CASE HandlerGoesOn
  BY ZenonT(60), <1>10, BLOCKTXN_DummyStep, HandlerProcessesStep, HandlerReleasesStep DEF HandlerGoesOn
<1>11. ASSUME NEW b \in Block \ {Genesis}, SubmitBlock(b) PROVE IInv'
  BY ZenonT(60), <1>11, SubmitBlockStep
<1> QED BY ZenonT(60), <1>1, <1>2, <1>3, <1>4, <1>5, <1>6, <1>7, <1>8, <1>9, <1>10, <1>11 DEF Next

\* The inductive invariant holds whatever the peers do, in whatever order the
\* message thread and the socket thread take cs_main (net_processing.cpp).
THEOREM InvariantHolds == Spec => []IInv
BY InitIInv, NextStep, PTL DEF Spec

\* The types of the variables: the blocks that are known and asked for, the peers
\* that are connected, marked and forgotten, and the message thread's next step.
THEOREM TypeCorrect == Spec => []TypeOK
<1>1. IInv => TypeOK
  <2> SUFFICES ASSUME IInv PROVE TypeOK
    BY ZenonT(60)
  <2>1. Connected \subseteq Peer /\ Flying(dl) \subseteq headers
    BY ZenonT(60), Connection DEF IInv, NamedInv
  <2>2. handler.step \in {"idle", "process", "fill", "reconstructed", "release"}
    BY DEF IInv, ThreadInv, Idle
  <2> QED BY ZenonT(60), <2>1, <2>2 DEF TypeOK, IInv, ChainInv, ThreadInv, Flying
<1> QED BY <1>1, InvariantHolds, PTL

\* mapBlocksInFlight, the lists of the peers and the counters agree, whoever goes
\* away when (MarkBlockAsReceived, MarkBlockAsInFlight, FinalizeNode).
THEOREM InFlightIsExact == Spec => []InFlightExact
<1>1. IInv => InFlightExact
  <2> SUFFICES ASSUME IInv PROVE InFlightExact
    BY ZenonT(60)
  <2>1. Exact(dl) /\ Connected = Nodes(dl)
    BY ZenonT(60), Connection DEF IInv
  <2>2. ASSUME NEW p \in Connected
        PROVE  LET s == dl.mapNodeState[p]
               IN  /\ s.vBlocksInFlight = {b \in DOMAIN dl.mapBlocksInFlight : dl.mapBlocksInFlight[b] = p}
                   /\ s.nBlocksInFlight = Cardinality(s.vBlocksInFlight)
                   /\ s.nBlocksInFlightValidHeaders = s.nBlocksInFlight
                   /\ s.nBlocksInFlight <= MAX_BLOCKS_IN_TRANSIT_PER_PEER
    <3> DEFINE s == dl.mapNodeState[p]
    <3>1. NodeExact(s, HeldBy(dl, p))
      BY ZenonT(60), <2>1 DEF Exact
    <3>2. s.vBlocksInFlight = HeldBy(dl, p)
      BY ZenonT(60), <3>1 DEF NodeExact
    <3>3. /\ s.nBlocksInFlight = Cardinality(s.vBlocksInFlight)
          /\ s.nBlocksInFlightValidHeaders = s.nBlocksInFlight
          /\ s.nBlocksInFlight <= MAX_BLOCKS_IN_TRANSIT_PER_PEER
      BY ZenonT(60), <3>1, <3>2 DEF NodeExact
    <3> QED BY ZenonT(60), <3>2, <3>3 DEF HeldBy, Flying
  <2>3. Range(dl.mapBlocksInFlight) \subseteq Connected
    BY ZenonT(60), Connection DEF IInv, Range, Flying
  <2>4. /\ dl.nPeersWithValidatedDownloads = Cardinality({p \in Connected : dl.mapNodeState[p].vBlocksInFlight # {}})
        /\ dl.nPreferredDownload = Cardinality({p \in Connected : dl.mapNodeState[p].fPreferredDownload})
        /\ dl.nSyncStarted = Cardinality({p \in Connected : dl.mapNodeState[p].fSyncStarted})
    BY ZenonT(60), <2>1 DEF Exact, Downloading, Preferred, Started
  <2> QED BY ZenonT(60), <2>2, <2>3, <2>4 DEF InFlightExact
<1> QED BY <1>1, InvariantHolds, PTL

\* What FinalizeNode asserts when the last peer has gone: nothing is in flight and
\* no peer is counted.
NothingLeft ==
    Connected = {} =>
        /\ DOMAIN dl.mapBlocksInFlight = {}
        /\ dl.nPreferredDownload = 0
        /\ dl.nPeersWithValidatedDownloads = 0

\* The assertions at the end of FinalizeNode never fail.
THEOREM NothingIsLeft == Spec => []NothingLeft
<1>1. IInv => NothingLeft
  <2> SUFFICES ASSUME IInv, Connected = {}
               PROVE  /\ DOMAIN dl.mapBlocksInFlight = {}
                      /\ dl.nPreferredDownload = 0 /\ dl.nPeersWithValidatedDownloads = 0
    BY ZenonT(60) DEF NothingLeft
  <2>1. Exact(dl) /\ Nodes(dl) = {} /\ Flying(dl) = {}
    BY ZenonT(60), Connection DEF IInv
  <2>2. Downloading(dl) = {} /\ Preferred(dl) = {}
    BY ZenonT(60), <2>1 DEF Downloading, Preferred
  <2> QED BY ZenonT(60), <2>1, <2>2, FS_EmptySet DEF Exact, Flying
<1> QED BY <1>1, InvariantHolds, PTL

\* A peer is only held to be stalling while it owes a block (nStallingSince, which
\* MarkBlockAsReceived resets and FindNextBlocksToDownload sets for a holder).
THEOREM StallerDoesOwe == Spec => []StallerOwes
<1>1. IInv => StallerOwes
  BY ZenonT(60), Connection DEF IInv, Exact, NodeExact, StallerOwes
<1> QED BY <1>1, InvariantHolds, PTL

\* A block in flight that is missing is still on its way from the peer it is in
\* flight from, compact blocks and their failures included (mapBlocksInFlight).
THEOREM BlocksAreExpected == Spec => []StillExpected
<1>1. IInv => StillExpected
  BY ZenonT(60) DEF IInv, ExpectedInv, Expecting, Expects, Filling, StillExpected, Flying
<1> QED BY <1>1, InvariantHolds, PTL

\* The walk over a peer's branch starts from a block whose ancestors have all
\* arrived (pindexLastCommonBlock in FindNextBlocksToDownload).
THEOREM LastCommonIsLinked == Spec => []LastCommonLinked
<1>1. IInv => LastCommonLinked
  BY ZenonT(60), Connection DEF IInv, NamedInv, Pointed, LastCommonLinked, Linked
<1> QED BY <1>1, InvariantHolds, PTL

=============================================================================
