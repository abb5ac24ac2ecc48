---------------------------- MODULE BlockDownload ----------------------------
(***************************************************************************)
(* The download of headers and blocks from peers (net_processing.cpp):     *)
(* which peer is asked for what, and what becomes of the request when the  *)
(* peer answers, answers late, answers with a compact block, stalls or     *)
(* goes away.                                                              *)
(*                                                                         *)
(* One thread handles messages (ThreadMessageHandler) and the socket       *)
(* thread forgets disconnected peers (FinalizeNode), each in critical      *)
(* sections of cs_main; one step here is one section.  Validation is       *)
(* reduced to what the download reads of it: the headers and the blocks    *)
(* that are known, and the tip.  All blocks are valid here.                *)
(*                                                                         *)
(* There is no clock.  A timeout may fire whenever the code has armed it,  *)
(* except on the peers of Reliable, which answer in time.                  *)
(***************************************************************************)
EXTENDS BlockTree, Functions

CONSTANTS
    Peer,          \* node ids; an id is never used twice
    NoPeer, NoBlock,
    PeerTip,       \* the best block of each peer
    Kinds,         \* what each peer may be: inbound, whitelisted or outbound
    Reliable,      \* the peers that stay, and answer every request in time
    RecentHeight,  \* blocks from this height on have a recent timestamp
    MAX_BLOCKS_IN_TRANSIT_PER_PEER,
    BLOCK_DOWNLOAD_WINDOW,
    MaxUnasked     \* bound on the messages that answer no request

ASSUME BlockDownloadAssumption ==
    /\ NoPeer \notin Peer /\ NoBlock \notin Block
    /\ PeerTip \in [Peer -> Block \ {Genesis}]
    /\ Kinds \in [Peer -> SUBSET {"inbound", "whitelisted", "outbound"}]
    /\ Reliable \subseteq {p \in Peer : Kinds[p] = {"outbound"}}
    /\ {RecentHeight, MAX_BLOCKS_IN_TRANSIT_PER_PEER, BLOCK_DOWNLOAD_WINDOW} \subseteq Nat \ {0}
    /\ MaxUnasked \in Nat

VARIABLES
    headers, bestHeader, data, tip,  \* mapBlockIndex, pindexBestHeader, BLOCK_HAVE_DATA, chainActive.Tip()
    dl,           \* the bookkeeping under cs_main, a record: see Init
    fDisconnect,  \* the peers to be disconnected
    gone,         \* the peers that are forgotten
    asked,        \* what was asked of each peer and is not answered
    handler,      \* what the message thread is doing
    unasked

chain == <<headers, bestHeader, data, tip>>
vars == <<chain, dl, fDisconnect, gone, asked, handler, unasked>>

Idle == [step |-> "idle", peer |-> NoPeer, block |-> NoBlock, forced |-> FALSE]
Handle(step, p, b, forced) == [step |-> step, peer |-> p, block |-> b, forced |-> forced]

Connected == DOMAIN dl.mapNodeState
Whitelisted(p) == dl.mapNodeState[p].kind = "whitelisted"
Recent(b) == nHeight(b) >= RecentHeight

\* The tip's height never falls here, so the latch of the code needs no variable.
IsInitialBlockDownload == ~Recent(tip)
CanDirectFetch == Recent(tip)

\* Requests that wait for an answer.
GetData(b) == [kind |-> "block", from |-> b, to |-> b]
GetCompact(b) == [kind |-> "cmpct", from |-> b, to |-> b]
GetBlockTxn(b) == [kind |-> "txn", from |-> b, to |-> b]
GetHeaders(locator, stop) == [kind |-> "headers", from |-> locator, to |-> stop]

Ask(p, requests) == asked' = [asked EXCEPT ![p] = @ \cup requests]

-----------------------------------------------------------------------------
(* Blocks in flight: functions from the bookkeeping to the bookkeeping.    *)

\* vBlocksInFlight is the set of the blocks that are listed; its order only tells
\* when a timer is armed.  partialBlock are those that a compact block came for.
CNodeState(kind) ==
    [kind |-> kind,
     pindexBestKnownBlock |-> NoBlock, hashLastUnknownBlock |-> NoBlock,
     pindexLastCommonBlock |-> NoBlock,
     vBlocksInFlight |-> {}, partialBlock |-> {}, nBlocksInFlight |-> 0, nBlocksInFlightValidHeaders |-> 0,
     nStallingSince |-> FALSE,
     fPreferredDownload |-> FALSE, fSyncStarted |-> FALSE, nHeadersSyncTimeout |-> "zero",
     fShouldBan |-> FALSE, fSuccessfullyConnected |-> FALSE]

\* A condition as a number: the counters below are sums of flags.
Flag(x) == IF x THEN 1 ELSE 0

WithState(d, p, s) == [d EXCEPT !.mapNodeState[p] = s]
Holder(d, b) == IF b \in DOMAIN d.mapBlocksInFlight THEN d.mapBlocksInFlight[b] ELSE NoPeer
InFlight(d, b) == b \in DOMAIN d.mapBlocksInFlight

\* Fault: a peer that was stalling stays marked.
Released_KeepStall(s, b) ==
    [s EXCEPT !.vBlocksInFlight = @ \ {b},
              !.partialBlock = @ \ {b},
              !.nBlocksInFlight = @ - 1,
              !.nBlocksInFlightValidHeaders = @ - 1]

\* Every request names a known header, so fValidatedHeaders is always true.
Released(s, b) ==
    [s EXCEPT !.vBlocksInFlight = @ \ {b},
              !.partialBlock = @ \ {b},
              !.nBlocksInFlight = @ - 1,
              !.nBlocksInFlightValidHeaders = @ - 1,
              !.nStallingSince = FALSE]

MarkBlockAsReceived(d, b) ==
    IF ~InFlight(d, b) THEN d
    ELSE LET p == d.mapBlocksInFlight[b]
             s == Released(d.mapNodeState[p], b)
         IN  [d EXCEPT
                !.mapNodeState[p] = s,
                !.nPeersWithValidatedDownloads = IF s.nBlocksInFlightValidHeaders = 0 THEN @ - 1 ELSE @,
                !.mapBlocksInFlight = [c \in DOMAIN @ \ {b} |-> @[c]]]

Listed(s, new) ==
    [s EXCEPT !.vBlocksInFlight = @ \cup new,
              !.nBlocksInFlight = @ + Cardinality(new),
              !.nBlocksInFlightValidHeaders = @ + Cardinality(new)]

\* One call for each of the blocks.  No caller passes a block that is in flight
\* from another peer, so there is nothing to take out of flight first.
MarkBlockAsInFlight(d, p, blocks) ==
    LET new == {b \in blocks : ~InFlight(d, b)}
    IN  IF new = {} THEN d
        ELSE [d EXCEPT
                !.mapNodeState[p] = Listed(@, new),
                !.nPeersWithValidatedDownloads =
                    IF d.mapNodeState[p].nBlocksInFlightValidHeaders = 0 THEN @ + 1 ELSE @,
                !.mapBlocksInFlight =
                    [c \in DOMAIN @ \cup new |-> IF c \in new THEN p ELSE @[c]]]

\* GetBlockWork is the height, so a peer that announces the genesis block is one
\* with an unknown block; a tie goes to the later announcement.
BetterKnown(s, b) ==
    IF s.pindexBestKnownBlock = NoBlock \/ nHeight(b) >= nHeight(s.pindexBestKnownBlock)
    THEN [s EXCEPT !.pindexBestKnownBlock = b]
    ELSE s

Known(index, b) == b \in index /\ nHeight(b) > 0

ProcessBlockAvailability(s, index) ==
    IF s.hashLastUnknownBlock # NoBlock /\ Known(index, s.hashLastUnknownBlock)
    THEN [BetterKnown(s, s.hashLastUnknownBlock) EXCEPT !.hashLastUnknownBlock = NoBlock]
    ELSE s

UpdateBlockAvailability(s, index, b) ==
    LET t == ProcessBlockAvailability(s, index)
    IN  IF Known(index, b) THEN BetterKnown(t, b) ELSE [t EXCEPT !.hashLastUnknownBlock = b]

-----------------------------------------------------------------------------
(* What to download next.                                                  *)

\* The loops below go along a branch, so that height is order.
BlocksBetween(b, low, high) == {a \in Branch(b) : nHeight(a) \in (low + 1) .. high}
Lowest(blocks) == CHOOSE b \in blocks : \A c \in blocks : nHeight(b) <= nHeight(c)
Highest(blocks) == CHOOSE b \in blocks : \A c \in blocks : nHeight(c) <= nHeight(b)
FirstOf(blocks, n) == {b \in blocks : Cardinality({c \in blocks : nHeight(c) < nHeight(b)}) < n}

\* The last block that the branches of a and b share.
LastCommonAncestor(a, b) == Highest(Branch(a) \cap Branch(b))

\* nChainTx # 0: the block and all blocks before it have arrived.
Linked(b) == Branch(b) \subseteq data

\* Fault: a block that has arrived counts as linked.
LastLinked_AnyData(low, walk) ==
    LET had == walk \cap data
    IN  IF had = {} THEN low ELSE Highest(had)

\* The last linked block of the walk; the linked ones come first.
LastLinked(low, walk) ==
    LET linked == {b \in walk : Linked(b)}
    IN  IF linked = {} THEN low ELSE Highest(linked)

\* Fault: only a peer with a higher block than the tip.
Interesting_Higher(s) ==
    /\ s.pindexBestKnownBlock # NoBlock
    /\ nHeight(s.pindexBestKnownBlock) > nHeight(tip)

\* Is the peer worth asking?
Interesting(s) ==
    /\ s.pindexBestKnownBlock # NoBlock
    /\ nHeight(s.pindexBestKnownBlock) >= nHeight(tip)

\* pindexLastCommonBlock before the walk: at first a guess on the active chain.
CommonBlock(s) ==
    LET best == s.pindexBestKnownBlock
        guess == IF s.pindexLastCommonBlock # NoBlock THEN s.pindexLastCommonBlock
                 ELSE GetAncestor(tip, IF nHeight(best) < nHeight(tip) THEN nHeight(best) ELSE nHeight(tip))
    IN  LastCommonAncestor(guess, best)

\* The walk goes from there towards the peer's best block, up to one block past
\* the window.
WindowEnd(common) == nHeight(common) + BLOCK_DOWNLOAD_WINDOW
Walk(s, common) ==
    LET best == s.pindexBestKnownBlock
    IN  BlocksBetween(best, nHeight(common),
            IF nHeight(best) <= WindowEnd(common) THEN nHeight(best) ELSE WindowEnd(common) + 1)

ToDownload(d, common, walk) ==
    {b \in walk \ data : ~InFlight(d, b) /\ nHeight(b) <= WindowEnd(common)}

\* The block past the window is only looked at to find out who holds the window
\* up: the peer with the first block in flight.
NodeStaller(d, p, common, walk) ==
    LET waiting == {b \in walk \ data : InFlight(d, b)}
    IN  IF /\ ToDownload(d, common, walk) = {}
           /\ \E b \in walk \ data : ~InFlight(d, b)
           /\ waiting # {} /\ Holder(d, Lowest(waiting)) # p
        THEN Holder(d, Lowest(waiting)) ELSE NoPeer

-----------------------------------------------------------------------------
(* SendMessages: what the node sends to a peer when it is the peer's turn. *)

fFetch(d, p) == d.mapNodeState[p].fPreferredDownload \/ d.nPreferredDownload = 0

\* Headers are asked of one peer, or of all when the best header is recent.
StartSync(d, p) ==
    IF /\ ~d.mapNodeState[p].fSyncStarted
       /\ (d.nSyncStarted = 0 /\ fFetch(d, p)) \/ Recent(bestHeader)
    THEN [d EXCEPT !.mapNodeState[p] = [@ EXCEPT !.fSyncStarted = TRUE, !.nHeadersSyncTimeout = "armed"],
                   !.nSyncStarted = @ + 1]
    ELSE d

StopSync(d, p) ==
    [d EXCEPT !.mapNodeState[p] = [@ EXCEPT !.fSyncStarted = FALSE, !.nHeadersSyncTimeout = "zero"],
              !.nSyncStarted = @ - 1]

SyncRequest(d, e, p) ==
    IF d = e THEN {}
    ELSE {GetHeaders(IF bestHeader = Genesis THEN Genesis ELSE pprev(bestHeader), PeerTip[p])}

\* The headers timeout: never again once the headers are recent.
DisarmHeaders(d, p) ==
    IF d.mapNodeState[p].fSyncStarted /\ Recent(bestHeader)
    THEN WithState(d, p, [d.mapNodeState[p] EXCEPT !.nHeadersSyncTimeout = "never"])
    ELSE d

\* Blocks, unless the peer is full or others are preferred during the initial download.
MayFetch(d, p) ==
    /\ fFetch(d, p) \/ ~IsInitialBlockDownload
    /\ d.mapNodeState[p].nBlocksInFlight < MAX_BLOCKS_IN_TRANSIT_PER_PEER

MarkStaller(d, p, staller) ==
    IF staller # NoPeer /\ d.mapNodeState[p].nBlocksInFlight = 0
    THEN WithState(d, staller, [d.mapNodeState[staller] EXCEPT !.nStallingSince = TRUE])
    ELSE d

\* It is p's turn in ThreadMessageHandler.
Turn(p) ==
    /\ handler = Idle
    /\ p \in Connected \ fDisconnect
    /\ dl.mapNodeState[p].fSuccessfullyConnected

\* FindNextBlocksToDownload, and getdata for what it finds.
FindAndFetch(d, p, s, requests) ==
    \E common \in {CommonBlock(s)} : \E walk \in {Walk(s, common)} :
    \E vBlocks \in {FirstOf(ToDownload(d, common, walk), MAX_BLOCKS_IN_TRANSIT_PER_PEER - s.nBlocksInFlight)} :
        /\ dl' = MarkStaller(
                    MarkBlockAsInFlight(
                        WithState(d, p, [s EXCEPT !.pindexLastCommonBlock = LastLinked(common, walk)]),
                        p, vBlocks),
                    p, NodeStaller(d, p, common, walk))
        /\ Ask(p, requests \cup {GetData(b) : b \in vBlocks})

\* The end of the turn: the blocks.
FetchBlocks(d, p, requests) ==
    \E s \in {ProcessBlockAvailability(d.mapNodeState[p], headers)} :
        CASE ~MayFetch(d, p) -> dl' = d /\ Ask(p, requests)
          [] MayFetch(d, p) /\ ~Interesting(s) -> dl' = WithState(d, p, s) /\ Ask(p, requests)
          [] OTHER -> FindAndFetch(d, p, s, requests)

\* The turn on which no timeout fires.
SendMessages(p) ==
    /\ Turn(p)
    /\ ~dl.mapNodeState[p].fShouldBan
    /\ \E started \in {StartSync(dl, p)} : \E d \in {DisarmHeaders(started, p)} :
            FetchBlocks(d, p, SyncRequest(dl, started, p))
    /\ UNCHANGED <<chain, fDisconnect, gone, handler, unasked>>

\* SendRejectsAndCheckIfBanned.
CheckIfBanned(p) ==
    /\ Turn(p)
    /\ dl.mapNodeState[p].fShouldBan
    /\ dl' = WithState(dl, p, [dl.mapNodeState[p] EXCEPT !.fShouldBan = FALSE])
    /\ fDisconnect' = IF Whitelisted(p) THEN fDisconnect ELSE fDisconnect \cup {p}
    /\ UNCHANGED <<chain, gone, asked, handler, unasked>>

\* The turn on which a timeout fires; what comes before it in SendMessages is done.
TimesOut(p) ==
    /\ p \notin Reliable
    /\ ~dl.mapNodeState[p].fShouldBan
    /\ dl' = StartSync(dl, p)
    /\ Ask(p, SyncRequest(dl, dl', p))
    /\ fDisconnect' = fDisconnect \cup {p}
    /\ UNCHANGED <<chain, gone, handler, unasked>>

StallingTimeout(p) == Turn(p) /\ dl.mapNodeState[p].nStallingSince /\ TimesOut(p)

DownloadTimeout(p) == Turn(p) /\ dl.mapNodeState[p].vBlocksInFlight # {} /\ TimesOut(p)

\* A peer that sends no headers is dropped when there are others to sync from.
HeadersLate(p) ==
    /\ dl.mapNodeState[p].fSyncStarted
    /\ dl.mapNodeState[p].nHeadersSyncTimeout = "armed"
    /\ ~Recent(bestHeader)
    /\ dl.nSyncStarted = 1
    /\ dl.nPreferredDownload - Flag(dl.mapNodeState[p].fPreferredDownload) >= 1

HeadersTimeout(p) ==
    /\ Turn(p)
    /\ ~Whitelisted(p)
    /\ HeadersLate(p)
    /\ TimesOut(p)

\* A whitelisted peer stays, and another may be asked; the turn goes on.
HeadersTimeoutWhitelisted(p) ==
    /\ Turn(p)
    /\ Whitelisted(p)
    /\ ~dl.mapNodeState[p].fShouldBan
    /\ HeadersLate(p)
    /\ \E d \in {StopSync(dl, p)} : FetchBlocks(d, p, {})
    /\ UNCHANGED <<chain, fDisconnect, gone, handler, unasked>>

-----------------------------------------------------------------------------
(* The messages of a peer.  A message answers a request, or comes unasked. *)

\* Messages take the request they answer with them, or count as unasked.
Takes(p, request) ==
    /\ Turn(p)
    /\ \/ /\ request \in asked[p]
          /\ UNCHANGED unasked
       \/ /\ unasked < MaxUnasked
          /\ unasked' = unasked + 1

AskAnswered(p, answered, requests) ==
    asked' = [asked EXCEPT ![p] = (@ \ answered) \cup requests]

AddHeaders(new) ==
    /\ headers' = headers \cup new
    /\ bestHeader' = LET more == {b \in new : nChainWork[b] > nChainWork[bestHeader]}
                     IN  IF more = {} THEN bestHeader
                         ELSE CHOOSE b \in more : \A c \in more : nChainWork[c] <= nChainWork[b]

\* Direct fetch of the blocks that lead from the active chain to last.  The walk
\* goes down from last and gives up when too many are missing.
ToFetch(d, last) ==
    LET fork == nHeight(LastCommonAncestor(last, tip))
        miss == {b \in BlocksBetween(last, fork, nHeight(last)) \ data : ~InFlight(d, b)}
    IN  IF \/ Cardinality(miss) <= MAX_BLOCKS_IN_TRANSIT_PER_PEER
           \/ /\ Cardinality(miss) = MAX_BLOCKS_IN_TRANSIT_PER_PEER + 1
              /\ GetAncestor(last, fork + 1) \in miss
        THEN miss ELSE {}

DirectFetch(d, p, last) ==
    IF CanDirectFetch /\ nHeight(last) >= nHeight(tip)
    THEN FirstOf(ToFetch(d, last), MAX_BLOCKS_IN_TRANSIT_PER_PEER - d.mapNodeState[p].nBlocksInFlight)
    ELSE {}

\* A block that is asked for alone may be asked for as a compact block.
FetchDirectly(d, p, last, answered) ==
    LET fetch == DirectFetch(d, p, last)
    IN  /\ dl' = MarkBlockAsInFlight(d, p, fetch)
        /\ \/ AskAnswered(p, answered, {GetData(b) : b \in fetch})
           \/ /\ Cardinality(fetch) = 1 /\ DOMAIN d.mapBlocksInFlight = {}
              /\ AskAnswered(p, answered, {GetCompact(b) : b \in fetch})

\* ProcessHeadersMessage for the headers of last's branch from height low + 1 on.
ProcessHeadersMessage(p, low, last, answered) ==
    LET new == BlocksBetween(last, low, nHeight(last))
        connects == GetAncestor(last, low) \in headers
        s == UpdateBlockAvailability(dl.mapNodeState[p], headers \cup new, last)
        d == WithState(dl, p, s)
    IN  \/ /\ ~connects
           /\ dl' = WithState(dl, p, UpdateBlockAvailability(dl.mapNodeState[p], headers, last))
           /\ AskAnswered(p, answered, {GetHeaders(bestHeader, PeerTip[p])})
           /\ UNCHANGED <<headers, bestHeader>>
        \/ /\ connects
           /\ IsInitialBlockDownload /\ last \in headers
           /\ AskAnswered(p, answered, {})
           /\ UNCHANGED <<dl, headers, bestHeader>>
        \/ /\ connects
           /\ ~(IsInitialBlockDownload /\ last \in headers)
           /\ AddHeaders(new)
           /\ FetchDirectly(d, p, last, answered)

HEADERS(p) ==
    /\ \/ \E r \in asked[p] :
            LET low == nHeight(LastCommonAncestor(r.from, PeerTip[p]))
            IN  /\ r.kind = "headers"
                /\ Turn(p)
                /\ UNCHANGED unasked
                /\ IF low < nHeight(r.to)
                   THEN ProcessHeadersMessage(p, low, r.to, {r})
                   ELSE AskAnswered(p, {r}, {}) /\ UNCHANGED <<dl, headers, bestHeader>>
       \/ \E b \in Branch(PeerTip[p]) \ {Genesis} :
            /\ Turn(p)
            /\ unasked < MaxUnasked /\ unasked' = unasked + 1
            /\ ProcessHeadersMessage(p, nHeight(b) - 1, b, {})
    /\ UNCHANGED <<data, tip, fDisconnect, gone, handler>>

INV(p, b) ==
    /\ Turn(p)
    /\ unasked < MaxUnasked /\ unasked' = unasked + 1
    /\ dl' = WithState(dl, p, UpdateBlockAvailability(dl.mapNodeState[p], headers, b))
    /\ Ask(p, IF b \notin headers /\ ~InFlight(dl, b) THEN {GetHeaders(bestHeader, b)} ELSE {})
    /\ UNCHANGED <<chain, fDisconnect, gone, handler>>

\* BLOCK: the first section takes the block out of flight, whoever holds it.
BLOCK(p, b) ==
    /\ Takes(p, GetData(b))
    /\ AskAnswered(p, {GetData(b)}, {})
    /\ dl' = MarkBlockAsReceived(dl, b)
    /\ handler' = Handle("process", p, b, InFlight(dl, b))
    /\ UNCHANGED <<chain, fDisconnect, gone>>

SetPartial(d, p, b) == WithState(d, p, [d.mapNodeState[p] EXCEPT !.partialBlock = @ \cup {b}])

\* InitData: too few transactions are known, all are, or the message is of no use.
ReadStatus(p) == {"missing", "complete", "failed"} \cup (IF p \in Reliable THEN {} ELSE {"invalid"})

Punish(d, p) == WithState(d, p, [d.mapNodeState[p] EXCEPT !.fShouldBan = TRUE])

\* Fault: nothing is asked for when the short ids do not work out.
CompactRequests_Forget(status, b) == IF status = "missing" THEN {GetBlockTxn(b)} ELSE {}

CompactRequests(status, b) ==
    CASE status = "missing" -> {GetBlockTxn(b)}
      [] status = "failed" -> {GetData(b)}
      [] OTHER -> {}

\* A compact block that is downloaded from this peer.
StartCompact(d, p, b, answered) ==
    LET e == SetPartial(MarkBlockAsInFlight(d, p, {b}), p, b)
    IN  \E status \in ReadStatus(p) :
          /\ dl' = IF status = "invalid" THEN Punish(MarkBlockAsReceived(e, b), p) ELSE e
          /\ AskAnswered(p, answered, CompactRequests(status, b))
          /\ handler' = IF status = "complete" THEN Handle("fill", p, b, TRUE) ELSE Idle

\* One that is in flight from another peer, or from none while this one is full:
\* it is used if no transaction is missing.
TryReconstruct(d, p, b, answered) ==
    /\ dl' = d
    /\ AskAnswered(p, answered, {})
    /\ handler' \in {Idle, Handle("reconstructed", p, b, TRUE)}

\* May the compact block be downloaded from this peer?
TakesCompact(d, p, b) ==
    \/ ~InFlight(d, b) /\ d.mapNodeState[p].nBlocksInFlight < MAX_BLOCKS_IN_TRANSIT_PER_PEER
    \/ Holder(d, b) = p

AlreadySyncing(d, p, b) == Holder(d, b) = p /\ b \in d.mapNodeState[p].partialBlock

\* What is done with a compact block whose header is accepted.
CompactAccepted(p, b, answered) ==
    LET d == WithState(dl, p, UpdateBlockAvailability(dl.mapNodeState[p], headers \cup {b}, b))
        quit(requests) == dl' = d /\ AskAnswered(p, answered, requests) /\ handler' = Idle
        \* GetData only when the block is in flight
        again == IF InFlight(d, b) THEN {GetData(b)} ELSE {}
    IN  IF b \in data THEN quit({})
        ELSE IF nHeight(b) <= nHeight(tip) THEN quit(again)
        ELSE IF ~InFlight(d, b) /\ ~CanDirectFetch THEN quit({})
        ELSE IF nHeight(b) <= nHeight(tip) + 2
        THEN IF ~TakesCompact(d, p, b) THEN TryReconstruct(d, p, b, answered)
             ELSE IF AlreadySyncing(d, p, b) THEN quit({})
             ELSE StartCompact(d, p, b, answered)
        ELSE IF InFlight(d, b) THEN quit(again)
        ELSE FetchDirectly(d, p, b, answered) /\ handler' = Idle

CMPCTBLOCK(p, b) ==
    /\ Takes(p, GetCompact(b))
    /\ IF pprev(b) \in headers
       THEN /\ AddHeaders({b})
            /\ CompactAccepted(p, b, {GetCompact(b)})
       ELSE /\ AskAnswered(p, {GetCompact(b)},
                  IF IsInitialBlockDownload THEN {} ELSE {GetHeaders(bestHeader, PeerTip[p])})
            /\ UNCHANGED <<headers, bestHeader, dl, handler>>
    /\ UNCHANGED <<data, tip, fDisconnect, gone>>

\* BLOCKTXN: expected only while the block is in flight from this peer as a
\* compact block.
FillBlock(p, b, answered) ==
    IF ~AlreadySyncing(dl, p, b)
    THEN dl' = dl /\ AskAnswered(p, answered, {}) /\ handler' = Idle
    ELSE \E status \in ReadStatus(p) \ {"missing"} :
          /\ dl' = CASE status = "complete" -> MarkBlockAsReceived(dl, b)
                     [] status = "invalid" -> Punish(MarkBlockAsReceived(dl, b), p)
                     [] OTHER -> dl
          /\ AskAnswered(p, answered, CompactRequests(status, b))
          /\ handler' = IF status = "complete" THEN Handle("process", p, b, TRUE) ELSE Idle

BLOCKTXN(p, b) ==
    /\ Turn(p)
    /\ GetBlockTxn(b) \in asked[p]
    /\ FillBlock(p, b, {GetBlockTxn(b)})
    /\ UNCHANGED <<chain, fDisconnect, gone, unasked>>

\* The same code with no transactions, for a compact block that was complete.
BLOCKTXN_Dummy ==
    /\ handler.step = "fill"
    /\ FillBlock(handler.peer, handler.block, {})
    /\ UNCHANGED <<chain, fDisconnect, gone, unasked>>

-----------------------------------------------------------------------------
(* Validation, as far as the download sees it.                             *)

\* AcceptBlock stores a block that was not asked for only if it may be the new tip.
Accepts(b, forced) ==
    /\ pprev(b) \in headers
    /\ b \notin data
    /\ forced \/ nChainWork[b] >= nChainWork[tip]

\* ActivateBestChain: a higher block whose whole branch is there becomes the tip.
ActivateBestChain(have) ==
    LET linked == {b \in have : Branch(b) \subseteq have /\ nHeight(b) > nHeight(tip)}
    IN  IF linked = {} THEN tip' = tip
        ELSE \E b \in linked : (\A c \in linked : nHeight(c) <= nHeight(b)) /\ tip' = b

ProcessNewBlock(b, forced) ==
    IF pprev(b) \notin headers THEN UNCHANGED chain
    ELSE /\ AddHeaders({b})
         /\ data' = IF Accepts(b, forced) THEN data \cup {b} ELSE data
         /\ ActivateBestChain(data')

\* The second section of BLOCK and BLOCKTXN.
HandlerProcesses ==
    /\ handler.step \in {"process", "reconstructed"}
    /\ ProcessNewBlock(handler.block, handler.forced)
    /\ handler' = IF handler.step = "process" THEN Idle ELSE [handler EXCEPT !.step = "release"]
    /\ UNCHANGED <<dl, fDisconnect, gone, asked, unasked>>

\* A block that was reconstructed while another peer sends it is not waited for.
HandlerReleases ==
    /\ handler.step = "release"
    /\ dl' = MarkBlockAsReceived(dl, handler.block)
    /\ handler' = Idle
    /\ UNCHANGED <<chain, fDisconnect, gone, asked, unasked>>

\* A block that comes from this node itself (submitblock, generate), on another thread.
SubmitBlock(b) ==
    /\ unasked < MaxUnasked /\ unasked' = unasked + 1
    /\ b \notin data
    /\ ProcessNewBlock(b, TRUE)
    /\ UNCHANGED <<dl, fDisconnect, gone, asked, handler>>

-----------------------------------------------------------------------------
(* Connections.                                                            *)

Enter(d, p, kind) ==
    [d EXCEPT !.mapNodeState = [q \in DOMAIN @ \cup {p} |-> IF q = p THEN CNodeState(kind) ELSE @[q]]]

InitializeNode(p, kind) ==
    /\ p \notin Connected \cup gone
    /\ dl' = Enter(dl, p, kind)
    /\ UNCHANGED <<chain, fDisconnect, gone, asked, handler, unasked>>

UpdatePreferredDownload(d, p) ==
    LET s == d.mapNodeState[p]
        t == [s EXCEPT !.fPreferredDownload = s.kind # "inbound"]
    IN  [d EXCEPT !.mapNodeState[p] = t,
                  !.nPreferredDownload = @ - Flag(s.fPreferredDownload) + Flag(t.fPreferredDownload)]

\* VERSION and VERACK.
VERSION(p) ==
    /\ handler = Idle
    /\ p \in Connected \ fDisconnect
    /\ ~dl.mapNodeState[p].fSuccessfullyConnected
    /\ dl' = UpdatePreferredDownload(
                WithState(dl, p, [dl.mapNodeState[p] EXCEPT !.fSuccessfullyConnected = TRUE]), p)
    /\ UNCHANGED <<chain, fDisconnect, gone, asked, handler, unasked>>

\* The connection is closed from outside, at any time.
Closes(p) ==
    /\ p \in Connected \ (fDisconnect \cup Reliable)
    /\ fDisconnect' = fDisconnect \cup {p}
    /\ UNCHANGED <<chain, dl, gone, asked, handler, unasked>>

\* Fault: the count of peers is left as it is.
Forget_KeepCount(d, p) ==
    LET s == d.mapNodeState[p]
    IN  [d EXCEPT
            !.mapBlocksInFlight = [b \in DOMAIN @ \ s.vBlocksInFlight |-> @[b]],
            !.nPreferredDownload = @ - Flag(s.fPreferredDownload),
            !.nSyncStarted = @ - Flag(s.fSyncStarted),
            !.mapNodeState = [q \in DOMAIN @ \ {p} |-> @[q]]]

Forget(d, p) ==
    LET s == d.mapNodeState[p]
    IN  [d EXCEPT
            !.mapBlocksInFlight = [b \in DOMAIN @ \ s.vBlocksInFlight |-> @[b]],
            !.nPeersWithValidatedDownloads = @ - Flag(s.nBlocksInFlightValidHeaders # 0),
            !.nPreferredDownload = @ - Flag(s.fPreferredDownload),
            !.nSyncStarted = @ - Flag(s.fSyncStarted),
            !.mapNodeState = [q \in DOMAIN @ \ {p} |-> @[q]]]

\* The socket thread forgets the peer when the message thread has let go of it.
FinalizeNode(p) ==
    /\ p \in fDisconnect \cap Connected
    /\ handler.peer # p
    /\ dl' = Forget(dl, p)
    /\ asked' = [asked EXCEPT ![p] = {}]
    /\ gone' = gone \cup {p}
    /\ fDisconnect' = fDisconnect \ {p}
    /\ UNCHANGED <<chain, handler, unasked>>

-----------------------------------------------------------------------------

Init ==
    /\ headers = {Genesis} /\ data = {Genesis}
    /\ bestHeader = Genesis /\ tip = Genesis
    /\ dl = [mapNodeState |-> <<>>, mapBlocksInFlight |-> <<>>,
             nPeersWithValidatedDownloads |-> 0, nPreferredDownload |-> 0, nSyncStarted |-> 0]
    /\ fDisconnect = {} /\ gone = {}
    /\ asked = [p \in Peer |-> {}]
    /\ handler = Idle
    /\ unasked = 0

Message(p) ==
    \/ HEADERS(p)
    \/ \E b \in Branch(PeerTip[p]) \ {Genesis} :
          INV(p, b) \/ BLOCK(p, b) \/ CMPCTBLOCK(p, b) \/ BLOCKTXN(p, b)

HandlerGoesOn == BLOCKTXN_Dummy \/ HandlerProcesses \/ HandlerReleases

Timeout(p) ==
    StallingTimeout(p) \/ DownloadTimeout(p) \/ HeadersTimeout(p) \/ HeadersTimeoutWhitelisted(p)

Next ==
    \/ \E p \in Peer :
          \/ \E kind \in Kinds[p] : InitializeNode(p, kind)
          \/ VERSION(p) \/ Closes(p) \/ FinalizeNode(p)
          \/ SendMessages(p) \/ CheckIfBanned(p) \/ Timeout(p) \/ Message(p)
    \/ HandlerGoesOn
    \/ \E b \in Block \ {Genesis} : SubmitBlock(b)

Spec == Init /\ [][Next]_vars

\* A block that p is known to have is missing and nobody is asked for it.
Wanted(p) ==
    /\ p \in Connected
    /\ dl.mapNodeState[p].pindexBestKnownBlock # NoBlock
    /\ \E b \in Branch(dl.mapNodeState[p].pindexBestKnownBlock) : b \notin data /\ ~InFlight(dl, b)

\* The two threads keep running: a peer gets its turn, and one whose time is up is
\* dropped and forgotten.  A reliable peer answers what it is asked.
LiveSpec ==
    /\ Spec
    /\ WF_vars(HandlerGoesOn)
    /\ \A p \in Peer \ Reliable :
          WF_vars(CheckIfBanned(p)) /\ WF_vars(DownloadTimeout(p)) /\ WF_vars(FinalizeNode(p))
    /\ \A p \in Reliable : WF_vars(Wanted(p) /\ SendMessages(p))
    /\ \A p \in Reliable : \A b \in Branch(PeerTip[p]) \ {Genesis} :
          /\ WF_vars(GetData(b) \in asked[p] /\ BLOCK(p, b))
          /\ WF_vars(GetCompact(b) \in asked[p] /\ CMPCTBLOCK(p, b))
          /\ WF_vars(BLOCKTXN(p, b))

-----------------------------------------------------------------------------
(* What the bookkeeping promises.                                          *)

TypeOK ==
    /\ {bestHeader, tip} \subseteq headers /\ data \subseteq headers /\ headers \subseteq Block
    /\ Connected \subseteq Peer /\ DOMAIN dl.mapBlocksInFlight \subseteq headers
    /\ fDisconnect \subseteq Connected /\ gone \subseteq Peer \ Connected
    /\ handler.step \in {"idle", "process", "fill", "reconstructed", "release"}
    /\ unasked \in 0 .. MaxUnasked

\* The map of blocks in flight and the lists of the peers say the same, no peer is
\* over its limit, and the counters are exact, so that the assertions of
\* FinalizeNode and MarkBlockAsReceived hold whoever goes away when.
InFlightExact ==
    /\ \A p \in Connected :
          LET s == dl.mapNodeState[p]
          IN  /\ s.vBlocksInFlight = {b \in DOMAIN dl.mapBlocksInFlight : dl.mapBlocksInFlight[b] = p}
              /\ s.nBlocksInFlight = Cardinality(s.vBlocksInFlight)
              /\ s.nBlocksInFlightValidHeaders = s.nBlocksInFlight
              /\ s.nBlocksInFlight <= MAX_BLOCKS_IN_TRANSIT_PER_PEER
    /\ Range(dl.mapBlocksInFlight) \subseteq Connected
    /\ dl.nPeersWithValidatedDownloads = Cardinality({p \in Connected : dl.mapNodeState[p].vBlocksInFlight # {}})
    /\ dl.nPreferredDownload = Cardinality({p \in Connected : dl.mapNodeState[p].fPreferredDownload})
    /\ dl.nSyncStarted = Cardinality({p \in Connected : dl.mapNodeState[p].fSyncStarted})

\* Only a peer that still owes a block is held to be stalling (nStallingSince), so
\* none is dropped for a window that has moved since.
StallerOwes ==
    \A p \in Connected : dl.mapNodeState[p].nStallingSince => dl.mapNodeState[p].vBlocksInFlight # {}

\* A block in flight that is still missing is on its way: the peer has an open
\* request for it, or its answer is being handled (mapBlocksInFlight).
StillExpected ==
    \A b \in DOMAIN dl.mapBlocksInFlight :
        LET p == dl.mapBlocksInFlight[b]
        IN  \/ b \in data
            \/ {GetData(b), GetCompact(b), GetBlockTxn(b)} \cap asked[p] # {}
            \/ handler.step = "fill" /\ handler.peer = p /\ handler.block = b

\* Nothing is missing up to the block where the walk of a peer starts, so no block
\* that is needed lies below the window (pindexLastCommonBlock).
LastCommonLinked ==
    \A p \in Connected : dl.mapNodeState[p].pindexLastCommonBlock # NoBlock =>
        Linked(dl.mapNodeState[p].pindexLastCommonBlock)

\* A peer that was asked for headers and has answered is known to have blocks
\* (the comment in SendMessages at the initial getheaders).
SyncInitialises ==
    \A p \in Connected :
        /\ dl.mapNodeState[p].fSyncStarted
        /\ \A r \in asked[p] : r.kind # "headers"
        => dl.mapNodeState[p].pindexBestKnownBlock # NoBlock

\* The best block a reliable peer is known to have is downloaded in the end, or the
\* chain has grown past it, whichever peers stalled, left or failed on the way
\* (FindNextBlocksToDownload).
Downloads ==
    \A p \in Reliable : \A b \in Block :
        p \in Connected /\ dl.mapNodeState[p].pindexBestKnownBlock = b
            ~> b \in data \/ nHeight(tip) > nHeight(b)
=============================================================================
