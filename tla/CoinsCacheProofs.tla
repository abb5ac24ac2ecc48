--------------------------- MODULE CoinsCacheProofs ---------------------------
(***************************************************************************)
(* The stack of coins caches implements UtxoSet, for any outpoints and     *)
(* coins.  The inductive invariant is the type invariant together with the *)
(* meaning of the flags: without it, neither erasing a FRESH entry nor     *)
(* dropping a clean one could be matched by a step of the plain map.       *)
(*                                                                         *)
(* An action changes each outpoint by itself, so the argument is one about *)
(* a single entry e over a coin c: what the helper returns keeps the flags *)
(* right, and shows the coin it should.                                    *)
(***************************************************************************)
EXTENDS CoinsCache, TLAPS

IInv == TypeOK /\ FlagsMeanWhatTheySay

Slot == Entry \cup {NoEntry}

\* A loaded entry shows what was shown before.
LEMMA FetchedFacts ==
    ASSUME NEW e \in Slot, NEW c \in Coin \cup {Spent}, FlagsRight(e, c)
    PROVE  /\ Fetched(e, c) \in Slot /\ FlagsRight(Fetched(e, c), c)
           /\ Shown(Fetched(e, c), c) = Shown(e, c)
           /\ Found(Fetched(e, c)) = Shown(e, c)
           /\ Fetched(e, c) = NoEntry => c = Spent
BY CoinsAssumption DEF Slot, Entry, FlagsRight, Fetched, Shown, Found

\* An added coin is shown, and the flags stay right if the caller is.
LEMMA AddedFacts ==
    ASSUME NEW e \in Slot, NEW c \in Coin \cup {Spent}, FlagsRight(e, c),
           NEW coin \in Coin, NEW w \in BOOLEAN, w \/ Shown(e, c) = Spent
    PROVE  /\ Added(e, coin, w) \in Slot /\ FlagsRight(Added(e, coin, w), c)
           /\ Shown(Added(e, coin, w), c) = coin
BY CoinsAssumption DEF Slot, Entry, FlagsRight, Added, Shown

\* A spent coin is not shown any more, whether its entry is erased or kept.
LEMMA SpentEntryFacts ==
    ASSUME NEW e \in Slot, NEW c \in Coin \cup {Spent}, FlagsRight(e, c),
           e = NoEntry => c = Spent
    PROVE  /\ SpentEntry(e) \in Slot /\ FlagsRight(SpentEntry(e), c)
           /\ Shown(SpentEntry(e), c) = Spent
BY CoinsAssumption DEF Slot, Entry, FlagsRight, SpentEntry, Shown

\* After the merge the parent shows what the child showed.
LEMMA MergedFacts ==
    ASSUME NEW c \in Coin \cup {Spent}, NEW ours \in Slot, FlagsRight(ours, c),
           NEW child \in Slot, FlagsRight(child, Shown(ours, c))
    PROVE  /\ Merged(child, ours) \in Slot /\ FlagsRight(Merged(child, ours), c)
           /\ Shown(Merged(child, ours), c) = Shown(child, Shown(ours, c))
BY CoinsAssumption DEF Slot, Entry, FlagsRight, Merged, Shown

-----------------------------------------------------------------------------
\* What the invariant says of one outpoint.
LEMMA SlotFacts ==
    ASSUME IInv, NEW o \in Outpoint
    PROVE  /\ db[o] \in Coin \cup {Spent} /\ Chain[o] \in Coin \cup {Spent}
           /\ cache[o] \in Slot /\ view[o] \in Slot
           /\ Chain[o] = Shown(cache[o], db[o]) /\ Work[o] = Shown(view[o], Chain[o])
           /\ FlagsRight(cache[o], db[o]) /\ FlagsRight(view[o], Chain[o])
<1>1. db[o] \in Coin \cup {Spent} /\ cache[o] \in Slot /\ view[o] \in Slot
  BY DEF IInv, TypeOK, Slot
<1>2. Chain[o] = Shown(cache[o], db[o]) /\ Work[o] = Shown(view[o], Chain[o])
  BY DEF Chain, Work
<1>3. Shown(cache[o], db[o]) \in Coin \cup {Spent}
  BY <1>1 DEF Shown, Slot, Entry
<1> QED BY <1>1, <1>2, <1>3 DEF IInv, FlagsMeanWhatTheySay

\* An empty map shows what is below it and has no flags.
LEMMA NoneFacts ==
    /\ None \in [Outpoint -> Slot]
    /\ \A o \in Outpoint : None[o] = NoEntry
    /\ \A c : Shown(NoEntry, c) = c /\ FlagsRight(NoEntry, c)
BY DEF None, Slot, Shown, FlagsRight

\* The empty stack satisfies the invariant and maps to the empty map.
LEMMA InitIInv == Init => IInv /\ Abstract!Init
<1> SUFFICES ASSUME Init PROVE IInv /\ Abstract!Init
  OBVIOUS
<1>1. \A o \in Outpoint : Chain[o] = Spent /\ Work[o] = Spent
  BY ZenonT(60), NoneFacts DEF Init, Chain, Work
<1>2. Chain = db /\ Work = db
  BY <1>1 DEF Init, Chain, Work
<1>3. TypeOK
  BY ZenonT(60), NoneFacts DEF Init, TypeOK, Slot
<1>4. FlagsMeanWhatTheySay
  BY ZenonT(60), NoneFacts DEF Init, FlagsMeanWhatTheySay
<1> QED BY <1>2, <1>3, <1>4 DEF IInv, Abstract!Init, Init

\* It is enough to look at one outpoint at a time.
LEMMA Pointwise ==
    ASSUME db' \in [Outpoint -> Coin \cup {Spent}],
           cache' \in [Outpoint -> Slot], view' \in [Outpoint -> Slot],
           inUse' \in BOOLEAN, ~inUse' => view' = None,
           \A o \in Outpoint : /\ FlagsRight(cache'[o], db'[o])
                               /\ FlagsRight(view'[o], Shown(cache'[o], db'[o]))
    PROVE  /\ IInv'
           /\ \A o \in Outpoint : /\ Chain'[o] = Shown(cache'[o], db'[o])
                                  /\ Work'[o] = Shown(view'[o], Chain'[o])
           /\ Chain' = [o \in Outpoint |-> Chain'[o]] /\ Work' = [o \in Outpoint |-> Work'[o]]
BY DEF IInv, TypeOK, FlagsMeanWhatTheySay, Chain, Work, Slot

\* A lookup changes what is cached and nothing that is shown, and returns what
\* is shown.
LEMMA LookupStep ==
    ASSUME IInv, NEW o \in Outpoint, GetCoin(o) \/ GetCoinInView(o) \/ Uncache(o)
    PROVE  /\ IInv' /\ UNCHANGED <<db, Chain, Work>>
           /\ op' = op \/ op' = <<"get", o, Work[o]>>
<1> DEFINE c == db[o]
<1>1. db' = db /\ inUse' = inUse
  BY DEF GetCoin, GetCoinInView, Uncache
<1>2. PICK e \in Slot, v \in Slot :
         /\ cache' = [cache EXCEPT ![o] = e] /\ view' = [view EXCEPT ![o] = v]
         /\ FlagsRight(e, c) /\ Shown(e, c) = Chain[o]
         /\ FlagsRight(v, Chain[o]) /\ Shown(v, Chain[o]) = Work[o]
         /\ ~inUse => v = view[o]
         /\ op' = op \/ op' = <<"get", o, Work[o]>>
  <2>0. /\ Fetched(cache[o], c) \in Slot /\ FlagsRight(Fetched(cache[o], c), c)
        /\ Shown(Fetched(cache[o], c), c) = Chain[o]
        /\ Fetched(view[o], Chain[o]) \in Slot /\ FlagsRight(Fetched(view[o], Chain[o]), Chain[o])
        /\ Shown(Fetched(view[o], Chain[o]), Chain[o]) = Work[o]
        /\ Found(Fetched(cache[o], c)) = Chain[o] /\ Found(Fetched(view[o], Chain[o])) = Work[o]
    BY SlotFacts, FetchedFacts
  <2>1. /\ cache = [cache EXCEPT ![o] = cache[o]] /\ view = [view EXCEPT ![o] = view[o]]
    BY DEF IInv, TypeOK
  <2>2. CASE GetCoin(o)
    <3>1. cache'[o] = Fetched(cache[o], c)
      BY <2>2 DEF GetCoin, IInv, TypeOK
    <3>2. Work[o] = Chain[o]
      BY ZenonT(60), <2>2, SlotFacts, NoneFacts DEF GetCoin, IInv, TypeOK
    <3>3. op' = <<"get", o, Work[o]>>
      BY <2>0, <2>2, <3>1, <3>2 DEF GetCoin
    <3> QED BY ZenonT(60), <2>0, <2>1, <2>2, <3>3, SlotFacts DEF GetCoin
  <2>3. CASE GetCoinInView(o)
    <3>1. view'[o] = Fetched(view[o], Chain[o])
      BY <2>3 DEF GetCoinInView, IInv, TypeOK
    <3>2. op' = <<"get", o, Work[o]>>
      BY <2>0, <2>3, <3>1 DEF GetCoinInView
    <3> QED BY ZenonT(60), <2>0, <2>1, <2>3, <3>2, SlotFacts DEF GetCoinInView, CacheAfterFetch
  <2>4. CASE Uncache(o)
    <3>1. NoEntry \in Slot /\ FlagsRight(NoEntry, c) /\ Shown(NoEntry, c) = c
      BY NoneFacts DEF Slot
    <3>2. c = Chain[o]
      BY <2>4, SlotFacts DEF Uncache, FlagsRight, Shown
    <3> QED BY ZenonT(60), <2>1, <2>4, <3>1, <3>2, SlotFacts DEF Uncache
  <2> QED BY <2>2, <2>3, <2>4
<1> HIDE DEF c
<1>3. /\ db' \in [Outpoint -> Coin \cup {Spent}]
      /\ cache' \in [Outpoint -> Slot] /\ view' \in [Outpoint -> Slot]
      /\ inUse' \in BOOLEAN /\ (~inUse' => view' = None)
  BY <1>1, <1>2 DEF IInv, TypeOK, Slot
<1>4. \A p \in Outpoint : /\ FlagsRight(cache'[p], db[p]) /\ Shown(cache'[p], db[p]) = Chain[p]
                          /\ FlagsRight(view'[p], Chain[p]) /\ Shown(view'[p], Chain[p]) = Work[p]
  BY <1>2, SlotFacts DEF c, IInv, TypeOK
<1>5. IInv' /\ \A p \in Outpoint : Chain'[p] = Chain[p] /\ Work'[p] = Work[p]
  BY <1>1, <1>3, <1>4, Pointwise
<1> QED BY <1>1, <1>2, <1>5 DEF Chain, Work

\* AddCoin and SpendCoin change the coin that the view on top shows.
LEMMA ModifyStep ==
    ASSUME IInv, NEW o \in Outpoint, NEW coin \in Coin \cup {Spent},
           NEW e \in Slot, NEW v \in Slot, inUse,
           cache' = [cache EXCEPT ![o] = e], view' = [view EXCEPT ![o] = v],
           FlagsRight(e, db[o]), Shown(e, db[o]) = Chain[o],
           FlagsRight(v, Chain[o]), Shown(v, Chain[o]) = coin,
           UNCHANGED <<db, inUse>>
    PROVE  IInv' /\ UNCHANGED <<db, Chain>> /\ Work' = [Work EXCEPT ![o] = coin]
<1>1. /\ db' \in [Outpoint -> Coin \cup {Spent}]
      /\ cache' \in [Outpoint -> Slot] /\ view' \in [Outpoint -> Slot]
      /\ inUse' \in BOOLEAN /\ (~inUse' => view' = None)
  BY DEF IInv, TypeOK, Slot
<1>2. \A p \in Outpoint :
         /\ FlagsRight(cache'[p], db[p]) /\ Shown(cache'[p], db[p]) = Chain[p]
         /\ FlagsRight(view'[p], Chain[p])
         /\ Shown(view'[p], Chain[p]) = IF p = o THEN coin ELSE Work[p]
  BY SlotFacts DEF IInv, TypeOK
<1>3. /\ IInv'
      /\ \A p \in Outpoint : Chain'[p] = Chain[p] /\ Work'[p] = IF p = o THEN coin ELSE Work[p]
  BY <1>1, <1>2, Pointwise
<1> QED BY ZenonT(60), <1>3 DEF Chain, Work

\* AddCoin implements the abstract one.
LEMMA AddCoinStep ==
    ASSUME IInv, NEW o \in Outpoint, NEW coin \in Coin, NEW w \in BOOLEAN, AddCoin(o, coin, w)
    PROVE  IInv' /\ Abstract!AddCoin(o, coin, w)
<1>1. cache' = [cache EXCEPT ![o] = cache[o]]
  BY DEF AddCoin, IInv, TypeOK
<1>2. /\ Added(view[o], coin, w) \in Slot /\ FlagsRight(Added(view[o], coin, w), Chain[o])
      /\ Shown(Added(view[o], coin, w), Chain[o]) = coin
  BY SlotFacts, AddedFacts DEF AddCoin
<1>3. IInv' /\ UNCHANGED <<db, Chain>> /\ Work' = [Work EXCEPT ![o] = coin]
  BY ZenonT(60), <1>1, <1>2, SlotFacts, ModifyStep DEF AddCoin
<1> QED BY <1>3 DEF AddCoin, Abstract!AddCoin

\* SpendCoin implements the abstract one.
LEMMA SpendCoinStep ==
    ASSUME IInv, NEW o \in Outpoint, SpendCoin(o)
    PROVE  IInv' /\ Abstract!SpendCoin(o)
<1> DEFINE e == IF view[o] = NoEntry THEN Fetched(cache[o], db[o]) ELSE cache[o]
           f == Fetched(view[o], Chain[o])
<1>1. cache' = [cache EXCEPT ![o] = e] /\ view' = [view EXCEPT ![o] = SpentEntry(f)]
  BY ZenonT(60) DEF SpendCoin, CacheAfterFetch, IInv, TypeOK
<1>2. e \in Slot /\ FlagsRight(e, db[o]) /\ Shown(e, db[o]) = Chain[o]
  BY SlotFacts, FetchedFacts
<1>3. /\ f \in Slot /\ FlagsRight(f, Chain[o]) /\ (f = NoEntry => Chain[o] = Spent)
      /\ Found(f) = Work[o]
  BY SlotFacts, FetchedFacts
<1>0. op' = <<"spend", o, Work[o]>>
  BY <1>3 DEF SpendCoin
<1> HIDE DEF e, f
<1>4. /\ SpentEntry(f) \in Slot /\ FlagsRight(SpentEntry(f), Chain[o])
      /\ Shown(SpentEntry(f), Chain[o]) = Spent
  BY <1>3, SlotFacts, SpentEntryFacts
<1>5. IInv' /\ UNCHANGED <<db, Chain>> /\ Work' = [Work EXCEPT ![o] = Spent]
  BY ZenonT(60), <1>1, <1>2, <1>4, ModifyStep DEF SpendCoin
<1> QED BY <1>0, <1>5 DEF Abstract!SpendCoin

\* The steps on whole views: the flush of the view commits, its destruction
\* drops, and the flush of pcoinsTip reaches the disk.
LEMMA ViewStep ==
    ASSUME IInv, OpenView \/ FlushView \/ DropView \/ Flush
    PROVE  IInv' /\ (Abstract!Commit \/ Abstract!Drop \/ Abstract!Sync \/ UNCHANGED <<db, Chain, Work, op>>)
<1>0. /\ db \in [Outpoint -> Coin \cup {Spent}] /\ cache \in [Outpoint -> Slot]
      /\ view \in [Outpoint -> Slot]
  BY DEF IInv, TypeOK, Slot
<1>1. CASE OpenView \/ DropView
  <2>0. /\ OpenView => op' = op /\ ~inUse
        /\ DropView => op' = <<"drop">>
    BY DEF OpenView, DropView
  <2>1. /\ db' = db /\ cache' = cache /\ view' = None /\ inUse' \in BOOLEAN
    BY ZenonT(60), <1>1 DEF OpenView, DropView
  <2>2. \A o \in Outpoint : /\ FlagsRight(cache'[o], db'[o])
                            /\ FlagsRight(view'[o], Shown(cache'[o], db'[o]))
                            /\ Shown(cache'[o], db'[o]) = Chain[o] /\ Shown(view'[o], Chain[o]) = Chain[o]
    BY <2>1, SlotFacts, NoneFacts
  <2>3. IInv' /\ \A o \in Outpoint : Chain'[o] = Chain[o] /\ Work'[o] = Chain[o]
    BY <1>0, <2>1, <2>2, NoneFacts, Pointwise
  <2>4. UNCHANGED <<db, Chain>> /\ Work' = Chain
    BY <2>1, <2>3 DEF Chain, Work
  <2>5. ~inUse => Work = Chain
    <3> SUFFICES ASSUME ~inUse, NEW o \in Outpoint PROVE Work[o] = Chain[o]
      BY DEF Work, Chain
    <3> QED BY SlotFacts, NoneFacts DEF IInv, TypeOK
  <2> QED BY <1>1, <2>0, <2>3, <2>4, <2>5 DEF Abstract!Drop
<1>2. CASE FlushView
  <2>1. /\ db' = db /\ cache' = [o \in Outpoint |-> Merged(view[o], cache[o])]
        /\ view' = None /\ inUse' = FALSE
    BY <1>2 DEF FlushView
  <2>2. ASSUME NEW o \in Outpoint
        PROVE  /\ Merged(view[o], cache[o]) \in Slot /\ FlagsRight(Merged(view[o], cache[o]), db[o])
               /\ Shown(Merged(view[o], cache[o]), db[o]) = Work[o]
    <3>1. /\ db[o] \in Coin \cup {Spent} /\ cache[o] \in Slot /\ FlagsRight(cache[o], db[o])
          /\ view[o] \in Slot /\ FlagsRight(view[o], Shown(cache[o], db[o]))
          /\ Work[o] = Shown(view[o], Shown(cache[o], db[o]))
      BY SlotFacts
    <3> QED BY <3>1, MergedFacts
  <2>3. \A o \in Outpoint : /\ FlagsRight(cache'[o], db'[o]) /\ Shown(cache'[o], db'[o]) = Work[o]
                            /\ FlagsRight(view'[o], Shown(cache'[o], db'[o]))
                            /\ Shown(view'[o], Work[o]) = Work[o]
    BY <2>1, <2>2, NoneFacts
  <2>4. cache' \in [Outpoint -> Slot]
    BY <2>1, <2>2
  <2>5. IInv' /\ \A o \in Outpoint : Chain'[o] = Work[o] /\ Work'[o] = Work[o]
    <3>1. view' \in [Outpoint -> Slot] /\ inUse' \in BOOLEAN /\ (~inUse' => view' = None)
      BY ZenonT(60), <2>1, NoneFacts
    <3>2. db' \in [Outpoint -> Coin \cup {Spent}] /\ cache' \in [Outpoint -> Slot]
      BY <1>0, <2>1, <2>3, <2>4, NoneFacts
    <3> QED BY <2>3, <2>4, <3>1, <3>2, Pointwise
  <2>6. UNCHANGED <<db, Work>> /\ Chain' = Work
    BY <2>1, <2>5 DEF Chain, Work
  <2> QED BY <1>2, <2>5, <2>6 DEF FlushView, Abstract!Commit
<1>3. CASE Flush
  <2>1. /\ db' = [o \in Outpoint |-> IF cache[o] # NoEntry /\ "DIRTY" \in cache[o].flags
                                      THEN cache[o].coin ELSE db[o]]
        /\ cache' = None /\ view' = view /\ view = None /\ inUse' = FALSE
    BY <1>3 DEF Flush, IInv, TypeOK
  <2>2. \A o \in Outpoint : db'[o] = Chain[o] /\ Chain[o] \in Coin \cup {Spent}
    BY <2>1, SlotFacts DEF FlagsRight, Shown
  <2>3. db' \in [Outpoint -> Coin \cup {Spent}]
    BY <2>1, <2>2
  <2>4. \A o \in Outpoint : /\ FlagsRight(cache'[o], db'[o]) /\ Shown(cache'[o], db'[o]) = Chain[o]
                            /\ FlagsRight(view'[o], Shown(cache'[o], db'[o]))
                            /\ Shown(view'[o], Chain[o]) = Work[o]
    BY <2>1, <2>2, SlotFacts, NoneFacts
  <2>5. IInv' /\ \A o \in Outpoint : Chain'[o] = Chain[o] /\ Work'[o] = Work[o]
    <3>1. view' \in [Outpoint -> Slot] /\ inUse' \in BOOLEAN /\ (~inUse' => view' = None)
      BY ZenonT(60), <2>1, NoneFacts
    <3>2. db' \in [Outpoint -> Coin \cup {Spent}] /\ cache' \in [Outpoint -> Slot]
      BY <1>0, <2>1, <2>3, <2>4, NoneFacts
    <3> QED BY <2>3, <2>4, <3>1, <3>2, Pointwise
  <2>6. db' = Chain
    BY <2>1, <2>2 DEF Chain
  <2>7. UNCHANGED <<Chain, Work>>
    BY <2>5 DEF Chain, Work
  <2> QED BY <1>3, <2>5, <2>6, <2>7 DEF Flush, Abstract!Sync
<1> QED BY <1>1, <1>2, <1>3

-----------------------------------------------------------------------------
\* Every step keeps the invariant and is a step of the plain map, or none.
LEMMA NextStep == IInv /\ [Next]_vars => IInv' /\ [Abstract!Next]_(Abstract!vars)
<1> SUFFICES ASSUME IInv, [Next]_vars PROVE IInv' /\ [Abstract!Next]_(Abstract!vars)
  OBVIOUS
<1>1. CASE UNCHANGED vars
  BY <1>1 DEF vars, IInv, TypeOK, FlagsMeanWhatTheySay, Chain, Work, Abstract!vars
<1>2. CASE \E o \in Outpoint : GetCoin(o) \/ GetCoinInView(o) \/ Uncache(o)
  BY <1>2, LookupStep DEF Abstract!vars, Abstract!Next, Abstract!GetCoin
<1>3. CASE \E o \in Outpoint : SpendCoin(o) \/ \E c \in Coin, w \in BOOLEAN : AddCoin(o, c, w)
  BY <1>3, SpendCoinStep, AddCoinStep DEF Abstract!Next
<1>4. CASE OpenView \/ FlushView \/ DropView \/ Flush
  BY <1>4, ViewStep DEF Abstract!Next, Abstract!vars
<1> QED BY <1>1, <1>2, <1>3, <1>4 DEF Next

\* IInv holds in every reachable state of the stack of caches.
THEOREM InvariantHolds == Spec => []IInv
<1> QED BY InitIInv, NextStep, PTL DEF Spec

\* Every map and every entry keeps its type.
THEOREM TypeCorrect == Spec => []TypeOK
<1>1. IInv => TypeOK
  BY DEF IInv
<1> QED BY <1>1, InvariantHolds, PTL

\* DIRTY and FRESH mean what coins.h says, in pcoinsTip and in the view on
\* top of it, for any outpoints and coins.
THEOREM FlagsAreRight == Spec => []FlagsMeanWhatTheySay
<1>1. IInv => FlagsMeanWhatTheySay
  BY DEF IInv
<1> QED BY <1>1, InvariantHolds, PTL

\* BatchWrite never throws "FRESH flag misapplied".
THEOREM BatchWriteNeverThrows == Spec => []NeverThrows
<1>1. ASSUME IInv PROVE NeverThrows
  <2> SUFFICES ASSUME NEW o \in Outpoint, view[o] # NoEntry, {"DIRTY", "FRESH"} \subseteq view[o].flags,
                      cache[o] # NoEntry, cache[o].coin # Spent
               PROVE  FALSE
    BY ZenonT(60) DEF NeverThrows
  <2>1. Chain[o] = Spent
    BY <1>1, SlotFacts DEF FlagsRight
  <2> QED BY <1>1, <2>1, SlotFacts DEF Shown
<1> QED BY <1>1, InvariantHolds, PTL

\* The caches of coins.cpp implement a plain map of coins with a working copy.
THEOREM CachesImplementMap == Spec => Refines
<1>1. Init => Abstract!Init
  BY InitIInv
<1>2. IInv /\ [Next]_vars => [Abstract!Next]_(Abstract!vars)
  BY NextStep
<1> QED BY <1>1, <1>2, InvariantHolds, PTL DEF Spec, Refines, Abstract!Spec
=============================================================================
