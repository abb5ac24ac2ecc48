-------------------------- MODULE CheckQueueProofs --------------------------
(***************************************************************************)
(* The safety of the check queue for any number of workers, masters and    *)
(* checks.  IInv is inductive.  Its core is Results: the result collected  *)
(* so far, together with what is still queued or in a batch, determines    *)
(* the result of the block; Placement and Counters make nTodo = 0 mean     *)
(* that nothing is outstanding.                                            *)
(*                                                                         *)
(* Enter, CleanUp and WakeUp all end in LoopBody.  Mid describes the state *)
(* a thread t hands to LoopBody, with t's own batch accounted for, and     *)
(* LoopBodyPreserves is proved once from it.                               *)
(***************************************************************************)
EXTENDS CheckQueue, FiniteSetTheorems, TLAPS

USE CheckQueueAssumption DEF Thread

\* What is pending apart from t's batch.
Rest(t) == {c \in Check : c \in queue \/ \E u \in Thread \ {t} : c \in batch[u]}

OtherIdle(t) == {u \in Thread \ {t} : pc[u] \in {"wait", "woken"}}

Mid(t, todo, ok, total, idle, p) ==
    /\ pc[t] \in {"lock", "woken"} /\ left[t] = {}
    /\ ok \in BOOLEAN /\ total \in Nat /\ idle \in Nat /\ todo \in Nat
    /\ total >= nTotal /\ (t \in Master => total >= 1)
    /\ todo = Cardinality(Rest(t))
    /\ idle >= Cardinality(OtherIdle(t))
    /\ p \in [Thread -> {"out", "add", "lock", "wait", "woken", "run", "done", "dead"}]
    /\ \A u \in Thread : p[u] = pc[u] \/ (u \in Master /\ pc[u] = "wait" /\ p[u] = "woken")
    /\ \A m \in Master \ {t} : p[m] = "wait" => todo # 0
    /\ AtRest => ok /\ Rest(t) = {}
    /\ ~AtRest =>
          /\ added \subseteq Good <=>
                /\ ok
                /\ queue \subseteq Good
                /\ \A u \in Thread \ {t} : batch[u] # {} => fOk[u] /\ left[u] \subseteq Good
          /\ (ok /\ \A u \in Thread \ {t} : batch[u] # {} => fOk[u]) =>
                \A c \in added : c \in ran \/ c \in queue \/ \E u \in Thread \ {t} : c \in left[u]

\* Sets of checks are finite.
LEMMA CheckFinite == \A S \in SUBSET Check : IsFiniteSet(S) /\ Cardinality(S) \in Nat
  <1> SUFFICES ASSUME NEW S \in SUBSET Check PROVE IsFiniteSet(S) /\ Cardinality(S) \in Nat
    OBVIOUS
  <1> QED BY FS_Subset, FS_CardinalityType

\* Sets of threads are finite.
LEMMA ThreadFinite == \A S \in SUBSET Thread : IsFiniteSet(S) /\ Cardinality(S) \in Nat
  <1> SUFFICES ASSUME NEW S \in SUBSET Thread PROVE IsFiniteSet(S) /\ Cardinality(S) \in Nat
    OBVIOUS
  <1> QED BY FS_Subset, FS_CardinalityType

\* The constructed queue, with no thread inside, satisfies IInv.
LEMMA InitIInv == Init => IInv
  <1> SUFFICES ASSUME Init PROVE IInv
    OBVIOUS
  <1> USE DEF Init
  <1>1. TypeOK
    BY ZenonT(60) DEF TypeOK
  <1>2. Pending = {} /\ Idle = {}
    BY DEF Pending, Idle
  <1>3. Counters
    BY <1>2, FS_EmptySet DEF Counters
  <1> QED
    BY <1>1, <1>2, <1>3 DEF IInv, Placement, Places, Results, AtRest, VerdictExact, TrueVerdictRanAll

\* The three ways out of LoopBody preserve the invariant.
LEMMA LoopBodyPreserves ==
    ASSUME IInv, NEW t \in Thread, NEW todo, NEW ok, NEW total, NEW idle, NEW p,
           Mid(t, todo, ok, total, idle, p),
           LoopBody(t, todo, ok, total, idle, p)
    PROVE  IInv'
  <1> USE DEF IInv, Mid
  <1>a. /\ control' = control /\ intr' = intr /\ stopping' = stopping
        /\ added' = added /\ ran' = ran /\ nTodo' = todo
    BY DEF LoopBody, history
  <1>b. /\ \A u \in Thread \ {t} : pc[u] = "done" <=> p[u] = "done"
        /\ \A u \in Thread \ {t} : pc[u] = "out" <=> p[u] = "out"
    OBVIOUS
  <1>c. /\ Rest(t) \in SUBSET Check /\ IsFiniteSet(Rest(t))
        /\ OtherIdle(t) \in SUBSET Thread /\ IsFiniteSet(OtherIdle(t))
        /\ Cardinality(OtherIdle(t)) \in Nat
    BY CheckFinite, ThreadFinite DEF Rest, OtherIdle
  <1>d. t \in Master => control = t /\ ~AtRest
    BY DEF AtRest, Places, TypeOK
  <1>1. CASE Return(t, todo, ok, total, idle, p)
    <2> USE <1>1 DEF Return
    <2>1. Rest(t) = {} /\ \A u \in Thread \ {t} : batch[u] = {}
      <3>1. Cardinality(Rest(t)) = 0
        OBVIOUS
      <3>2. Rest(t) = {}
        BY <1>c, <3>1, FS_EmptySet
      <3> QED BY <3>2 DEF Rest, TypeOK
    <2>2. /\ batch' \in [Thread -> SUBSET Check] /\ \A u \in Thread : batch'[u] = {}
          /\ queue' = {} /\ left' = left /\ fOk' = fOk
      BY <2>1 DEF TypeOK
    <2>3. /\ pc' \in [Thread -> {"out", "add", "lock", "wait", "woken", "run", "done", "dead"}]
          /\ pc'[t] = "done" /\ \A u \in Thread \ {t} : pc'[u] = p[u]
      OBVIOUS
    <2>4. TypeOK'
      BY <1>a, <2>2, <2>3 DEF TypeOK
    <2>5. Pending' = {}
      BY <2>2 DEF Pending
    <2>6. \A u \in Thread : left[u] = {}
      BY <2>1 DEF Placement
    <2>7. Placement'
      BY <1>a, <2>2, <2>5, <2>6 DEF Placement
    <2>8. control = t /\ \A m \in Master \ {t} : pc[m] = "out" /\ pc'[m] = "out"
      BY <1>d, <1>b, <2>3 DEF Places
    <2>9. Counters'
      <3>1. Idle' = OtherIdle(t)
        BY <2>3 DEF Idle, OtherIdle
      <3>2. nIdle' >= Cardinality(Idle')
        BY <3>1
      <3>3. nTodo' = Cardinality(Pending')
        BY <1>a, <2>5, FS_EmptySet
      <3> QED BY <3>2, <3>3, <2>2, <2>3, <2>8 DEF Counters
    <2>10. Places'
      <3>1. \A u \in Thread : pc'[u] # "run"
        BY <2>1, <2>3 DEF Places
      <3>2. \A w \in Worker : pc'[w] \in {"lock", "wait", "woken", "run", "dead"}
        BY <2>3 DEF Places
      <3> QED BY <1>a, <3>1, <3>2, <2>2, <2>3, <2>6, <2>8 DEF Places
    <2>11. AtRest' /\ Results'
      BY <1>a, <2>3, <2>5, <2>8 DEF AtRest, Results
    <2>12. VerdictExact' /\ TrueVerdictRanAll'
      <3>1. ok <=> added \subseteq Good
        BY <1>d, <2>1
      <3>2. ok => added \subseteq ran
        BY <1>d, <2>1, <2>6
      <3>3. \A m \in Master : pc'[m] = "done" => m = t
        BY <2>8
      <3> QED BY <1>a, <3>1, <3>2, <3>3 DEF VerdictExact, TrueVerdictRanAll
    <2> QED BY <1>a, <2>4, <2>7, <2>9, <2>10, <2>11, <2>12
  <1>2. CASE Sleep(t, todo, ok, total, idle, p)
    <2> USE <1>2 DEF Sleep
    <2>1. /\ batch' \in [Thread -> SUBSET Check] /\ batch'[t] = {}
          /\ \A u \in Thread \ {t} : batch'[u] = batch[u]
          /\ queue' = {} /\ queue = {} /\ left' = left /\ fOk' = fOk /\ verdict' = verdict
      BY DEF TypeOK
    <2>2. /\ pc' \in [Thread -> {"out", "add", "lock", "wait", "woken", "run", "done", "dead"}]
          /\ pc'[t] = "wait" /\ \A u \in Thread \ {t} : pc'[u] = p[u]
      OBVIOUS
    <2>3. TypeOK'
      BY <1>a, <2>1, <2>2 DEF TypeOK
    <2>4. Pending' = Rest(t)
      BY ZenonT(60), <2>1 DEF Pending, Rest
    <2>5. Placement'
      BY <1>a, <2>1, <2>4 DEF Placement, Rest, Pending
    <2>6. Counters'
      <3>1. Idle' = OtherIdle(t) \cup {t} /\ t \notin OtherIdle(t)
        BY <2>2 DEF Idle, OtherIdle
      <3>2. Cardinality(Idle') = Cardinality(OtherIdle(t)) + 1
        BY ZenonT(60), <3>1, <1>c, FS_AddElement
      <3>3. \A m \in Master :
              pc'[m] \in {"wait", "woken", "run"} \/ batch'[m] # {} => nTotal' >= 1
        BY <2>1, <2>2 DEF Counters, TypeOK
      <3> QED BY <1>a, <3>2, <3>3, <1>c, <2>4 DEF Counters
    <2>7. Places'
      <3>1. \A u \in Thread :
              /\ pc'[u] = "run" => batch'[u] # {}
              /\ batch'[u] # {} => pc'[u] \in {"run", "lock"}
              /\ pc'[u] = "lock" => left'[u] = {}
        BY <2>1, <2>2 DEF Places
      <3>2. \A w \in Worker : pc'[w] \in {"lock", "wait", "woken", "run", "dead"}
        BY <2>2 DEF Places
      <3>3. \A m \in Master : pc'[m] # "dead" /\ (pc'[m] = "out" <=> control' # m)
        BY <1>a, <1>b, <2>2 DEF Places
      <3>4. \A m \in Master : pc'[m] = "wait" => nTodo' # 0 /\ queue' = {}
        BY <1>a, <2>1, <2>2
      <3> QED BY ZenonT(60), <3>1, <3>2, <3>3, <3>4 DEF Places
    <2>8. AtRest' <=> AtRest
      BY <1>a, <1>b, <1>d, <2>2 DEF AtRest, Places, TypeOK
    <2>9. Results'
      <3>1. AtRest' => Pending' = {} /\ fAllOk'
        BY <2>4, <2>8
      <3>2. ASSUME ~AtRest' PROVE
              /\ added' \subseteq Good <=>
                    /\ fAllOk'
                    /\ queue' \subseteq Good
                    /\ \A u \in Thread : batch'[u] # {} => fOk'[u] /\ left'[u] \subseteq Good
              /\ (fAllOk' /\ \A u \in Thread : batch'[u] # {} => fOk'[u]) =>
                    \A c \in added' : c \in ran' \/ c \in queue' \/ \E u \in Thread : c \in left'[u]
        BY <1>a, <2>1, <2>8, <3>2
      <3> QED BY <3>1, <3>2 DEF Results
    <2>10. VerdictExact' /\ TrueVerdictRanAll'
      BY <1>a, <1>b, <2>1, <2>2 DEF VerdictExact, TrueVerdictRanAll
    <2> QED BY <1>a, <2>3, <2>5, <2>6, <2>7, <2>9, <2>10
  <1>3. CASE Take(t, ok, total, idle, p)
    <2>1. PICK B \in SUBSET queue :
            /\ Cardinality(B) = nNow(total, idle)
            /\ queue' = queue \ B
            /\ batch' = [batch EXCEPT ![t] = B]
            /\ left' = [left EXCEPT ![t] = B]
      BY ZenonT(60), <1>3 DEF Take
    <2> USE <1>3 DEF Take
    <2>2. B # {}
      <3>1. nNow(total, idle) # 0
        BY CheckFinite DEF nNow, MaxOf, MinOf, TypeOK
      <3> QED BY ZenonT(60), <2>1, <3>1, FS_EmptySet
    <2>3. /\ batch' \in [Thread -> SUBSET Check] /\ batch'[t] = B
          /\ left' \in [Thread -> SUBSET Check] /\ left'[t] = B
          /\ fOk' \in [Thread -> BOOLEAN] /\ fOk'[t] = ok
          /\ \A u \in Thread \ {t} :
                batch'[u] = batch[u] /\ left'[u] = left[u] /\ fOk'[u] = fOk[u]
          /\ queue' = queue \ B /\ queue \subseteq Check /\ verdict' = verdict
      BY <2>1 DEF TypeOK
    <2>4. /\ pc' \in [Thread -> {"out", "add", "lock", "wait", "woken", "run", "done", "dead"}]
          /\ pc'[t] = "run" /\ \A u \in Thread \ {t} : pc'[u] = p[u]
      OBVIOUS
    <2>5. TypeOK'
      BY ZenonT(60), <1>a, <2>3, <2>4 DEF TypeOK
    <2>6. Pending' = Rest(t)
      BY <2>3 DEF Pending, Rest
    <2>7. Placement'
      <3>1. Pending' \subseteq added'
        BY <1>a, <2>6 DEF Placement, Rest, Pending
      <3>2. \A u \in Thread : batch'[u] \cap queue' = {} /\ left'[u] \subseteq batch'[u]
        BY ZenonT(60), <2>3 DEF Placement
      <3>3. \A u, v \in Thread : u # v => batch'[u] \cap batch'[v] = {}
        BY ZenonT(60), <2>3 DEF Placement
      <3> QED BY ZenonT(60), <3>1, <3>2, <3>3 DEF Placement
    <2>8. Counters'
      <3>1. Idle' = OtherIdle(t)
        <4>1. \A u \in Thread \ {t} : pc'[u] \in {"wait", "woken"} <=> pc[u] \in {"wait", "woken"}
          BY <2>4
        <4> QED BY ZenonT(60), <4>1, <2>4 DEF Idle, OtherIdle
      <3>2. \A m \in Master :
              pc'[m] \in {"wait", "woken", "run"} \/ batch'[m] # {} => nTotal' >= 1
        BY <2>3, <2>4 DEF Counters, TypeOK
      <3> QED BY <1>a, <3>1, <3>2, <1>c, <2>6 DEF Counters
    <2>9. Places'
      <3>1. \A u \in Thread :
              /\ pc'[u] = "run" => batch'[u] # {}
              /\ batch'[u] # {} => pc'[u] \in {"run", "lock"}
              /\ pc'[u] = "lock" => left'[u] = {}
        BY <2>2, <2>3, <2>4 DEF Places
      <3>2. \A w \in Worker : pc'[w] \in {"lock", "wait", "woken", "run", "dead"}
        BY <2>4 DEF Places
      <3>3. \A m \in Master : pc'[m] # "dead" /\ (pc'[m] = "out" <=> control' # m)
        BY <1>a, <1>b, <2>4 DEF Places
      <3>4. \A m \in Master : pc'[m] # "wait"
        <4>1. ASSUME NEW m \in Master, pc'[m] = "wait" PROVE FALSE
          <5>1. m # t /\ pc[m] = "wait"
            BY <4>1, <2>4
          <5> QED BY <5>1 DEF Places
        <4> QED BY <4>1
      <3> QED BY ZenonT(60), <3>1, <3>2, <3>3, <3>4 DEF Places
    <2>10. AtRest' <=> AtRest
      BY ZenonT(60), <1>a, <1>b, <1>d, <2>4 DEF AtRest, Places, TypeOK
    <2>11. ~AtRest
      BY ZenonT(60), <2>2, <2>3 DEF Rest
    <2>12. Results'
      <3>1. added' \subseteq Good <=>
                    /\ fAllOk'
                    /\ queue' \subseteq Good
                    /\ \A u \in Thread : batch'[u] # {} => fOk'[u] /\ left'[u] \subseteq Good
        <4>1. queue \subseteq Good <=> queue' \subseteq Good /\ B \subseteq Good
          BY ZenonT(60), <2>3
        <4> QED BY ZenonT(60), <1>a, <2>2, <2>3, <2>11, <4>1
      <3>2. ASSUME fAllOk', \A u \in Thread : batch'[u] # {} => fOk'[u], NEW c \in added'
            PROVE  c \in ran' \/ c \in queue' \/ \E u \in Thread : c \in left'[u]
        <4>1. c \in ran \/ c \in queue \/ \E u \in Thread \ {t} : c \in left[u]
          BY ZenonT(60), <1>a, <2>3, <2>11, <3>2
        <4> QED BY ZenonT(60), <1>a, <2>3, <4>1
      <3> QED BY ZenonT(60), <2>10, <2>11, <3>1, <3>2 DEF Results
    <2>13. VerdictExact' /\ TrueVerdictRanAll'
      BY <1>a, <1>b, <2>3, <2>4 DEF VerdictExact, TrueVerdictRanAll
    <2> QED BY <1>a, <2>5, <2>7, <2>8, <2>9, <2>12, <2>13
  <1> QED BY <1>1, <1>2, <1>3 DEF LoopBody

\* A thread that enters Loop preserves IInv.
LEMMA EnterPreserves == ASSUME IInv, NEW t \in Thread, Enter(t) PROVE IInv'
  <1> USE DEF IInv
  <1>1. LoopBody(t, nTodo, fAllOk, nTotal + 1, nIdle, pc)
    BY DEF Enter
  <1>2. batch[t] = {} /\ pc[t] = "lock" /\ left[t] = {}
    BY DEF Enter, Places
  <1>3. Pending = Rest(t)
    BY <1>2 DEF Pending, Rest
  <1>4. Idle = OtherIdle(t)
    BY <1>2 DEF Idle, OtherIdle
  <1>5. Mid(t, nTodo, fAllOk, nTotal + 1, nIdle, pc)
    <2>1. AtRest => fAllOk /\ Rest(t) = {}
      BY ZenonT(60), <1>3 DEF Results
    <2>2. ~AtRest =>
          /\ added \subseteq Good <=>
                /\ fAllOk
                /\ queue \subseteq Good
                /\ \A u \in Thread \ {t} : batch[u] # {} => fOk[u] /\ left[u] \subseteq Good
          /\ (fAllOk /\ \A u \in Thread \ {t} : batch[u] # {} => fOk[u]) =>
                \A c \in added : c \in ran \/ c \in queue \/ \E u \in Thread \ {t} : c \in left[u]
      BY <1>2 DEF Results
    <2> QED BY <1>2, <1>3, <1>4, <2>1, <2>2 DEF Mid, TypeOK, Counters, Places
  <1> QED BY <1>1, <1>5, LoopBodyPreserves

\* The top of the loop, on taking the mutex, preserves IInv.
LEMMA WakeUpPreserves == ASSUME IInv, NEW t \in Thread, WakeUp(t) PROVE IInv'
  <1> USE DEF IInv
  <1>1. LoopBody(t, nTodo, fAllOk, nTotal, nIdle - 1, pc)
    BY DEF WakeUp
  <1>2. batch[t] = {} /\ pc[t] = "woken" /\ left[t] = {}
    BY DEF WakeUp, Places, Placement
  <1>3. Pending = Rest(t)
    BY <1>2 DEF Pending, Rest
  <1>4. nIdle - 1 \in Nat /\ nIdle - 1 >= Cardinality(OtherIdle(t))
    <2>1. Idle = OtherIdle(t) \cup {t} /\ t \notin OtherIdle(t) /\ OtherIdle(t) \in SUBSET Thread
      BY <1>2 DEF Idle, OtherIdle
    <2>2. Cardinality(Idle) = Cardinality(OtherIdle(t)) + 1
      BY <2>1, ThreadFinite, FS_AddElement
    <2> QED BY <2>1, <2>2, ThreadFinite DEF Counters, TypeOK
  <1>5. Mid(t, nTodo, fAllOk, nTotal, nIdle - 1, pc)
    <2>1. AtRest => fAllOk /\ Rest(t) = {}
      BY <1>3 DEF Results
    <2>2. ~AtRest =>
          /\ added \subseteq Good <=>
                /\ fAllOk
                /\ queue \subseteq Good
                /\ \A u \in Thread \ {t} : batch[u] # {} => fOk[u] /\ left[u] \subseteq Good
          /\ (fAllOk /\ \A u \in Thread \ {t} : batch[u] # {} => fOk[u]) =>
                \A c \in added : c \in ran \/ c \in queue \/ \E u \in Thread \ {t} : c \in left[u]
      BY <1>2 DEF Results
    <2> QED BY <1>2, <1>3, <1>4, <2>1, <2>2 DEF Mid, TypeOK, Counters, Places
  <1> QED BY <1>1, <1>5, LoopBodyPreserves

\* The iteration that cleans up after the previous batch preserves IInv.
LEMMA CleanUpPreserves == ASSUME IInv, NEW t \in Thread, CleanUp(t) PROVE IInv'
  <1> USE DEF IInv
  <1> DEFINE todo == nTodo - Cardinality(batch[t])
             ok == fAllOk /\ fOk[t]
             p == IF todo = 0 /\ t \notin Master THEN NotifyMaster ELSE pc
  <1>1. LoopBody(t, todo, ok, nTotal, nIdle, p)
    BY DEF CleanUp
  <1>2. batch[t] # {} /\ pc[t] = "lock" /\ left[t] = {} /\ batch[t] \in SUBSET Check
    BY DEF CleanUp, Places, TypeOK
  <1>3. todo = Cardinality(Rest(t)) /\ todo \in Nat
    <2>1. Pending = Rest(t) \cup batch[t] /\ Rest(t) \cap batch[t] = {} /\ Rest(t) \in SUBSET Check
      BY <1>2 DEF Pending, Rest, Placement, TypeOK
    <2>2. Cardinality(Pending) = Cardinality(Rest(t)) + Cardinality(batch[t])
      <3>1. IsFiniteSet(Rest(t)) /\ IsFiniteSet(batch[t])
        BY <1>2, <2>1, CheckFinite
      <3>2. Cardinality(Rest(t) \cup batch[t])
              = Cardinality(Rest(t)) + Cardinality(batch[t]) - Cardinality(Rest(t) \cap batch[t])
        BY <3>1, FS_Union
      <3> QED BY <1>2, <2>1, <3>2, CheckFinite, FS_EmptySet
    <2> QED BY <1>2, <2>1, <2>2, CheckFinite DEF Counters
  <1>4. Idle = OtherIdle(t)
    BY <1>2 DEF Idle, OtherIdle
  <1>5. ~AtRest
    BY <1>2 DEF Results, Pending
  <1>6. ok \in BOOLEAN
    BY DEF TypeOK
  <1>7. /\ p \in [Thread -> {"out", "add", "lock", "wait", "woken", "run", "done", "dead"}]
        /\ \A u \in Thread : p[u] = pc[u] \/ (u \in Master /\ pc[u] = "wait" /\ p[u] = "woken")
    BY DEF TypeOK, NotifyMaster
  <1>8. \A m \in Master \ {t} : p[m] = "wait" => todo # 0
    <2>1. t \in Master => \A m \in Master \ {t} : pc[m] = "out"
      BY <1>2 DEF Places
    <2> QED BY <2>1 DEF NotifyMaster
  <1>9. /\ added \subseteq Good <=>
              /\ ok
              /\ queue \subseteq Good
              /\ \A u \in Thread \ {t} : batch[u] # {} => fOk[u] /\ left[u] \subseteq Good
        /\ (ok /\ \A u \in Thread \ {t} : batch[u] # {} => fOk[u]) =>
              \A c \in added : c \in ran \/ c \in queue \/ \E u \in Thread \ {t} : c \in left[u]
    BY ZenonT(60), <1>2, <1>5 DEF Results
  <1>10. Mid(t, todo, ok, nTotal, nIdle, p)
    <2> HIDE DEF todo, ok, p
    <2>1. nTotal \in Nat /\ nIdle \in Nat /\ nTotal >= nTotal /\ nIdle >= Cardinality(OtherIdle(t))
      BY <1>4 DEF TypeOK, Counters
    <2>2. t \in Master => nTotal >= 1
      BY <1>2 DEF Counters
    <2> QED BY ZenonT(60), <1>2, <1>3, <1>5, <1>6, <1>7, <1>8, <1>9, <2>1, <2>2 DEF Mid
  <1> HIDE DEF todo, ok, p
  <1> QED BY <1>1, <1>10, LoopBodyPreserves

\* The steps of the master outside Loop, running checks, and the wakeups and
\* interruptions, which only move program counters.
LEMMA ControlPreserves == ASSUME IInv, NEW m \in Master, Control(m) PROVE IInv'
  <1> USE DEF IInv, Control, shared, local
  <1>1. AtRest /\ Pending = {} /\ fAllOk
    BY DEF AtRest, Results
  <1>2. \A t \in Thread : batch[t] = {} /\ left[t] = {}
    BY <1>1 DEF Pending, TypeOK, Placement
  <1>3. /\ pc' \in [Thread -> {"out", "add", "lock", "wait", "woken", "run", "done", "dead"}]
        /\ pc'[m] = "add" /\ \A u \in Thread \ {m} : pc'[u] = pc[u]
    BY DEF TypeOK
  <1>4. Pending' = {} /\ Idle' = Idle
    BY <1>1, <1>3 DEF Pending, Idle
  <1>5. TypeOK' /\ Placement'
    BY ZenonT(60), <1>2, <1>3, <1>4 DEF TypeOK, Placement
  <1>6. Counters'
    BY <1>1, <1>3, <1>4 DEF Counters
  <1>7. Places'
    BY ZenonT(60), <1>3 DEF Places
  <1>8. Results'
    <2>1. queue = {} /\ queue' = queue /\ fAllOk' /\ \A t \in Thread : batch'[t] = {}
      BY <1>1, <1>2 DEF Pending, TypeOK
    <2>2. added' = {}
      OBVIOUS
    <2> QED BY ZenonT(60), <1>4, <2>1, <2>2 DEF Results
  <1>9. VerdictExact' /\ TrueVerdictRanAll'
    BY ZenonT(60), <1>3 DEF VerdictExact, TrueVerdictRanAll, Places
  <1> QED BY <1>5, <1>6, <1>7, <1>8, <1>9

\* Adding checks preserves IInv.
LEMMA AddPreserves ==
    ASSUME IInv, NEW m \in Master, NEW S \in SUBSET (Check \ added), Add(m, S)
    PROVE  IInv'
  <1> USE DEF IInv, Add, local
  <1>1. /\ pc' \in [Thread -> {"out", "add", "lock", "wait", "woken", "run", "done", "dead"}]
        /\ \A u \in Thread : pc'[u] = pc[u] \/ (u \in Worker /\ pc[u] = "wait" /\ pc'[u] = "woken")
    BY DEF NotifyWorkers, TypeOK
  <1>2. pc[m] = "add" /\ control = m /\ ~AtRest /\ ~AtRest'
    BY ZenonT(60), <1>1 DEF Places, AtRest
  <1>3. Idle' = Idle
    BY <1>1 DEF Idle
  <1>4. Pending' = Pending \cup S /\ Pending \cap S = {} /\ Pending \in SUBSET Check
    BY ZenonT(60) DEF Pending, Placement
  <1>5. nTodo' = Cardinality(Pending')
    <2>1. IsFiniteSet(Pending) /\ IsFiniteSet(S)
      BY <1>4, CheckFinite
    <2>2. Cardinality(Pending \cup S) = Cardinality(Pending) + Cardinality(S) - Cardinality(Pending \cap S)
      BY ZenonT(60), <2>1, FS_Union
    <2> QED BY <1>4, <2>2, CheckFinite, FS_EmptySet DEF Counters
  <1>6. nTodo' \in Nat
    BY <1>4, <1>5, CheckFinite
  <1>7. TypeOK'
    BY ZenonT(60), <1>1, <1>6 DEF TypeOK
  <1>8. Placement'
    BY ZenonT(60), <1>4 DEF Placement, Pending
  <1>9. Counters'
    BY ZenonT(60), <1>1, <1>3, <1>5 DEF Counters
  <1>10. Places'
    BY ZenonT(60), <1>1, <1>2 DEF Places
  <1>11. Results'
    <2>1. added' \subseteq Good <=>
                /\ fAllOk'
                /\ queue' \subseteq Good
                /\ \A t \in Thread : batch'[t] # {} => fOk'[t] /\ left'[t] \subseteq Good
      BY ZenonT(60), <1>2 DEF Results
    <2>2. (fAllOk' /\ \A t \in Thread : batch'[t] # {} => fOk'[t]) =>
                \A c \in added' : c \in ran' \/ c \in queue' \/ \E t \in Thread : c \in left'[t]
      BY ZenonT(60), <1>2 DEF Results
    <2> QED BY ZenonT(60), <1>2, <2>1, <2>2 DEF Results
  <1>12. \A u \in Master : pc[u] # "done" /\ pc'[u] # "done"
    BY ZenonT(60), <1>1, <1>2 DEF Places
  <1> QED BY <1>7, <1>8, <1>9, <1>10, <1>11, <1>12 DEF VerdictExact, TrueVerdictRanAll

\* Running a check outside the mutex preserves IInv.
LEMMA RunPreserves ==
    ASSUME IInv, NEW t \in Thread, NEW c \in left[t], Run(t, c)
    PROVE  IInv'
  <1> USE DEF IInv, Run, shared
  <1>a. c \in Check /\ c \in batch[t] /\ c \in added /\ fOk[t] /\ pc[t] = "run"
    BY ZenonT(60) DEF TypeOK, Placement, Pending
  <1>1. /\ fOk' \in [Thread -> BOOLEAN] /\ (fOk'[t] <=> c \in Good) /\ fOk[t]
        /\ left' \in [Thread -> SUBSET Check] /\ left'[t] = left[t] \ {c}
        /\ \A u \in Thread \ {t} : fOk'[u] = fOk[u] /\ left'[u] = left[u]
        /\ ran' = ran \cup {c} /\ batch[t] # {} /\ c \in added /\ pc[t] = "run"
    <2> DEFINE good == c \in Good
    <2>1. good \in BOOLEAN /\ fOk' = [fOk EXCEPT ![t] = good] /\ fOk \in [Thread -> BOOLEAN]
      BY DEF TypeOK
    <2>2. /\ fOk' \in [Thread -> BOOLEAN] /\ (fOk'[t] <=> good)
          /\ \A u \in Thread \ {t} : fOk'[u] = fOk[u]
      <3> HIDE DEF good
      <3> QED BY <2>1
    <2>3. /\ left' \in [Thread -> SUBSET Check] /\ left'[t] = left[t] \ {c}
          /\ \A u \in Thread \ {t} : left'[u] = left[u]
      BY DEF TypeOK
    <2> QED BY ZenonT(60), <1>a, <2>2, <2>3
  <1>2. Pending' = Pending /\ Idle' = Idle /\ (AtRest' <=> AtRest)
    BY ZenonT(60) DEF Pending, Idle, AtRest
  <1>3. ~AtRest
    BY ZenonT(60), <1>1 DEF Results, Pending, TypeOK
  <1>4. TypeOK' /\ Placement'
    <2>1. TypeOK'
      BY ZenonT(60), <1>1 DEF TypeOK
    <2>2. Placement'
      BY ZenonT(60), <1>1, <1>2 DEF Placement
    <2> QED BY <2>1, <2>2
  <1>5. Counters' /\ Places'
    BY ZenonT(60), <1>1, <1>2 DEF Counters, Places
  <1>6. Results'
    <2>1. added' \subseteq Good <=>
                /\ fAllOk'
                /\ queue' \subseteq Good
                /\ \A u \in Thread : batch'[u] # {} => fOk'[u] /\ left'[u] \subseteq Good
      <3>1. left[t] \subseteq Good <=> left'[t] \subseteq Good /\ c \in Good
        BY ZenonT(60), <1>1
      <3> QED BY ZenonT(60), <1>1, <1>3, <3>1 DEF Results
    <2>2. ASSUME fAllOk', \A u \in Thread : batch'[u] # {} => fOk'[u], NEW d \in added'
          PROVE  d \in ran' \/ d \in queue' \/ \E u \in Thread : d \in left'[u]
      <3>1. \A u \in Thread : batch[u] # {} => fOk[u]
        BY ZenonT(60), <1>1, <2>2
      <3>2. d \in ran \/ d \in queue \/ \E u \in Thread : d \in left[u]
        BY ZenonT(60), <1>3, <2>2, <3>1 DEF Results
      <3> QED BY ZenonT(60), <1>1, <3>2
    <2> QED BY <1>2, <1>3, <2>1, <2>2 DEF Results
  <1>7. \A m \in Master : pc[m] # "done"
    BY ZenonT(60), <1>3 DEF AtRest, Places
  <1> QED BY ZenonT(60), <1>1, <1>4, <1>5, <1>6, <1>7 DEF VerdictExact, TrueVerdictRanAll

\* The end of a batch preserves IInv.
LEMMA EndBatchPreserves == ASSUME IInv, NEW t \in Thread, EndBatch(t) PROVE IInv'
  <1> USE DEF IInv, EndBatch, shared, history
  <1>1. /\ left' \in [Thread -> SUBSET Check] /\ left'[t] = {}
        /\ \A u \in Thread \ {t} : left'[u] = left[u] /\ pc'[u] = pc[u]
        /\ pc' \in [Thread -> {"out", "add", "lock", "wait", "woken", "run", "done", "dead"}]
        /\ pc[t] = "run" /\ pc'[t] = "lock" /\ batch[t] # {}
        /\ (left[t] = {} \/ ~fOk[t])
    BY ZenonT(60) DEF TypeOK, Places
  <1>2. Pending' = Pending /\ Idle' = Idle
    BY ZenonT(60), <1>1 DEF Pending, Idle
  <1>3. ~AtRest
    BY ZenonT(60), <1>1 DEF Results, Pending, TypeOK
  <1>4. ~AtRest'
    BY ZenonT(60), <1>1, <1>3 DEF AtRest, Places, TypeOK
  <1>5. TypeOK' /\ Placement'
    BY ZenonT(60), <1>1, <1>2 DEF TypeOK, Placement
  <1>6. Counters' /\ Places'
    BY ZenonT(60), <1>1, <1>2 DEF Counters, Places
  <1>7. Results'
    <2>1. added' \subseteq Good <=>
                /\ fAllOk'
                /\ queue' \subseteq Good
                /\ \A u \in Thread : batch'[u] # {} => fOk'[u] /\ left'[u] \subseteq Good
      BY ZenonT(60), <1>1, <1>3 DEF Results
    <2>2. ASSUME fAllOk', \A u \in Thread : batch'[u] # {} => fOk'[u], NEW d \in added'
          PROVE  d \in ran' \/ d \in queue' \/ \E u \in Thread : d \in left'[u]
      BY ZenonT(60), <1>1, <1>3, <2>2 DEF Results
    <2> QED BY <1>4, <2>1, <2>2 DEF Results
  <1>8. \A m \in Master : pc'[m] # "done"
    BY ZenonT(60), <1>4, <1>6 DEF AtRest, Places
  <1> QED BY ZenonT(60), <1>1, <1>5, <1>6, <1>7, <1>8 DEF VerdictExact, TrueVerdictRanAll

\* Wait, Spurious, Interrupted and InterruptAll move program counters between
\* places that hold no batch; Release leaves ControlMutex with the queue idle.
LEMMA WaitPreserves == ASSUME IInv, NEW m \in Master, Wait(m) PROVE IInv'
  <1> USE DEF IInv, Wait, shared, local, history
  <1>1. /\ pc' \in [Thread -> {"out", "add", "lock", "wait", "woken", "run", "done", "dead"}]
        /\ pc[m] = "add" /\ pc'[m] = "lock" /\ \A u \in Thread \ {m} : pc'[u] = pc[u]
    BY DEF TypeOK
  <1>2. Pending' = Pending /\ Idle' = Idle
    BY ZenonT(60), <1>1 DEF Pending, Idle
  <1>3. (AtRest' <=> AtRest) /\ batch[m] = {} /\ left[m] = {}
    BY ZenonT(60), <1>1 DEF AtRest, Places, Placement, TypeOK
  <1>4. TypeOK' /\ Placement' /\ Counters'
    BY ZenonT(60), <1>1, <1>2 DEF TypeOK, Placement, Counters
  <1>5. Places'
    BY ZenonT(60), <1>1, <1>3 DEF Places
  <1>6. Results'
    BY ZenonT(60), <1>2, <1>3 DEF Results
  <1> QED BY <1>1, <1>4, <1>5, <1>6 DEF VerdictExact, TrueVerdictRanAll

\* Releasing ControlMutex preserves IInv.
LEMMA ReleasePreserves == ASSUME IInv, NEW m \in Master, Release(m) PROVE IInv'
  <1> USE DEF IInv, Release, shared, local, history
  <1>1. /\ pc' \in [Thread -> {"out", "add", "lock", "wait", "woken", "run", "done", "dead"}]
        /\ pc[m] = "done" /\ pc'[m] = "out" /\ \A u \in Thread \ {m} : pc'[u] = pc[u]
    BY DEF TypeOK
  <1>2. Pending' = Pending /\ Idle' = Idle
    BY <1>1 DEF Pending, Idle
  <1>3. AtRest /\ AtRest' /\ control = m
    BY ZenonT(60), <1>1 DEF AtRest, Places
  <1>4. TypeOK' /\ Placement' /\ Counters'
    BY ZenonT(60), <1>1, <1>2 DEF TypeOK, Placement, Counters
  <1>5. Places'
    BY ZenonT(60), <1>1, <1>3 DEF Places
  <1>6. Results'
    BY <1>2, <1>3 DEF Results
  <1> QED BY <1>1, <1>4, <1>5, <1>6 DEF VerdictExact, TrueVerdictRanAll

\* A spurious wakeup preserves IInv.
LEMMA SpuriousPreserves == ASSUME IInv, NEW t \in Thread, Spurious(t) PROVE IInv'
  <1> USE DEF IInv, Spurious, shared, local, history
  <1>1. /\ pc' \in [Thread -> {"out", "add", "lock", "wait", "woken", "run", "done", "dead"}]
        /\ pc[t] = "wait" /\ pc'[t] = "woken" /\ \A u \in Thread \ {t} : pc'[u] = pc[u]
    BY DEF TypeOK
  <1>2. Pending' = Pending /\ Idle' = Idle
    BY ZenonT(60), <1>1 DEF Pending, Idle
  <1>3. AtRest' <=> AtRest
    BY ZenonT(60), <1>1 DEF AtRest, TypeOK
  <1>4. TypeOK' /\ Placement' /\ Counters' /\ Places'
    BY ZenonT(60), <1>1, <1>2 DEF TypeOK, Placement, Counters, Places
  <1>5. Results'
    BY ZenonT(60), <1>2, <1>3 DEF Results
  <1> QED BY <1>1, <1>4, <1>5 DEF VerdictExact, TrueVerdictRanAll

\* A thread that leaves at an interruption point preserves IInv.
LEMMA InterruptedPreserves == ASSUME IInv, NEW t \in Thread, Interrupted(t) PROVE IInv'
  <1> USE DEF IInv, Interrupted, shared, local, history
  <1>1. /\ pc' \in [Thread -> {"out", "add", "lock", "wait", "woken", "run", "done", "dead"}]
        /\ pc[t] \in {"wait", "woken"} /\ \A u \in Thread \ {t} : pc'[u] = pc[u]
        /\ pc'[t] = IF t \in Worker THEN "dead" ELSE "lock"
    BY ZenonT(60) DEF TypeOK
  <1>2. Pending' = Pending /\ Idle' = Idle \ {t} /\ t \in Idle /\ Idle \in SUBSET Thread
    BY ZenonT(60), <1>1 DEF Pending, Idle
  <1>3. Cardinality(Idle') \in Nat /\ Cardinality(Idle') <= Cardinality(Idle)
    BY <1>2, ThreadFinite, FS_RemoveElement
  <1>4. (AtRest' <=> AtRest) /\ batch[t] = {} /\ left[t] = {}
    <2>1. batch[t] = {} /\ left[t] = {}
      BY ZenonT(60), <1>1 DEF Places, Placement
    <2>2. AtRest' <=> AtRest
      BY ZenonT(60), <1>1 DEF AtRest, TypeOK
    <2> QED BY <2>1, <2>2
  <1>5. TypeOK' /\ Placement'
    BY ZenonT(60), <1>1, <1>2 DEF TypeOK, Placement
  <1>6. Counters'
    BY <1>1, <1>2, <1>3, <1>4, ThreadFinite DEF Counters, TypeOK
  <1>7. Places'
    BY <1>1, <1>4 DEF Places
  <1>8. Results'
    BY <1>2, <1>4 DEF Results
  <1> QED BY ZenonT(60), <1>1, <1>5, <1>6, <1>7, <1>8 DEF VerdictExact, TrueVerdictRanAll

\* IInv does not depend on which threads are interrupted.
LEMMA SameQueuePreserves ==
    ASSUME IInv, UNCHANGED <<shared, control, pc, local, verdict, history>>,
           intr' \in SUBSET Thread, stopping' \in BOOLEAN
    PROVE  IInv'
  <1>0. /\ queue' = queue /\ nIdle' = nIdle /\ nTotal' = nTotal /\ fAllOk' = fAllOk /\ nTodo' = nTodo
        /\ control' = control /\ pc' = pc /\ batch' = batch /\ left' = left /\ fOk' = fOk
        /\ verdict' = verdict /\ added' = added /\ ran' = ran
    BY DEF shared, local, history
  <1>1. Pending' = Pending /\ Idle' = Idle /\ (AtRest' <=> AtRest)
    BY ZenonT(60), <1>0 DEF Pending, Idle, AtRest
  <1>2. TypeOK'
    BY ZenonT(60), <1>0 DEF IInv, TypeOK
  <1>3. Placement' /\ Counters'
    BY ZenonT(60), <1>0, <1>1 DEF IInv, Placement, Counters
  <1>4. Places'
    BY ZenonT(60), <1>0 DEF IInv, Places
  <1>5. Results'
    BY <1>0, <1>1 DEF IInv, Results
  <1>6. (ran \subseteq added)' /\ VerdictExact' /\ TrueVerdictRanAll'
    BY <1>0 DEF IInv, VerdictExact, TrueVerdictRanAll
  <1> QED BY <1>2, <1>3, <1>4, <1>5, <1>6 DEF IInv

\* Interrupting the thread group preserves IInv.
LEMMA InterruptAllPreserves == ASSUME IInv, InterruptAll PROVE IInv'
  BY SameQueuePreserves DEF InterruptAll

\* A stuttering step preserves IInv.
LEMMA StutterPreserves == ASSUME IInv, UNCHANGED vars PROVE IInv'
  BY ZenonT(60), SameQueuePreserves DEF vars, IInv, TypeOK

\* IInv is inductive.
LEMMA NextPreserves == IInv /\ [Next]_vars => IInv'
  <1> SUFFICES ASSUME IInv, [Next]_vars PROVE IInv'
    OBVIOUS
  <1>1. CASE \E m \in Master :
               \/ Control(m)
               \/ \E S \in SUBSET (Check \ added) : Add(m, S)
               \/ Wait(m)
               \/ Release(m)
    BY <1>1, ControlPreserves, AddPreserves, WaitPreserves, ReleasePreserves
  <1>2. CASE \E t \in Thread : LoopStep(t) \/ Spurious(t) \/ Interrupted(t)
    BY <1>2, EnterPreserves, CleanUpPreserves, WakeUpPreserves, RunPreserves,
       EndBatchPreserves, SpuriousPreserves, InterruptedPreserves DEF LoopStep
  <1>3. CASE InterruptAll
    BY <1>3, InterruptAllPreserves
  <1>4. CASE UNCHANGED vars
    BY <1>4, StutterPreserves
  <1> QED BY <1>1, <1>2, <1>3, <1>4 DEF Next

\* IInv holds in every reachable state of the check queue.
THEOREM InvariantHolds == Spec => []IInv
  BY InitIInv, NextPreserves, PTL DEF Spec

\* The fields of CCheckQueue keep their types: in particular the counters
\* nTodo and nIdle are never decremented below zero.
THEOREM TypeCorrect == Spec => []TypeOK
  BY InvariantHolds, PTL DEF IInv

\* Wait() returns the conjunction of exactly the checks added by its control.
THEOREM VerdictIsExact == Spec => []VerdictExact
  BY InvariantHolds, PTL DEF IInv

\* A true result means that every check was run.
THEOREM TrueMeansAllRan == Spec => []TrueVerdictRanAll
  BY InvariantHolds, PTL DEF IInv

\* ControlMutex is only ever handed over with the queue finished.
THEOREM HandoverIsClean == Spec => []CleanHandover
  <1>1. IInv => CleanHandover
    <2> SUFFICES ASSUME IInv, control = NoMaster \/ (\E m \in Master : pc[m] = "done")
                 PROVE  queue = {} /\ nTodo = 0 /\ fAllOk /\ \A t \in Thread : batch[t] = {}
      BY DEF CleanHandover
    <2>1. AtRest
      BY ZenonT(60) DEF IInv, AtRest, Places
    <2>2. Pending = {} /\ fAllOk
      BY <2>1 DEF IInv, Results
    <2> QED BY ZenonT(60), <2>2, FS_EmptySet DEF IInv, Pending, TypeOK, Counters
  <1> QED BY <1>1, InvariantHolds, PTL

\* While the master sleeps a worker holds a batch, so the wakeup is to come.
THEOREM NoLostWakeup == Spec => []MasterSleepsOnWork
  <1>1. IInv => MasterSleepsOnWork
    <2> SUFFICES ASSUME IInv, NEW m \in Master, pc[m] = "wait"
                 PROVE  \E w \in Worker : batch[w] # {} /\ pc[w] \in {"run", "lock"}
      BY DEF MasterSleepsOnWork
    <2> USE DEF IInv
    <2>1. nTodo # 0 /\ queue = {} /\ control = m
      BY ZenonT(60) DEF Places
    <2>2. Pending # {}
      BY <2>1, FS_EmptySet DEF Counters
    <2>3. PICK t \in Thread : batch[t] # {}
      BY <2>1, <2>2 DEF Pending
    <2>4. t \notin Master
      BY ZenonT(60), <2>1, <2>3 DEF Places
    <2> QED BY ZenonT(60), <2>3, <2>4 DEF Places
  <1> QED BY <1>1, InvariantHolds, PTL
=============================================================================
