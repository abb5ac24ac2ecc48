-------------------------- MODULE CallbackQueueProofs --------------------------
(***************************************************************************)
(* The callback queue is serial for any number of scheduler threads and    *)
(* callbacks.  IInv is inductive.  Most steps only move threads between    *)
(* the program points of the scheduler's loop (Idle) and change nothing    *)
(* that the invariant speaks of: IdleStep proves those once, and           *)
(* NotifyMoves says that a notification is such a move.                    *)
(***************************************************************************)
EXTENDS CallbackQueue, FiniteSetTheorems, TLAPS

USE CallbackQueueAssumption DEF Proc

Idle == {"lock", "seed", "wait", "timed", "timeout"}

\* p differs from q only in where threads stand in the scheduler's loop.
Moves(q, p) ==
    /\ p \in [Proc -> ThreadPc \cup MainPc]
    /\ \A t \in Thread : p[t] = q[t] \/ (q[t] \in Idle /\ p[t] \in Idle)
    /\ p[Main] = q[Main]

\* notify_one() moves at most one waiting thread back to the loop.
LEMMA NotifyMoves ==
    ASSUME NEW q \in [Proc -> ThreadPc \cup MainPc], NEW p, NotifyOne(q, p)
    PROVE  Moves(q, p)
  <1>1. CASE p = q
    BY <1>1 DEF Moves
  <1>2. ASSUME NEW t \in Thread, q[t] \in {"wait", "timed", "timeout"},
               p = [q EXCEPT ![t] = IF q[t] = "wait" THEN "seed" ELSE "lock"]
        PROVE  Moves(q, p)
    BY <1>2 DEF Moves, Idle, ThreadPc
  <1> QED
    BY <1>1, <1>2 DEF NotifyOne

\* The constructed queue satisfies the invariant.
LEMMA InitIInv == Init => IInv
  <1> SUFFICES ASSUME Init PROVE IInv
    OBVIOUS
  <1> USE DEF Init
  <1>a. /\ pc \in [Proc -> ThreadPc \cup MainPc]
        /\ \A t \in Thread : pc[t] = "start"
        /\ pc[Main] = "up"
    BY DEF ThreadPc, MainPc
  <1>b. callback \in [Proc -> Callback \cup {None}]
    OBVIOUS
  <1>c. due \in Seq({"process", "repeat"}) /\ pending \in Seq(Callback)
    OBVIOUS
  <1>1. TypeOK
    <2>1. \A t \in Thread : pc[t] \in ThreadPc
      BY <1>a DEF ThreadPc
    <2>2. pc[Main] \in MainPc
      BY <1>a DEF MainPc
    <2> QED
      BY ZenonT(60), <1>a, <1>b, <1>c, <2>1, <2>2 DEF TypeOK
  <1>2. Exclusive
    BY DEF Exclusive, Busy
  <1>3. OneTask
    BY DEF OneTask
  <1>4. NothingForgotten
    BY DEF NothingForgotten
  <1>5. InService = {}
    BY DEF InService
  <1>6. Counted
    BY <1>5, FS_EmptySet DEF Counted
  <1> QED
    BY <1>1, <1>2, <1>3, <1>4, <1>6 DEF IInv

\* A step that only moves threads within the scheduler's loop.
LEMMA IdleStep ==
    ASSUME IInv, Moves(pc, pc'),
           due' = due, running' = running, scheduled' = scheduled,
           pending' = pending, callback' = callback, adding' = adding,
           nThreadsServicingQueue' = nThreadsServicingQueue,
           later' \in BOOLEAN, stopRequested' \in BOOLEAN, stopWhenEmpty' \in BOOLEAN,
           fresh' \in SUBSET Callback, intr' \in SUBSET Thread
    PROVE  IInv'
  <1> USE DEF IInv, Moves, Idle
  <1>1. TypeOK'
    BY DEF TypeOK, ThreadPc, MainPc
  <1>2. Busy' = Busy
    BY DEF Busy
  <1>3. Exclusive'
    BY <1>2 DEF Exclusive, TypeOK
  <1>4. {t \in Thread : pc'[t] = "process"} = {t \in Thread : pc[t] = "process"}
    OBVIOUS
  <1>5. OneTask'
    BY <1>4 DEF OneTask
  <1>6. NothingForgotten'
    BY DEF NothingForgotten
  <1>7. InService' = InService
    BY DEF InService
  <1>8. Counted'
    BY <1>7 DEF Counted
  <1> QED
    BY <1>1, <1>3, <1>5, <1>6, <1>8

\* Threads in service form a finite set.
LEMMA ServiceFinite ==
    ASSUME NEW S \in SUBSET Thread
    PROVE  IsFiniteSet(S) /\ Cardinality(S) \in Nat
  BY FS_Subset, FS_CardinalityType

\* serviceQueue is left by thread t: the count follows.
LEMMA DeadCounted ==
    ASSUME IInv, NEW t \in Thread, t \in InService,
           NEW S, S = InService \ {t}
    PROVE  nThreadsServicingQueue - 1 = Cardinality(S) /\ nThreadsServicingQueue - 1 \in Nat
  <1>1. InService \in SUBSET Thread /\ S \in SUBSET Thread
    BY DEF InService
  <1>2. IsFiniteSet(InService) /\ Cardinality(S) \in Nat
    BY <1>1, ServiceFinite
  <1>3. Cardinality(S) = Cardinality(InService) - 1
    BY ZenonT(60), <1>2, FS_RemoveElement
  <1> QED
    BY <1>2, <1>3 DEF IInv, Counted, TypeOK

\* A thread enters or leaves serviceQueue without touching the queue: a is
\* where it was and b where it goes, before threads are notified.
LEMMA CountStep ==
    ASSUME IInv, NEW t \in Thread, NEW b \in {"lock", "dead"},
           Moves([pc EXCEPT ![t] = b], pc'),
           \/ pc[t] = "start" /\ b = "lock"
              /\ nThreadsServicingQueue' = nThreadsServicingQueue + 1
           \/ pc[t] \in Idle /\ b = "dead"
              /\ nThreadsServicingQueue' = nThreadsServicingQueue - 1,
           due' = due, later' = later, running' = running, scheduled' = scheduled,
           pending' = pending, callback' = callback, adding' = adding,
           stopRequested' = stopRequested, stopWhenEmpty' = stopWhenEmpty,
           fresh' = fresh, intr' \in SUBSET Thread
    PROVE  IInv'
  <1> USE DEF IInv
  <1>a. /\ pc \in [Proc -> ThreadPc \cup MainPc]
        /\ pc' \in [Proc -> ThreadPc \cup MainPc]
        /\ pc'[Main] = pc[Main]
        /\ pc[t] \in {"start"} \cup Idle
        /\ b = "lock" => pc'[t] \in Idle
        /\ b = "dead" => pc'[t] = "dead"
        /\ \A u \in Thread \ {t} : pc'[u] = pc[u] \/ (pc[u] \in Idle /\ pc'[u] \in Idle)
    BY DEF TypeOK, Moves, Idle
  <1>b. InService \in SUBSET Thread /\ InService' \in SUBSET Thread
    BY DEF InService
  <1>1. nThreadsServicingQueue' \in Nat /\ nThreadsServicingQueue' = Cardinality(InService')
    <2>1. CASE b = "lock"
      <3>1. pc[t] = "start" /\ nThreadsServicingQueue' = nThreadsServicingQueue + 1
        BY <2>1
      <3>2. t \notin InService /\ InService' = InService \cup {t}
        BY <1>a, <2>1, <3>1 DEF InService, Idle
      <3>3. IsFiniteSet(InService)
        BY <1>b, ServiceFinite
      <3>4. Cardinality(InService') = Cardinality(InService) + 1
        BY ZenonT(60), <3>2, <3>3, FS_AddElement
      <3> QED
        BY <3>1, <3>4 DEF Counted, TypeOK
    <2>2. CASE b = "dead"
      <3>1. pc[t] \in Idle /\ nThreadsServicingQueue' = nThreadsServicingQueue - 1
        BY <2>2
      <3>2. t \in InService /\ InService' = InService \ {t}
        BY <1>a, <2>2, <3>1 DEF InService, Idle
      <3> QED
        BY <3>1, <3>2, DeadCounted
    <2> QED
      BY <2>1, <2>2
  <1>2. TypeOK'
    <2>1. \A u \in Thread : pc'[u] \in ThreadPc
      BY <1>a DEF TypeOK, Idle, ThreadPc
    <2> QED
      BY <1>a, <1>1, <2>1 DEF TypeOK
  <1>3. Exclusive'
    <2>1. Busy' = Busy
      BY <1>a DEF Busy, Idle
    <2>2. \A u \in Proc : pc'[u] = "callback" => pc[u] = "callback"
      BY <1>a DEF Idle
    <2> QED
      BY <2>1, <2>2 DEF Exclusive
  <1>4. OneTask'
    <2>1. {u \in Thread : pc'[u] = "process"} = {u \in Thread : pc[u] = "process"}
      BY <1>a DEF Idle
    <2> QED
      BY <2>1 DEF OneTask
  <1>5. NothingForgotten'
    BY <1>a DEF NothingForgotten, Idle
  <1>6. Counted'
    BY <1>a, <1>1 DEF Counted, Idle
  <1> QED
    BY <1>2, <1>3, <1>4, <1>5, <1>6

\* The head of the loop, the waits and the way out of serviceQueue.
LEMMA LeavePreserves ==
    ASSUME IInv, NEW t \in Thread, pc[t] \in Idle, Leave(t)
    PROVE  IInv'
  <1>1. [pc EXCEPT ![t] = "dead"] \in [Proc -> ThreadPc \cup MainPc]
    BY DEF IInv, TypeOK, ThreadPc
  <1>2. Moves([pc EXCEPT ![t] = "dead"], pc')
    BY ZenonT(60), <1>1, NotifyMoves DEF Leave
  <1> QED
    BY ZenonT(60), <1>2, CountStep DEF Leave, tasks, stop, flags, IInv, TypeOK

\* The loop of serviceQueue up to the point where a task is taken.
LEMMA WaitPreserves ==
    ASSUME IInv, NEW t \in Thread, WaitForFirst(t) \/ Loop(t) \/ WaitForTask(t) \/ Spurious(t),
           pc[t] \in Idle
    PROVE  IInv'
  <1>1. CASE Leave(t)
    BY <1>1, LeavePreserves
  <1>2. ASSUME NEW b \in Idle, pc' = [pc EXCEPT ![t] = b],
               UNCHANGED <<tasks, stop, nThreadsServicingQueue, pending, flags, callback, adding, fresh, intr>>
        PROVE  IInv'
    <2>1. Moves(pc, pc')
      BY <1>2 DEF Moves, IInv, TypeOK, Idle, ThreadPc
    <2> QED
      BY <1>2, <2>1, IdleStep DEF tasks, stop, flags, IInv, TypeOK
  <1> QED
    BY <1>1, <1>2 DEF WaitForFirst, Loop, WaitForTask, Spurious, Idle

\* MaybeScheduleProcessQueue keeps OneTask, and what it leaves waiting is
\* followed by a running callback or an outstanding task.
LEMMA MaybeSchedules ==
    ASSUME IInv, NEW q \in [Proc -> ThreadPc \cup MainPc],
           MaybeScheduleProcessQueue(q),
           \A t \in Thread : q[t] = "process" <=> pc[t] = "process",
           running' = running, pending' = pending
    PROVE  /\ Moves(q, pc')
           /\ OneTask'
           /\ due' \in Seq({"process", "repeat"})
           /\ scheduled' \in BOOLEAN
           /\ pending' # <<>> => running' \/ scheduled'
  <1> USE DEF IInv
  <1>1. CASE running \/ scheduled \/ pending = <<>>
    <2>1. pc' = q /\ due' = due /\ scheduled' = scheduled
      BY <1>1 DEF MaybeScheduleProcessQueue
    <2>2. {t \in Thread : pc'[t] = "process"} = {t \in Thread : pc[t] = "process"}
      BY <2>1
    <2>3. OneTask'
      BY <2>1, <2>2 DEF OneTask
    <2>4. Moves(q, pc')
      BY <2>1 DEF Moves
    <2> QED
      BY <1>1, <2>1, <2>3, <2>4 DEF TypeOK
  <1>2. CASE ~(running \/ scheduled \/ pending = <<>>)
    <2>1. scheduled' = TRUE /\ due' = Append(due, "process") /\ NotifyOne(q, pc')
      BY <1>2 DEF MaybeScheduleProcessQueue
    <2>2. Moves(q, pc')
      BY ZenonT(60), <2>1, NotifyMoves
    <2>3. {t \in Thread : pc'[t] = "process"} = {t \in Thread : pc[t] = "process"}
      BY <2>2 DEF Moves, Idle
    <2>4. /\ {t \in Thread : pc[t] = "process"} = {}
          /\ \A i \in DOMAIN due : due[i] # "process"
      BY <1>2 DEF OneTask
    <2>5. due \in Seq({"process", "repeat"})
      BY DEF TypeOK
    <2>6. /\ due' \in Seq({"process", "repeat"})
          /\ DOMAIN due' = 1..(Len(due) + 1)
          /\ due'[Len(due) + 1] = "process"
          /\ \A i \in DOMAIN due' : i # Len(due) + 1 => due'[i] # "process"
      BY <2>1, <2>4, <2>5
    <2>7. {i \in DOMAIN due' : due'[i] = "process"} = {Len(due) + 1}
      BY <2>5, <2>6
    <2>8. OneTask'
      BY <2>1, <2>3, <2>4, <2>7 DEF OneTask
    <2> QED
      BY <2>1, <2>2, <2>6, <2>8
  <1> QED
    BY <1>1, <1>2

\* AddToProcessQueue, first half.
LEMMA AddPreserves ==
    ASSUME IInv, NEW c \in Callback, AddToProcessQueue(c)
    PROVE  IInv'
  <1> USE DEF IInv, AddToProcessQueue, tasks, stop, flags
  <1>1. TypeOK'
    BY DEF TypeOK
  <1>2. Exclusive' /\ OneTask' /\ Counted'
    BY DEF Exclusive, Busy, OneTask, Counted, InService
  <1>3. NothingForgotten'
    BY DEF NothingForgotten, TypeOK
  <1> QED
    BY <1>1, <1>2, <1>3

\* AddToProcessQueue, second half.
LEMMA AddSchedulesPreserves ==
    ASSUME IInv, AddSchedules
    PROVE  IInv'
  <1> USE DEF IInv
  <1>1. /\ Moves(pc, pc') /\ OneTask'
        /\ due' \in Seq({"process", "repeat"}) /\ scheduled' \in BOOLEAN
        /\ pending' # <<>> => running' \/ scheduled'
    BY ZenonT(60), MaybeSchedules DEF AddSchedules, TypeOK
  <1>2. TypeOK'
    BY <1>1 DEF TypeOK, AddSchedules, stop, Moves, Idle, ThreadPc
  <1>3. Busy' = Busy /\ InService' = InService
    BY <1>1 DEF Busy, InService, Moves, Idle
  <1>4. Exclusive'
    BY <1>1, <1>3 DEF Exclusive, AddSchedules, Moves, Idle
  <1>5. Counted'
    BY <1>1, <1>3 DEF Counted, AddSchedules, Moves, Idle
  <1>6. NothingForgotten'
    BY <1>1 DEF NothingForgotten
  <1> QED
    BY <1>1, <1>2, <1>4, <1>5, <1>6

\* A callback is taken by the task that ProcessQueue runs in, or by EmptyQueue.
LEMMA ProcessPreserves ==
    ASSUME IInv, NEW t \in Thread, ProcessQueue(t)
    PROVE  IInv'
  <1> USE DEF IInv
  <1>a. /\ pc[t] = "process" /\ t # Main /\ scheduled' = FALSE
        /\ due' = due /\ later' = later /\ adding' = adding /\ intr' = intr /\ fresh' = fresh
        /\ stopRequested' = stopRequested /\ stopWhenEmpty' = stopWhenEmpty
        /\ nThreadsServicingQueue' = nThreadsServicingQueue
    BY DEF ProcessQueue, tasks, stop
  <1>b. PICK b \in {"lock", "callback"} : pc' = [pc EXCEPT ![t] = b]
    BY DEF ProcessQueue, TakeCallback
  <1>c. pc \in [Proc -> ThreadPc \cup MainPc]
    BY DEF TypeOK
  <1>1. OneTask'
    <2>1. {u \in Thread : pc'[u] = "process"} = {}
      BY <1>a, <1>b, <1>c DEF OneTask
    <2>2. {i \in DOMAIN due : due[i] = "process"} = {}
      BY <1>a DEF OneTask
    <2> QED
      BY <1>a, <2>1, <2>2 DEF OneTask
  <1>2. Counted'
    <2>1. InService' = InService
      BY <1>a, <1>b, <1>c DEF InService
    <2> QED
      BY <1>a, <1>b, <1>c, <2>1 DEF Counted
  <1>3. CASE running \/ pending = <<>>
    <2>1. b = "lock" /\ running' = running /\ pending' = pending /\ callback' = callback
      BY <1>3, <1>b, <1>c DEF ProcessQueue, TakeCallback
    <2>2. TypeOK'
      BY ZenonT(60), <1>a, <1>b, <1>c, <2>1 DEF TypeOK, ThreadPc
    <2>3. Exclusive'
      <3>1. Busy' = Busy
        BY <1>a, <1>b, <1>c, <2>1 DEF Busy
      <3> QED
        BY <1>a, <1>b, <1>c, <2>1, <3>1 DEF Exclusive
    <2>4. NothingForgotten'
      BY <1>3, <2>1 DEF NothingForgotten
    <2> QED
      BY <1>1, <1>2, <2>2, <2>3, <2>4
  <1>4. CASE ~(running \/ pending = <<>>)
    <2>1. /\ pc' = [pc EXCEPT ![t] = "callback"] /\ running' = TRUE
          /\ callback' = [callback EXCEPT ![t] = Head(pending)]
          /\ pending' = Tail(pending)
      BY <1>4 DEF ProcessQueue, TakeCallback
    <2>2. Head(pending) \in Callback /\ Tail(pending) \in Seq(Callback)
      BY <1>4 DEF TypeOK
    <2>3. TypeOK'
      BY ZenonT(60), <1>a, <2>1, <2>2 DEF TypeOK, ThreadPc
    <2>4. Exclusive'
      <3>1. Busy = {}
        BY <1>4 DEF Exclusive
      <3>2. Busy' = {t}
        BY <1>c, <2>1, <3>1 DEF Busy
      <3> QED
        BY <1>c, <2>1, <2>2, <3>1, <3>2 DEF Exclusive, TypeOK, Busy
    <2>5. NothingForgotten'
      BY <2>1 DEF NothingForgotten
    <2> QED
      BY <1>1, <1>2, <2>3, <2>4, <2>5
  <1> QED
    BY <1>3, <1>4

\* EmptyQueue takes a callback.
LEMMA DrainOnePreserves ==
    ASSUME IInv, DrainOne
    PROVE  IInv'
  <1> USE DEF IInv
  <1>a. /\ pc[Main] = "drain" /\ scheduled' = scheduled
        /\ due' = due /\ later' = later /\ adding' = adding /\ intr' = intr /\ fresh' = fresh
        /\ stopRequested' = stopRequested /\ stopWhenEmpty' = stopWhenEmpty
        /\ nThreadsServicingQueue' = nThreadsServicingQueue
    BY DEF DrainOne, tasks, stop
  <1>b. PICK b \in {"check", "callback"} : pc' = [pc EXCEPT ![Main] = b]
    BY DEF DrainOne, TakeCallback
  <1>c. pc \in [Proc -> ThreadPc \cup MainPc]
    BY DEF TypeOK
  <1>1. OneTask'
    <2>1. {u \in Thread : pc'[u] = "process"} = {u \in Thread : pc[u] = "process"}
      BY <1>b, <1>c
    <2> QED
      BY <1>a, <2>1 DEF OneTask
  <1>2. Counted'
    <2>1. InService' = InService
      BY <1>b, <1>c DEF InService
    <2> QED
      BY <1>a, <1>b, <1>c, <2>1 DEF Counted
  <1>3. CASE running \/ pending = <<>>
    <2>1. b = "check" /\ running' = running /\ pending' = pending /\ callback' = callback
      BY <1>3, <1>b, <1>c DEF DrainOne, TakeCallback
    <2>2. TypeOK'
      BY <1>a, <1>b, <1>c, <2>1 DEF TypeOK, MainPc
    <2>3. Exclusive'
      <3>1. Busy' = Busy
        BY <1>a, <1>b, <1>c, <2>1 DEF Busy
      <3> QED
        BY <1>a, <1>b, <1>c, <2>1, <3>1 DEF Exclusive
    <2>4. NothingForgotten'
      BY <1>3, <2>1 DEF NothingForgotten
    <2> QED
      BY <1>1, <1>2, <2>2, <2>3, <2>4
  <1>4. CASE ~(running \/ pending = <<>>)
    <2>1. /\ pc' = [pc EXCEPT ![Main] = "callback"] /\ running' = TRUE
          /\ callback' = [callback EXCEPT ![Main] = Head(pending)]
          /\ pending' = Tail(pending)
      BY <1>4 DEF DrainOne, TakeCallback
    <2>2. Head(pending) \in Callback /\ Tail(pending) \in Seq(Callback)
      BY <1>4 DEF TypeOK
    <2>3. TypeOK'
      BY <1>a, <2>1, <2>2 DEF TypeOK, MainPc
    <2>4. Exclusive'
      <3>1. Busy = {}
        BY <1>4 DEF Exclusive
      <3>2. Busy' = {Main}
        BY <1>c, <2>1, <3>1 DEF Busy
      <3> QED
        BY <1>c, <2>1, <2>2, <3>1, <3>2 DEF Exclusive, TypeOK, Busy
    <2>5. NothingForgotten'
      BY <2>1 DEF NothingForgotten
    <2> QED
      BY <1>1, <1>2, <2>3, <2>4, <2>5
  <1> QED
    BY <1>3, <1>4

\* A callback returns or throws.
LEMMA ReturnPreserves ==
    ASSUME IInv, NEW t \in Proc, CallbackReturns(t) \/ (t \in Thread /\ CallbackThrows(t))
    PROVE  IInv'
  <1> USE DEF IInv
  <1>a. /\ pc[t] = "callback"
        /\ callback' = [callback EXCEPT ![t] = None]
        /\ due' = due /\ later' = later /\ adding' = adding /\ fresh' = fresh
        /\ stopRequested' = stopRequested /\ stopWhenEmpty' = stopWhenEmpty
        /\ nThreadsServicingQueue' = nThreadsServicingQueue
        /\ pending' = pending /\ running' = running /\ scheduled' = scheduled
        /\ intr' \in SUBSET Thread
    BY DEF CallbackReturns, CallbackThrows, tasks, stop, flags, TypeOK
  <1>b. PICK b \in {"end", "throwEnd"} : pc' = [pc EXCEPT ![t] = b] /\ (t = Main => b = "end")
    BY DEF CallbackReturns, CallbackThrows
  <1>c. pc \in [Proc -> ThreadPc \cup MainPc]
    BY DEF TypeOK
  <1>1. TypeOK'
    BY <1>a, <1>b, <1>c DEF TypeOK, ThreadPc, MainPc
  <1>2. Exclusive'
    <2>1. Busy' = Busy
      BY <1>a, <1>b, <1>c DEF Busy
    <2>2. \A u \in Proc : pc'[u] = "callback" => u # t /\ pc[u] = "callback"
      BY <1>b, <1>c
    <2>3. \A u \in Proc : u # t => callback'[u] = callback[u]
      BY <1>a DEF TypeOK
    <2> QED
      BY <1>a, <2>1, <2>2, <2>3 DEF Exclusive
  <1>3. OneTask'
    <2>1. {u \in Thread : pc'[u] = "process"} = {u \in Thread : pc[u] = "process"}
      BY <1>a, <1>b, <1>c
    <2> QED
      BY <1>a, <2>1 DEF OneTask
  <1>4. Counted'
    <2>1. InService' = InService
      BY <1>a, <1>b, <1>c DEF InService
    <2> QED
      BY <1>a, <1>b, <1>c, <2>1 DEF Counted
  <1>5. NothingForgotten'
    <2>1. running
      BY <1>a DEF Exclusive, Busy
    <2> QED
      BY <1>a, <2>1 DEF NothingForgotten
  <1> QED
    BY <1>1, <1>2, <1>3, <1>4, <1>5

\* ~RAIICallbacksRunning resets the flag: the thread was the only busy one.
LEMMA EndPreserves ==
    ASSUME IInv, NEW t \in Proc, EndCallback(t)
    PROVE  IInv'
  <1> USE DEF IInv
  <1>a. /\ pc[t] \in {"end", "throwEnd"} /\ running' = FALSE
        /\ due' = due /\ later' = later /\ adding' = adding /\ fresh' = fresh /\ intr' = intr
        /\ stopRequested' = stopRequested /\ stopWhenEmpty' = stopWhenEmpty
        /\ nThreadsServicingQueue' = nThreadsServicingQueue
        /\ pending' = pending /\ scheduled' = scheduled /\ callback' = callback
    BY DEF EndCallback, tasks, stop
  <1>b. PICK b \in {"check", "maybe", "throwMaybe"} :
            pc' = [pc EXCEPT ![t] = b] /\ (t = Main <=> b = "check")
    BY ZenonT(60) DEF EndCallback
  <1>c. pc \in [Proc -> ThreadPc \cup MainPc]
    BY DEF TypeOK
  <1>1. TypeOK'
    BY ZenonT(60), <1>a, <1>b, <1>c DEF TypeOK, ThreadPc, MainPc
  <1>2. Exclusive'
    <2>1. Busy = {t}
      BY <1>a DEF Busy, Exclusive
    <2>2. Busy' = {}
      BY <1>b, <1>c, <2>1 DEF Busy
    <2> QED
      BY <1>a, <2>2 DEF Exclusive, Busy
  <1>3. OneTask'
    <2>1. {u \in Thread : pc'[u] = "process"} = {u \in Thread : pc[u] = "process"}
      BY <1>a, <1>b, <1>c
    <2> QED
      BY <1>a, <2>1 DEF OneTask
  <1>4. Counted'
    <2>1. InService' = InService
      BY <1>a, <1>b, <1>c DEF InService
    <2> QED
      BY <1>a, <1>b, <1>c, <2>1 DEF Counted
  <1>5. NothingForgotten'
    BY <1>b, <1>c DEF NothingForgotten
  <1> QED
    BY <1>1, <1>2, <1>3, <1>4, <1>5

\* ~RAIICallbacksRunning schedules what arrived meanwhile.
LEMMA EndSchedulesPreserves ==
    ASSUME IInv, NEW t \in Thread, EndSchedules(t)
    PROVE  IInv'
  <1> USE DEF IInv
  <1>a. /\ pc[t] \in {"maybe", "throwMaybe"}
        /\ later' = later /\ adding' = adding /\ fresh' = fresh /\ intr' = intr
        /\ stopRequested' = stopRequested /\ stopWhenEmpty' = stopWhenEmpty
        /\ pending' = pending /\ running' = running /\ callback' = callback
    BY DEF EndSchedules, stop
  <1> DEFINE q == [pc EXCEPT ![t] = IF @ = "maybe" THEN "lock" ELSE "dead"]
  <1>b. /\ q \in [Proc -> ThreadPc \cup MainPc]
        /\ \A u \in Thread : q[u] = "process" <=> pc[u] = "process"
        /\ \A u \in Proc : u # t => q[u] = pc[u]
        /\ q[t] = IF pc[t] = "maybe" THEN "lock" ELSE "dead"
    BY <1>a DEF TypeOK, ThreadPc
  <1>c. MaybeScheduleProcessQueue(q)
    BY DEF EndSchedules
  <1> HIDE DEF q
  <1>1. /\ Moves(q, pc') /\ OneTask'
        /\ due' \in Seq({"process", "repeat"}) /\ scheduled' \in BOOLEAN
        /\ pending' # <<>> => running' \/ scheduled'
    BY ZenonT(60), <1>a, <1>b, <1>c, MaybeSchedules
  <1>2. /\ pc' \in [Proc -> ThreadPc \cup MainPc] /\ pc'[Main] = pc[Main]
        /\ \A u \in Thread \ {t} : pc'[u] = pc[u] \/ (pc[u] \in Idle /\ pc'[u] \in Idle)
        /\ pc[t] = "maybe" => pc'[t] \in Idle
        /\ pc[t] = "throwMaybe" => pc'[t] = "dead"
    BY <1>a, <1>b, <1>1 DEF Moves, Idle
  <1>3. Busy' = Busy
    BY <1>a, <1>2 DEF Busy, Idle
  <1>4. nThreadsServicingQueue' \in Nat /\ nThreadsServicingQueue' = Cardinality(InService')
    <2>1. CASE pc[t] = "maybe"
      <3>1. InService' = InService
        BY <1>2, <2>1 DEF InService, Idle
      <3>2. nThreadsServicingQueue' = nThreadsServicingQueue
        BY <2>1 DEF EndSchedules, TypeOK
      <3> QED
        BY <3>1, <3>2 DEF Counted, TypeOK
    <2>2. CASE pc[t] = "throwMaybe"
      <3>1. t \in InService /\ InService' = InService \ {t}
        BY <1>2, <2>2 DEF InService, Idle
      <3>2. nThreadsServicingQueue' = nThreadsServicingQueue - 1
        BY <2>2 DEF EndSchedules
      <3> QED
        BY <3>1, <3>2, DeadCounted
    <2> QED
      BY <1>a, <2>1, <2>2
  <1>5. TypeOK'
    <2>1. \A u \in Thread : pc'[u] \in ThreadPc
      BY <1>a, <1>2 DEF TypeOK, Idle, ThreadPc
    <2> QED
      BY <1>a, <1>1, <1>2, <1>4, <2>1 DEF TypeOK
  <1>6. Exclusive'
    <2>1. \A u \in Proc : pc'[u] = "callback" => pc[u] = "callback"
      BY <1>a, <1>2 DEF Idle
    <2> QED
      BY ZenonT(60), <1>a, <1>3, <2>1 DEF Exclusive
  <1>7. Counted'
    BY <1>a, <1>2, <1>4 DEF Counted, Idle
  <1>8. NothingForgotten'
    BY <1>1 DEF NothingForgotten
  <1> QED
    BY <1>1, <1>5, <1>6, <1>7, <1>8

\* wait_until times out: the thread leaves, goes round or takes the first task.
LEMMA TimeoutPreserves ==
    ASSUME IInv, NEW t \in Thread, Timeout(t)
    PROVE  IInv'
  <1> USE DEF IInv
  <1>a. pc[t] = "timeout" /\ pc \in [Proc -> ThreadPc \cup MainPc]
    BY DEF Timeout, TypeOK
  <1>1. CASE Leave(t)
    BY <1>1, <1>a, LeavePreserves DEF Idle
  <1>2. CASE ~Leave(t) /\ taskQueueEmpty
    <2>1. pc' = [pc EXCEPT ![t] = "lock"]
      BY <1>2 DEF Timeout
    <2>2. Moves(pc, pc')
      BY <1>a, <2>1 DEF Moves, Idle, ThreadPc
    <2> QED
      BY ZenonT(60), <1>2, <2>2, IdleStep DEF Timeout, tasks, stop, flags, TypeOK
  <1>3. CASE ~Leave(t) /\ ~taskQueueEmpty
    <2>a. /\ nThreadsServicingQueue' = nThreadsServicingQueue /\ callback' = callback
          /\ pending' = pending /\ running' = running /\ scheduled' = scheduled
          /\ adding' = adding /\ fresh' = fresh /\ intr' = intr
          /\ stopRequested' = stopRequested /\ stopWhenEmpty' = stopWhenEmpty
          /\ \/ due # <<>> /\ pc' = [pc EXCEPT ![t] = Head(due)] /\ due' = Tail(due) /\ later' = later
             \/ due = <<>> /\ pc' = [pc EXCEPT ![t] = "repeat"] /\ due' = due /\ later' = FALSE
      BY <1>3 DEF Timeout, stop, flags
    <2>b. due \in Seq({"process", "repeat"}) /\ due' \in Seq({"process", "repeat"}) /\ later' \in BOOLEAN
      <3>1. due \in Seq({"process", "repeat"}) /\ later \in BOOLEAN
        BY DEF TypeOK
      <3>2. due # <<>> => Tail(due) \in Seq({"process", "repeat"})
        BY <3>1
      <3> QED
        BY ZenonT(60), <2>a, <3>1, <3>2
    <2>c. PICK b \in {"process", "repeat"} : pc' = [pc EXCEPT ![t] = b]
      BY <2>a, <2>b
    <2>1. TypeOK'
      BY <1>a, <2>a, <2>b, <2>c DEF TypeOK, ThreadPc
    <2>2. Exclusive'
      <3>1. Busy' = Busy
        BY <1>a, <2>c DEF Busy
      <3> QED
        BY ZenonT(60), <1>a, <2>a, <2>c, <3>1 DEF Exclusive
    <2>3. Counted'
      <3>1. InService' = InService
        BY <1>a, <2>c DEF InService
      <3> QED
        BY <1>a, <2>a, <2>c, <3>1 DEF Counted
    <2>4. NothingForgotten'
      BY <1>a, <2>a, <2>c DEF NothingForgotten
    <2>5. OneTask'
      <3>1. CASE due = <<>>
        <4>1. {u \in Thread : pc'[u] = "process"} = {u \in Thread : pc[u] = "process"}
          BY <1>a, <2>a, <3>1
        <4> QED
          BY <2>a, <3>1, <4>1 DEF OneTask
      <3>2. CASE due # <<>>
        <4>1. /\ DOMAIN due' = 1..(Len(due) - 1) /\ DOMAIN due = 1..Len(due) /\ Len(due) \in Nat \ {0}
              /\ \A i \in DOMAIN due' : due'[i] = due[i + 1]
              /\ Head(due) = due[1]
          <5>1. due' = Tail(due)
            BY <2>a, <3>2
          <5>2. Len(due) \in Nat \ {0} /\ DOMAIN due = 1..Len(due) /\ Head(due) = due[1]
            BY <2>b, <3>2
          <5>3. /\ DOMAIN Tail(due) = 1..(Len(due) - 1)
                /\ \A i \in 1..(Len(due) - 1) : Tail(due)[i] = due[i + 1]
            BY <2>b, <3>2, <5>2
          <5> QED
            BY <5>1, <5>2, <5>3
        <4>2. CASE due[1] = "process"
          <5>1. \A i \in DOMAIN due : due[i] = "process" => i = 1
            BY <4>1, <4>2 DEF OneTask
          <5>2. \A i \in DOMAIN due' : due'[i] # "process"
            BY <4>1, <5>1
          <5>3. \A u \in Thread : pc[u] # "process"
            BY <4>1, <4>2 DEF OneTask
          <5>4. scheduled
            BY <4>1, <4>2 DEF OneTask
          <5>5. \A u \in Thread : pc'[u] = "process" <=> u = t
            BY <1>a, <2>a, <3>2, <4>1, <4>2, <5>3
          <5> QED
            BY <2>a, <5>2, <5>4, <5>5 DEF OneTask
        <4>3. CASE due[1] # "process"
          <5>1. \A u \in Thread : pc'[u] = "process" <=> pc[u] = "process"
            BY <1>a, <2>a, <3>2, <4>1, <4>3
          <5>2. \A i \in DOMAIN due : due[i] = "process" => i - 1 \in DOMAIN due' /\ due'[i - 1] = "process"
            BY <4>1, <4>3
          <5>3. \A i \in DOMAIN due' : due'[i] = "process" => i + 1 \in DOMAIN due /\ due[i + 1] = "process"
            BY <4>1
          <5>4. \A i, j \in DOMAIN due' : due'[i] = "process" /\ due'[j] = "process" => i = j
            <6> SUFFICES ASSUME NEW i \in DOMAIN due', NEW j \in DOMAIN due',
                                due'[i] = "process", due'[j] = "process"
                         PROVE  i = j
              OBVIOUS
            <6>1. i + 1 = j + 1
              BY <5>3 DEF OneTask
            <6> QED
              BY <4>1, <6>1
          <5> QED
            BY <2>a, <5>1, <5>2, <5>3, <5>4 DEF OneTask
        <4> QED
          BY <4>2, <4>3
      <3> QED
        BY <3>1, <3>2
    <2> QED
      BY <2>1, <2>2, <2>3, <2>4, <2>5
  <1> QED
    BY <1>1, <1>2, <1>3

\* The repeated task becomes due.
LEMMA TickPreserves ==
    ASSUME IInv, Tick
    PROVE  IInv'
  <1> USE DEF IInv
  <1>a. /\ nThreadsServicingQueue' = nThreadsServicingQueue /\ callback' = callback
        /\ pending' = pending /\ running' = running /\ scheduled' = scheduled
        /\ adding' = adding /\ fresh' = fresh /\ intr' = intr
        /\ stopRequested' = stopRequested /\ stopWhenEmpty' = stopWhenEmpty
        /\ due' = Append(due, "repeat") /\ later' = FALSE
    BY DEF Tick, stop, flags
  <1>b. due \in Seq({"process", "repeat"})
    BY DEF TypeOK
  <1>c. Moves(pc, pc')
    BY DEF Tick, Moves, Idle, TypeOK, ThreadPc, MainPc
  <1>1. TypeOK'
    <2>1. due' \in Seq({"process", "repeat"})
      BY <1>a, <1>b
    <2>2. pc' \in [Proc -> ThreadPc \cup MainPc] /\ pc'[Main] \in MainPc
      BY <1>c DEF Moves, TypeOK
    <2>3. \A t \in Thread : pc'[t] \in ThreadPc
      BY <1>c DEF Moves, TypeOK, Idle, ThreadPc
    <2> QED
      BY ZenonT(60), <1>a, <2>1, <2>2, <2>3 DEF TypeOK
  <1>2. Busy' = Busy /\ InService' = InService
    BY <1>c DEF Busy, InService, Moves, Idle
  <1>3. Exclusive'
    BY <1>a, <1>c, <1>2 DEF Exclusive, Moves, Idle
  <1>4. Counted'
    BY <1>a, <1>c, <1>2 DEF Counted, Moves, Idle
  <1>5. NothingForgotten'
    BY <1>a, <1>c DEF NothingForgotten, Moves, Idle
  <1>6. OneTask'
    <2>1. {u \in Thread : pc'[u] = "process"} = {u \in Thread : pc[u] = "process"}
      BY <1>c DEF Moves, Idle
    <2>2. {i \in DOMAIN due' : due'[i] = "process"} = {i \in DOMAIN due : due[i] = "process"}
      BY <1>a, <1>b
    <2> QED
      BY ZenonT(60), <1>a, <2>1, <2>2 DEF OneTask
  <1> QED
    BY <1>1, <1>3, <1>4, <1>5, <1>6

\* The repeated task is scheduled again.
LEMMA RepeatPreserves ==
    ASSUME IInv, NEW t \in Thread, Repeat(t)
    PROVE  IInv'
  <1> USE DEF IInv
  <1> DEFINE q == [pc EXCEPT ![t] = "lock"]
  <1>a. /\ nThreadsServicingQueue' = nThreadsServicingQueue /\ callback' = callback
        /\ pending' = pending /\ running' = running /\ scheduled' = scheduled
        /\ adding' = adding /\ fresh' = fresh /\ intr' = intr
        /\ stopRequested' = stopRequested /\ stopWhenEmpty' = stopWhenEmpty
        /\ due' = due /\ later' = TRUE /\ pc[t] = "repeat"
    BY DEF Repeat, stop, flags
  <1>b. q \in [Proc -> ThreadPc \cup MainPc]
    BY DEF TypeOK, ThreadPc
  <1>c. Moves(q, pc')
    BY ZenonT(60), <1>b, NotifyMoves DEF Repeat
  <1>d. /\ pc' \in [Proc -> ThreadPc \cup MainPc] /\ pc'[Main] = pc[Main]
        /\ \A u \in Thread \ {t} : pc'[u] = pc[u] \/ (pc[u] \in Idle /\ pc'[u] \in Idle)
        /\ pc'[t] \in Idle
    BY <1>b, <1>c DEF Moves, Idle, TypeOK
  <1>1. TypeOK'
    BY <1>a, <1>d DEF TypeOK, Idle, ThreadPc
  <1>2. Busy' = Busy /\ InService' = InService
    BY <1>a, <1>d DEF Busy, InService, Idle
  <1>3. Exclusive'
    BY ZenonT(60), <1>a, <1>d, <1>2 DEF Exclusive, Idle
  <1>4. Counted'
    BY <1>a, <1>d, <1>2 DEF Counted, Idle
  <1>5. NothingForgotten'
    BY <1>a, <1>d DEF NothingForgotten, Idle
  <1>6. OneTask'
    <2>1. {u \in Thread : pc'[u] = "process"} = {u \in Thread : pc[u] = "process"}
      BY <1>a, <1>d DEF Idle
    <2> QED
      BY <1>a, <2>1 DEF OneTask
  <1> QED
    BY <1>1, <1>3, <1>4, <1>5, <1>6

\* Shutdown's steps other than taking a callback.
LEMMA MainPreserves ==
    ASSUME IInv, Join \/ EmptyQueue \/ DrainCheck
    PROVE  IInv'
  <1> USE DEF IInv
  <1>a. /\ UNCHANGED <<tasks, stop, nThreadsServicingQueue, pending, flags, callback, adding, fresh, intr>>
        /\ pc \in [Proc -> ThreadPc \cup MainPc]
    BY DEF Join, EmptyQueue, DrainCheck, TypeOK
  <1>b. PICK b \in {"joined", "drain", "done"} :
            /\ pc' = [pc EXCEPT ![Main] = b]
            /\ b = "joined" => pc[Main] = "join" /\ \A t \in Thread : pc[t] = "dead"
            /\ b = "drain" => pc[Main] \in {"joined", "check"}
            /\ b = "done" => pc[Main] = "check" /\ pending = <<>>
    BY ZenonT(60) DEF Join, EmptyQueue, DrainCheck
  <1>c. \A t \in Thread : pc'[t] = pc[t]
    BY <1>a, <1>b
  <1>d. pc[Main] \in {"join", "joined", "check"} /\ pc'[Main] = b
    BY <1>a, <1>b
  <1>1. TypeOK'
    BY <1>a, <1>b, <1>c, <1>d DEF TypeOK, MainPc, tasks, stop, flags
  <1>2. Busy' = Busy /\ InService' = InService
    BY <1>c, <1>d DEF Busy, InService
  <1>3. Exclusive'
    BY <1>a, <1>c, <1>d, <1>2 DEF Exclusive, flags
  <1>4. Counted'
    BY <1>a, <1>b, <1>c, <1>d, <1>2 DEF Counted
  <1>5. NothingForgotten'
    BY <1>a, <1>b, <1>c, <1>d DEF NothingForgotten, flags
  <1>6. OneTask'
    <2>1. {u \in Thread : pc'[u] = "process"} = {u \in Thread : pc[u] = "process"}
      BY <1>c
    <2> QED
      BY ZenonT(60), <1>a, <2>1 DEF OneTask, tasks, flags
  <1> QED
    BY <1>1, <1>3, <1>4, <1>5, <1>6

\* stop() and interrupt_all() move waiting threads back to the loop and Main on.
LEMMA StopPreserves ==
    ASSUME IInv, InterruptAll \/ \E drain \in BOOLEAN : Stop(drain)
    PROVE  IInv'
  <1> USE DEF IInv
  <1>a. /\ UNCHANGED <<tasks, nThreadsServicingQueue, pending, flags, callback, adding, fresh>>
        /\ stopRequested' \in BOOLEAN /\ stopWhenEmpty' \in BOOLEAN /\ intr' \in SUBSET Thread
        /\ pc[Main] \in {"up", "join"}
    BY ZenonT(60) DEF InterruptAll, Stop, stop, TypeOK
  <1>b. /\ pc' \in [Proc -> ThreadPc \cup MainPc] /\ pc'[Main] = "join"
        /\ \A t \in Thread : pc'[t] = pc[t] \/ (pc[t] \in Idle /\ pc'[t] \in Idle)
    <2>1. CASE InterruptAll
      BY ZenonT(60), <2>1 DEF InterruptAll, TypeOK, MainPc
    <2>2. ASSUME NEW drain \in BOOLEAN, Stop(drain)
          PROVE  /\ pc' \in [Proc -> ThreadPc \cup MainPc] /\ pc'[Main] = "join"
                 /\ \A t \in Thread : pc'[t] = pc[t] \/ (pc[t] \in Idle /\ pc'[t] \in Idle)
      BY <2>2 DEF Stop, TypeOK, MainPc, ThreadPc, Idle
    <2> QED
      BY ZenonT(60), <2>1, <2>2
  <1>1. TypeOK'
    <2>1. \A t \in Thread : pc'[t] \in ThreadPc
      BY <1>b DEF TypeOK, Idle, ThreadPc
    <2> QED
      BY ZenonT(60), <1>a, <1>b, <2>1 DEF TypeOK, MainPc, tasks, flags
  <1>2. Busy' = Busy /\ InService' = InService
    BY ZenonT(60), <1>a, <1>b DEF Busy, InService, Idle
  <1>3. Exclusive'
    BY ZenonT(60), <1>a, <1>b, <1>2 DEF Exclusive, flags, Idle
  <1>4. Counted'
    BY <1>a, <1>b, <1>2 DEF Counted
  <1>5. NothingForgotten'
    BY <1>a, <1>b DEF NothingForgotten, flags, Idle
  <1>6. OneTask'
    <2>1. {u \in Thread : pc'[u] = "process"} = {u \in Thread : pc[u] = "process"}
      BY <1>b DEF Idle
    <2> QED
      BY ZenonT(60), <1>a, <2>1 DEF OneTask, tasks, flags
  <1> QED
    BY <1>1, <1>3, <1>4, <1>5, <1>6

\* The invariant is inductive.
LEMMA NextIInv == IInv /\ [Next]_vars => IInv'
  <1> SUFFICES ASSUME IInv, [Next]_vars PROVE IInv'
    OBVIOUS
  <1>1. ASSUME NEW t \in Thread, ServiceQueue(t) PROVE IInv'
    <2>1. CASE Enter(t)
      <3>1. Moves([pc EXCEPT ![t] = "lock"], pc')
        BY <2>1 DEF Enter, Moves, IInv, TypeOK, ThreadPc
      <3> QED
        BY ZenonT(60), <2>1, <3>1, CountStep DEF Enter, tasks, stop, flags, IInv, TypeOK
    <2>2. CASE Loop(t) \/ WaitForTask(t)
      BY <2>2, WaitPreserves DEF Loop, WaitForTask, Idle
    <2>3. CASE Timeout(t)
      BY <2>3, TimeoutPreserves
    <2>4. CASE Repeat(t)
      BY <2>4, RepeatPreserves
    <2>5. CASE ProcessQueue(t)
      BY <2>5, ProcessPreserves
    <2>6. CASE CallbackReturns(t)
      BY <2>6, ReturnPreserves
    <2>7. CASE EndCallback(t)
      BY <2>7, EndPreserves
    <2>8. CASE EndSchedules(t)
      BY <2>8, EndSchedulesPreserves
    <2> QED
      BY <1>1, <2>1, <2>2, <2>3, <2>4, <2>5, <2>6, <2>7, <2>8 DEF ServiceQueue
  <1>2. ASSUME NEW t \in Thread, Spurious(t) PROVE IInv'
    BY ZenonT(60), <1>2, WaitPreserves DEF Spurious, Idle
  <1>3. ASSUME NEW t \in Thread, CallbackThrows(t) PROVE IInv'
    BY <1>3, ReturnPreserves
  <1>4. ASSUME NEW t \in Thread, Interrupted(t) PROVE IInv'
    <2>1. Moves([pc EXCEPT ![t] = "dead"], pc')
      BY ZenonT(60), <1>4 DEF Interrupted, Moves, IInv, TypeOK, ThreadPc
    <2> QED
      BY ZenonT(60), <1>4, <2>1, CountStep
         DEF Interrupted, tasks, stop, flags, IInv, TypeOK, Idle
  <1>5. CASE Tick
    BY <1>5, TickPreserves
  <1>6. ASSUME NEW c \in Callback, AddToProcessQueue(c) PROVE IInv'
    BY <1>6, AddPreserves
  <1>7. CASE AddSchedules
    BY <1>7, AddSchedulesPreserves
  <1>8. CASE InterruptAll \/ \E drain \in BOOLEAN : Stop(drain)
    BY <1>8, StopPreserves
  <1>9. CASE ShutdownStep
    BY <1>9, MainPreserves, DrainOnePreserves, ReturnPreserves, EndPreserves DEF ShutdownStep
  <1>10. CASE UNCHANGED vars
    <2> USE <1>10 DEF vars, tasks, stop, flags
    <2>1. TypeOK' /\ Exclusive'
      BY ZenonT(60) DEF IInv, TypeOK, Exclusive, Busy
    <2>2. OneTask'
      BY ZenonT(60) DEF IInv, OneTask
    <2>3. NothingForgotten' /\ Counted'
      BY ZenonT(60) DEF IInv, NothingForgotten, Counted, InService
    <2> QED BY <2>1, <2>2, <2>3 DEF IInv
  <1> QED
    BY <1>1, <1>2, <1>3, <1>4, <1>5, <1>6, <1>7, <1>8, <1>9, <1>10 DEF Next

\* IInv holds in every reachable state.
THEOREM InvariantHolds == Spec => []IInv
  <1> QED
    BY InitIInv, NextIInv, PTL DEF Spec

\* No field leaves its type: nThreadsServicingQueue never goes below zero.
THEOREM TypeCorrect == Spec => []TypeOK
  <1>1. IInv => TypeOK
    BY DEF IInv
  <1> QED
    BY <1>1, InvariantHolds, PTL

\* m_are_callbacks_scheduled stands for exactly one ProcessQueue task.
THEOREM TaskIsUnique == Spec => []OneTask
  <1>1. IInv => OneTask
    BY DEF IInv
  <1> QED
    BY <1>1, InvariantHolds, PTL

\* A callback that waits is followed by something that will look at it.
THEOREM NothingIsForgotten == Spec => []NothingForgotten
  <1>1. IInv => NothingForgotten
    BY DEF IInv
  <1> QED
    BY <1>1, InvariantHolds, PTL

-----------------------------------------------------------------------------
(* The refinement of SerialQueue.                                          *)

\* The threads that run a callback.
Runs == {t \in Proc : pc[t] = "callback"}

\* The steps of SerialQueue that a step of this module may be.
SerialStep == [Serial!Next]_(Serial!vars)

\* A step that starts and ends no callback and adds none is a stuttering step.
LEMMA Stutters ==
    ASSUME Runs' = Runs, callback' = callback, pending' = pending, fresh' = fresh
    PROVE  SerialStep
  BY ZenonT(60) DEF Runs, SerialStep, Serial!vars

\* The scheduler's own steps start and end no callback.
LEMMA SchedulerStutters ==
    ASSUME IInv, NEW t \in Thread,
           Enter(t) \/ Loop(t) \/ WaitForTask(t) \/ Timeout(t) \/ Repeat(t)
               \/ Spurious(t) \/ Interrupted(t)
    PROVE  SerialStep
  <1> USE DEF IInv
  <1>a. callback' = callback /\ pending' = pending /\ fresh' = fresh
    BY ZenonT(60)
       DEF Enter, Loop, WaitForTask, Timeout, Repeat, Spurious, Interrupted, Leave, WaitForFirst
  <1>b. pc[t] # "callback" /\ pc \in [Proc -> ThreadPc \cup MainPc]
    BY ZenonT(60) DEF Enter, Loop, WaitForTask, Timeout, Repeat, Spurious, Interrupted, TypeOK
  <1>c. due # <<>> => Head(due) \in {"process", "repeat"}
    BY DEF TypeOK
  <1>1. \E b \in ThreadPc \ {"callback"} : Moves([pc EXCEPT ![t] = b], pc')
    <2>1. ASSUME NEW b \in ThreadPc \ {"callback"}, pc' = [pc EXCEPT ![t] = b]
          PROVE  Moves([pc EXCEPT ![t] = b], pc')
      BY <1>b, <2>1 DEF Moves
    <2>2. ASSUME NEW b \in ThreadPc \ {"callback"}, NotifyOne([pc EXCEPT ![t] = b], pc')
          PROVE  Moves([pc EXCEPT ![t] = b], pc')
      <3>1. [pc EXCEPT ![t] = b] \in [Proc -> ThreadPc \cup MainPc]
        BY <1>b
      <3> QED
        BY ZenonT(60), <2>2, <3>1, NotifyMoves
    <2>3. \/ \E b \in ThreadPc \ {"callback"} : pc' = [pc EXCEPT ![t] = b]
          \/ \E b \in ThreadPc \ {"callback"} : NotifyOne([pc EXCEPT ![t] = b], pc')
      BY ZenonT(60), <1>c
         DEF Enter, Loop, WaitForTask, Timeout, Repeat, Spurious, Interrupted, Leave,
                  WaitForFirst, ThreadPc
    <2> QED
      BY <2>1, <2>2, <2>3
  <1>2. Runs' = Runs
    BY <1>b, <1>1 DEF Runs, Moves, Idle
  <1> QED
    BY <1>a, <1>2, Stutters

\* Where nothing runs, ProcessQueue and EmptyQueue begin the oldest callback.
LEMMA TakeIsBegin ==
    ASSUME IInv, NEW t \in Proc, pc[t] \in {"process", "drain"}, fresh' = fresh,
           \E b \in {"lock", "check"} : TakeCallback(t, b)
    PROVE  SerialStep
  <1> USE DEF IInv
  <1>a. pc \in [Proc -> ThreadPc \cup MainPc] /\ callback \in [Proc -> Callback \cup {None}]
    BY DEF TypeOK
  <1>1. CASE running \/ pending = <<>>
    <2>1. PICK b \in {"lock", "check"} : pc' = [pc EXCEPT ![t] = b] /\ pending' = pending /\ callback' = callback
      BY <1>1 DEF TakeCallback
    <2>2. Runs' = Runs
      BY <1>a, <2>1 DEF Runs
    <2> QED
      BY <2>1, <2>2, Stutters
  <1>2. CASE ~(running \/ pending = <<>>)
    <2>1. /\ pc' = [pc EXCEPT ![t] = "callback"] /\ pending' = Tail(pending)
          /\ callback' = [callback EXCEPT ![t] = Head(pending)]
      BY <1>2 DEF TakeCallback
    <2>2. Runs = {}
      BY ZenonT(60), <1>2 DEF Exclusive, Busy, Runs
    <2>3. Runs' = {t}
      BY <1>a, <2>1, <2>2 DEF Runs
    <2>4. callback'[t] = Head(pending)
      BY <1>a, <2>1
    <2>5. Serial!Begin
      BY <1>2, <2>1, <2>2, <2>3, <2>4 DEF Serial!Begin, Runs
    <2> QED
      BY <2>5 DEF SerialStep, Serial!Next
  <1> QED
    BY <1>1, <1>2

\* A callback that returns or throws ends: it was the only one.
LEMMA ReturnIsEnd ==
    ASSUME IInv, NEW t \in Proc, CallbackReturns(t) \/ CallbackThrows(t)
    PROVE  SerialStep
  <1> USE DEF IInv
  <1>a. /\ pc[t] = "callback" /\ pending' = pending /\ fresh' = fresh
        /\ \E b \in {"end", "throwEnd"} : pc' = [pc EXCEPT ![t] = b]
        /\ pc \in [Proc -> ThreadPc \cup MainPc]
    BY ZenonT(60) DEF CallbackReturns, CallbackThrows, TypeOK
  <1>1. Runs = {t}
    <2>1. \A u \in Proc : pc[u] = "callback" => u = t
      BY ZenonT(60), <1>a DEF Exclusive, Busy
    <2> QED BY ZenonT(60), <1>a, <2>1 DEF Runs
  <1>2. Runs' = {}
    BY <1>a, <1>1 DEF Runs
  <1>3. PICK c \in Callback : c = callback[t]
    BY <1>a DEF Exclusive
  <1>4. Serial!End(c)
    <2>1. {callback[u] : u \in Runs} = {c} /\ {callback'[u] : u \in Runs'} = {}
      BY ZenonT(60), <1>1, <1>2, <1>3
    <2> QED BY ZenonT(60), <1>a, <2>1 DEF Serial!End, Runs
  <1> QED
    BY <1>4 DEF SerialStep, Serial!Next

\* Every step is a step of SerialQueue or changes nothing of it.
LEMMA NextRefines == IInv /\ [Next]_vars => SerialStep
  <1> SUFFICES ASSUME IInv, [Next]_vars PROVE SerialStep
    OBVIOUS
  <1>a. pc \in [Proc -> ThreadPc \cup MainPc]
    BY DEF IInv, TypeOK
  <1>1. ASSUME NEW t \in Thread, ServiceQueue(t) PROVE SerialStep
    <2>1. CASE Enter(t) \/ Loop(t) \/ WaitForTask(t) \/ Timeout(t) \/ Repeat(t)
      BY <2>1, SchedulerStutters
    <2>2. CASE ProcessQueue(t)
      BY <2>2, TakeIsBegin DEF ProcessQueue
    <2>3. CASE CallbackReturns(t)
      BY <2>3, ReturnIsEnd
    <2>4. CASE EndCallback(t)
      <3>1. \E b \in {"check", "maybe", "throwMaybe"} : pc' = [pc EXCEPT ![t] = b]
        BY ZenonT(60), <2>4 DEF EndCallback
      <3>2. Runs' = Runs
        BY <1>a, <2>4, <3>1 DEF Runs, EndCallback
      <3> QED
        BY <2>4, <3>2, Stutters DEF EndCallback
    <2>5. CASE EndSchedules(t)
      <3> DEFINE q == [pc EXCEPT ![t] = IF @ = "maybe" THEN "lock" ELSE "dead"]
      <3>1. /\ pc[t] # "callback" /\ q \in [Proc -> ThreadPc \cup MainPc] /\ q[t] \in {"lock", "dead"}
            /\ \A u \in Proc : u # t => q[u] = pc[u]
            /\ \A u \in Thread : q[u] = "process" <=> pc[u] = "process"
        BY <1>a, <2>5 DEF EndSchedules, ThreadPc
      <3>2. MaybeScheduleProcessQueue(q) /\ running' = running /\ pending' = pending
        BY <2>5 DEF EndSchedules
      <3> HIDE DEF q
      <3>3. Moves(q, pc')
        BY ZenonT(60), <3>1, <3>2, MaybeSchedules
      <3>4. Runs' = Runs
        BY <1>a, <3>1, <3>3 DEF Runs, Moves, Idle
      <3> QED
        BY <2>5, <3>4, Stutters DEF EndSchedules
    <2> QED
      BY <1>1, <2>1, <2>2, <2>3, <2>4, <2>5 DEF ServiceQueue
  <1>2. ASSUME NEW t \in Thread, Spurious(t) \/ Interrupted(t) PROVE SerialStep
    BY <1>2, SchedulerStutters
  <1>3. ASSUME NEW t \in Thread, CallbackThrows(t) PROVE SerialStep
    BY <1>3, ReturnIsEnd
  <1>4. CASE Tick
    <2>1. Runs' = Runs
      BY <1>a, <1>4 DEF Tick, Runs
    <2> QED
      BY <1>4, <2>1, Stutters DEF Tick
  <1>5. ASSUME NEW c \in Callback, AddToProcessQueue(c) PROVE SerialStep
    <2>1. Serial!Add(c)
      BY <1>5 DEF AddToProcessQueue, Serial!Add
    <2> QED
      BY <2>1 DEF SerialStep, Serial!Next
  <1>6. CASE AddSchedules
    <2>1. Moves(pc, pc')
      BY ZenonT(60), <1>a, <1>6, MaybeSchedules DEF AddSchedules
    <2>2. Runs' = Runs
      BY <2>1 DEF Runs, Moves, Idle
    <2> QED
      BY <1>6, <2>2, Stutters DEF AddSchedules
  <1>7. CASE InterruptAll \/ \E drain \in BOOLEAN : Stop(drain)
    <2>1. Runs' = Runs
      BY <1>a, <1>7 DEF InterruptAll, Stop, Runs
    <2> QED
      BY <1>7, <2>1, Stutters DEF InterruptAll, Stop
  <1>8. CASE ShutdownStep
    <2>1. CASE Join \/ EmptyQueue \/ DrainCheck \/ EndCallback(Main)
      <3>1. \E b \in {"joined", "drain", "done", "check"} : pc' = [pc EXCEPT ![Main] = b] /\ pc[Main] # "callback"
        BY ZenonT(60), <2>1 DEF Join, EmptyQueue, DrainCheck, EndCallback
      <3>2. Runs' = Runs
        BY <1>a, <3>1 DEF Runs
      <3> QED
        BY ZenonT(60), <2>1, <3>2, Stutters DEF Join, EmptyQueue, DrainCheck, EndCallback
    <2>2. CASE DrainOne
      BY <2>2, TakeIsBegin DEF DrainOne
    <2>3. CASE CallbackReturns(Main)
      BY <2>3, ReturnIsEnd
    <2> QED
      BY <1>8, <2>1, <2>2, <2>3 DEF ShutdownStep
  <1>9. CASE UNCHANGED vars
    BY <1>9, Stutters DEF vars, Runs
  <1> QED
    BY <1>1, <1>2, <1>3, <1>4, <1>5, <1>6, <1>7, <1>8, <1>9 DEF Next

\* The scheduler and its client implement SerialQueue: callbacks run one at a
\* time, in the order in which they were added, and none is skipped.
THEOREM CallbacksAreSerial == Spec => Refines
  <1>1. Init => Serial!Init
    BY ZenonT(60) DEF Init, Serial!Init
  <1> QED
    BY <1>1, InvariantHolds, NextRefines, PTL DEF Spec, Refines, Serial!Spec, SerialStep

\* EmptyQueue runs with no scheduler thread in service, and returns with
\* nothing left.
THEOREM DrainIsComplete == Spec => DrainComplete
  <1> DEFINE DrainStep ==
        /\ pc'[Main] = "drain" => nThreadsServicingQueue' = 0
        /\ pc[Main] = "check" /\ pc'[Main] = "done" => pending = <<>> /\ ~running
  <1>1. IInv /\ IInv' /\ [Next]_vars => [DrainStep]_vars
    <2> SUFFICES ASSUME IInv, IInv', Next PROVE DrainStep
      OBVIOUS
    <2>1. ASSUME pc'[Main] = "drain" PROVE nThreadsServicingQueue' = 0
      <3>1. InService' = {}
        BY <2>1 DEF IInv, Counted, InService
      <3> QED
        BY ZenonT(60), <3>1, FS_EmptySet DEF IInv, Counted
    <2>2. ASSUME pc[Main] = "check", pc'[Main] = "done" PROVE pending = <<>> /\ ~running
      <3>1. Busy = {}
        BY <2>2 DEF Busy, IInv, Counted
      <3>2. ~running
        BY <3>1 DEF IInv, Exclusive
      <3>3. pending = <<>>
        <4>1. CASE DrainCheck
          BY <2>2, <4>1 DEF DrainCheck, IInv, TypeOK
        <4>2. \A t \in Thread : pc[t] = "dead"
          BY ZenonT(60), <2>2 DEF IInv, Counted
        <4>3. ~(\E t \in Thread : ServiceQueue(t) \/ Spurious(t) \/ CallbackThrows(t) \/ Interrupted(t))
          BY ZenonT(60), <4>2
             DEF ServiceQueue, Enter, Loop, WaitForTask, Timeout, Repeat, ProcessQueue, CallbackReturns,
                      EndCallback, EndSchedules, Spurious, CallbackThrows, Interrupted
        <4>4. ~(InterruptAll \/ \E drain \in BOOLEAN : Stop(drain))
          BY <2>2 DEF InterruptAll, Stop
        <4>5. ~Tick /\ ~(\E c \in Callback : AddToProcessQueue(c))
          BY ZenonT(60), <2>2 DEF Tick, AddToProcessQueue, IInv, TypeOK
        <4>6. ~AddSchedules
          <5> SUFFICES ASSUME AddSchedules PROVE FALSE
            OBVIOUS
          <5>1. Moves(pc, pc')
            BY ZenonT(60), MaybeSchedules DEF AddSchedules, IInv, TypeOK
          <5> QED
            BY <2>2, <5>1 DEF Moves
        <4>7. ~(Join \/ EmptyQueue \/ DrainOne \/ CallbackReturns(Main) \/ EndCallback(Main))
          BY <2>2 DEF Join, EmptyQueue, DrainOne, CallbackReturns, EndCallback
        <4> QED
          BY <4>1, <4>3, <4>4, <4>5, <4>6, <4>7 DEF Next, ShutdownStep
      <3> QED
        BY <3>2, <3>3
    <2> QED
      BY <2>1, <2>2
  <1>2. Spec => [][DrainStep]_vars
    BY <1>1, InvariantHolds, PTL DEF Spec
  <1> QED
    BY <1>2 DEF DrainComplete
=============================================================================
