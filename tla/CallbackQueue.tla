---------------------------- MODULE CallbackQueue ----------------------------
(***************************************************************************)
(* CScheduler and SingleThreadedSchedulerClient (scheduler.cpp), through   *)
(* which every background signal of validationinterface.cpp is delivered,  *)
(* and the part of Shutdown (init.cpp) that stops the scheduler threads    *)
(* and drains the queue.                                                   *)
(*                                                                         *)
(* One action per critical section of newTaskMutex or                      *)
(* m_cs_callbacks_pending; schedule() is called with the second held and   *)
(* takes the first inside it.  The multimap taskQueue is kept in time      *)
(* order as the sequence of tasks whose time has come, `due`, and `later`: *)
(* the task installed by scheduleEvery waits for its time.  A task         *)
(* "process" is a call of ProcessQueue, "repeat" is Repeat.                *)
(***************************************************************************)
EXTENDS Integers, Sequences, FiniteSets

CONSTANTS
    Thread,    \* threads running serviceQueue
    Callback,  \* callbacks that may be added, each once
    Main,      \* the thread that runs Shutdown
    None

ASSUME CallbackQueueAssumption ==
    /\ IsFiniteSet(Thread)
    /\ Main \notin Thread
    /\ None \notin Callback

VARIABLES
    due,            \* taskQueue: tasks whose time has come, earliest first
    later,          \* taskQueue: the repeated task waits for its time
    stopRequested,
    stopWhenEmpty,
    nThreadsServicingQueue,
    pending,        \* m_callbacks_pending
    running,        \* m_are_callbacks_running
    scheduled,      \* m_are_callbacks_scheduled
    pc,
    callback,       \* the callback a thread took from the queue
    adding,         \* callers between the two halves of AddToProcessQueue
    fresh,          \* callbacks that have not been added
    intr            \* threads with a pending boost interruption

stop  == <<stopRequested, stopWhenEmpty>>
tasks == <<due, later>>
flags == <<running, scheduled>>
vars == <<tasks, stop, nThreadsServicingQueue, pending, flags, pc, callback,
          adding, fresh, intr>>

Proc == Thread \cup {Main}

ThreadPc == {"start", "lock", "seed", "wait", "timed", "timeout", "process", "repeat",
             "callback", "end", "maybe", "throwEnd", "throwMaybe", "dead"}
MainPc == {"up", "join", "joined", "drain", "callback", "end", "check", "done"}

TypeOK ==
    /\ due \in Seq({"process", "repeat"})
    /\ later \in BOOLEAN
    /\ stopRequested \in BOOLEAN /\ stopWhenEmpty \in BOOLEAN
    /\ nThreadsServicingQueue \in Nat
    /\ pending \in Seq(Callback)
    /\ running \in BOOLEAN /\ scheduled \in BOOLEAN
    /\ pc \in [Proc -> ThreadPc \cup MainPc]
    /\ \A t \in Thread : pc[t] \in ThreadPc
    /\ pc[Main] \in MainPc
    /\ callback \in [Proc -> Callback \cup {None}]
    /\ adding \in Nat
    /\ fresh \in SUBSET Callback
    /\ intr \in SUBSET Thread

Init ==
    /\ due = <<>> /\ later = TRUE
    /\ stopRequested = FALSE /\ stopWhenEmpty = FALSE
    /\ nThreadsServicingQueue = 0
    /\ pending = <<>> /\ running = FALSE /\ scheduled = FALSE
    /\ pc = [t \in Proc |-> IF t = Main THEN "up" ELSE "start"]
    /\ callback = [t \in Proc |-> None]
    /\ adding = 0 /\ fresh = Callback
    /\ intr = {}

-----------------------------------------------------------------------------
(* CScheduler.                                                             *)

taskQueueEmpty == due = <<>> /\ ~later
shouldStop == stopRequested \/ (stopWhenEmpty /\ taskQueueEmpty)

\* newTaskScheduled.notify_one(): p is the state of the threads when the
\* notification finds them in q.  A notified thread goes back to the loop.
NotifyOne(q, p) ==
    LET waiters == {t \in Thread : q[t] \in {"wait", "timed", "timeout"}} IN
    \/ waiters = {} /\ p = q
    \/ \E t \in waiters : p = [q EXCEPT ![t] = IF q[t] = "wait" THEN "seed" ELSE "lock"]

\* The thread enters serviceQueue.
Enter(t) ==
    /\ pc[t] = "start"
    /\ nThreadsServicingQueue' = nThreadsServicingQueue + 1
    /\ pc' = [pc EXCEPT ![t] = "lock"]
    /\ UNCHANGED <<tasks, stop, pending, flags, callback, adding, fresh, intr>>

\* Leave the loop: the count goes down and the next thread is told.
Leave(t) ==
    /\ shouldStop
    /\ nThreadsServicingQueue' = nThreadsServicingQueue - 1
    /\ NotifyOne([pc EXCEPT ![t] = "dead"], pc')
    /\ UNCHANGED <<tasks, stop, pending, flags, callback, adding, fresh, intr>>

\* wait_until the time of the first task, which may have passed already.
WaitForFirst(t) ==
    /\ ~shouldStop /\ ~taskQueueEmpty
    /\ pc' = [pc EXCEPT ![t] = IF due # <<>> THEN "timeout" ELSE "timed"]
    /\ UNCHANGED <<tasks, stop, nThreadsServicingQueue, pending, flags, callback, adding, fresh, intr>>

\* The head of the loop, which is also where an early return of wait_until
\* ends up; with no task the thread first collects entropy, unlocked.
Loop(t) ==
    /\ pc[t] = "lock"
    /\ \/ Leave(t)
       \/ WaitForFirst(t)
       \/ /\ ~shouldStop /\ taskQueueEmpty
          /\ pc' = [pc EXCEPT ![t] = "seed"]
          /\ UNCHANGED <<tasks, stop, nThreadsServicingQueue, pending, flags, callback, adding, fresh, intr>>

\* After RandAddSeedSleep, and after a return of newTaskScheduled.wait.
WaitForTask(t) ==
    /\ pc[t] = "seed"
    /\ \/ Leave(t)
       \/ WaitForFirst(t)
       \/ /\ ~shouldStop /\ taskQueueEmpty
          /\ pc' = [pc EXCEPT ![t] = "wait"]
          /\ UNCHANGED <<tasks, stop, nThreadsServicingQueue, pending, flags, callback, adding, fresh, intr>>

\* wait_until has timed out: take the first task, whatever its time is by now.
Timeout(t) ==
    /\ pc[t] = "timeout" /\ t \notin intr
    /\ \/ Leave(t)
       \/ /\ ~shouldStop /\ taskQueueEmpty
          /\ pc' = [pc EXCEPT ![t] = "lock"]
          /\ UNCHANGED <<tasks, stop, nThreadsServicingQueue, pending, flags, callback, adding, fresh, intr>>
       \/ /\ ~shouldStop /\ ~taskQueueEmpty
          /\ IF due # <<>>
             THEN /\ pc' = [pc EXCEPT ![t] = Head(due)]
                  /\ due' = Tail(due) /\ UNCHANGED later
             ELSE /\ pc' = [pc EXCEPT ![t] = "repeat"]
                  /\ later' = FALSE /\ UNCHANGED due
          /\ UNCHANGED <<stop, nThreadsServicingQueue, pending, flags, callback, adding, fresh, intr>>

\* The time of the repeated task comes, and with it the deadline of the
\* threads that wait for it.
Tick ==
    /\ later
    /\ later' = FALSE
    /\ due' = Append(due, "repeat")
    /\ pc' = [t \in Proc |-> IF pc[t] = "timed" THEN "timeout" ELSE pc[t]]
    /\ UNCHANGED <<stop, nThreadsServicingQueue, pending, flags, callback, adding, fresh, intr>>

\* Repeat: the task has run and schedules itself again.
Repeat(t) ==
    /\ pc[t] = "repeat"
    /\ later' = TRUE
    /\ NotifyOne([pc EXCEPT ![t] = "lock"], pc')
    /\ UNCHANGED <<due, stop, nThreadsServicingQueue, pending, flags, callback, adding, fresh, intr>>

\* A wait on newTaskScheduled returns without a notification.
Spurious(t) ==
    /\ pc[t] \in {"wait", "timed"}
    /\ pc' = [pc EXCEPT ![t] = IF @ = "wait" THEN "seed" ELSE "lock"]
    /\ UNCHANGED <<tasks, stop, nThreadsServicingQueue, pending, flags, callback, adding, fresh, intr>>

-----------------------------------------------------------------------------
(* SingleThreadedSchedulerClient.                                          *)

\* MaybeScheduleProcessQueue, by a thread whose return puts the threads in q.
\* The task is due now: after the tasks that are due, before the later one.
MaybeScheduleProcessQueue(q) ==
    IF running \/ scheduled \/ pending = <<>>
    THEN pc' = q /\ UNCHANGED <<due, scheduled>>
    ELSE /\ scheduled' = TRUE
         /\ due' = Append(due, "process")
         /\ NotifyOne(q, pc')

\* AddToProcessQueue, first half.  Until the threads are joined any thread of
\* the node may call it; afterwards only Main does, outside EmptyQueue.
AddToProcessQueue(c) ==
    /\ c \in fresh
    /\ pc[Main] \in {"up", "join", "joined", "done"}
    /\ pending' = Append(pending, c)
    /\ fresh' = fresh \ {c}
    /\ adding' = adding + 1
    /\ UNCHANGED <<tasks, stop, nThreadsServicingQueue, flags, pc, callback, intr>>

\* AddToProcessQueue, second half.
AddSchedules ==
    /\ adding > 0
    /\ adding' = adding - 1
    /\ MaybeScheduleProcessQueue(pc)
    /\ UNCHANGED <<later, stop, nThreadsServicingQueue, pending, running, callback, fresh, intr>>

\* Fault: the callback that was added last is taken first.
TakeCallback_Last(t, otherwise) ==
    IF running \/ pending = <<>>
    THEN /\ pc' = [pc EXCEPT ![t] = otherwise]
         /\ UNCHANGED <<running, pending, callback>>
    ELSE /\ running' = TRUE
         /\ callback' = [callback EXCEPT ![t] = pending[Len(pending)]]
         /\ pending' = SubSeq(pending, 1, Len(pending) - 1)
         /\ pc' = [pc EXCEPT ![t] = "callback"]

\* The first critical section of ProcessQueue, after the flag is reset.
TakeCallback(t, otherwise) ==
    IF running \/ pending = <<>>
    THEN /\ pc' = [pc EXCEPT ![t] = otherwise]
         /\ UNCHANGED <<running, pending, callback>>
    ELSE /\ running' = TRUE
         /\ callback' = [callback EXCEPT ![t] = Head(pending)]
         /\ pending' = Tail(pending)
         /\ pc' = [pc EXCEPT ![t] = "callback"]

\* ProcessQueue(true), called as a task of the scheduler.
ProcessQueue(t) ==
    /\ pc[t] = "process"
    /\ scheduled' = FALSE
    /\ TakeCallback(t, "lock")
    /\ UNCHANGED <<tasks, stop, nThreadsServicingQueue, adding, fresh, intr>>

\* callback() returns.
CallbackReturns(t) ==
    /\ pc[t] = "callback"
    /\ pc' = [pc EXCEPT ![t] = "end"]
    /\ callback' = [callback EXCEPT ![t] = None]
    /\ UNCHANGED <<tasks, stop, nThreadsServicingQueue, pending, flags, adding, fresh, intr>>

\* callback() throws thread_interrupted: the destructor still runs.
CallbackThrows(t) ==
    /\ pc[t] = "callback" /\ t \in intr
    /\ pc' = [pc EXCEPT ![t] = "throwEnd"]
    /\ callback' = [callback EXCEPT ![t] = None]
    /\ intr' = intr \ {t}
    /\ UNCHANGED <<tasks, stop, nThreadsServicingQueue, pending, flags, adding, fresh>>

\* Fault: an exception of the callback leaves the flag set.
EndCallback_NotOnThrow(t) ==
    /\ pc[t] \in {"end", "throwEnd"}
    /\ running' = (pc[t] = "throwEnd")
    /\ pc' = [pc EXCEPT ![t] = IF t = Main THEN "check" ELSE IF @ = "end" THEN "maybe" ELSE "throwMaybe"]
    /\ UNCHANGED <<tasks, stop, nThreadsServicingQueue, pending, scheduled, callback, adding, fresh, intr>>

\* ~RAIICallbacksRunning, first half.
EndCallback(t) ==
    /\ pc[t] \in {"end", "throwEnd"}
    /\ running' = FALSE
    /\ pc' = [pc EXCEPT ![t] = IF t = Main THEN "check" ELSE IF @ = "end" THEN "maybe" ELSE "throwMaybe"]
    /\ UNCHANGED <<tasks, stop, nThreadsServicingQueue, pending, scheduled, callback, adding, fresh, intr>>

\* Fault: the callbacks that arrived meanwhile are not scheduled.
EndSchedules_Forget(t) ==
    /\ pc[t] \in {"maybe", "throwMaybe"}
    /\ pc' = [pc EXCEPT ![t] = IF @ = "maybe" THEN "lock" ELSE "dead"]
    /\ nThreadsServicingQueue' = nThreadsServicingQueue - (IF pc[t] = "maybe" THEN 0 ELSE 1)
    /\ UNCHANGED <<tasks, stop, pending, flags, callback, adding, fresh, intr>>

\* ~RAIICallbacksRunning, second half; an exception then leaves serviceQueue.
EndSchedules(t) ==
    /\ pc[t] \in {"maybe", "throwMaybe"}
    /\ MaybeScheduleProcessQueue([pc EXCEPT ![t] = IF @ = "maybe" THEN "lock" ELSE "dead"])
    /\ nThreadsServicingQueue' = nThreadsServicingQueue - (IF pc[t] = "maybe" THEN 0 ELSE 1)
    /\ UNCHANGED <<later, stop, pending, running, callback, adding, fresh, intr>>

-----------------------------------------------------------------------------
(* Stopping.                                                               *)

\* CScheduler::stop(drain), which ends in notify_all().
Stop(drain) ==
    /\ pc[Main] = "up"
    /\ stopRequested' = (stopRequested \/ ~drain)
    /\ stopWhenEmpty' = (stopWhenEmpty \/ drain)
    /\ pc' = [t \in Proc |->
                 IF t = Main THEN "join"
                 ELSE CASE pc[t] = "wait" -> "seed"
                        [] pc[t] \in {"timed", "timeout"} -> "lock"
                        [] OTHER -> pc[t]]
    /\ UNCHANGED <<tasks, nThreadsServicingQueue, pending, flags, callback, adding, fresh, intr>>

\* Shutdown: threadGroup.interrupt_all().
InterruptAll ==
    /\ pc[Main] = "up" \/ (pc[Main] = "join" /\ intr = {})
    /\ intr' = {t \in Thread : pc[t] # "dead"}
    /\ pc' = [pc EXCEPT ![Main] = "join"]
    /\ UNCHANGED <<tasks, stop, nThreadsServicingQueue, pending, flags, callback, adding, fresh>>

\* A wait or a sleep throws thread_interrupted out of serviceQueue.
Interrupted(t) ==
    /\ t \in intr /\ pc[t] \in {"seed", "wait", "timed", "timeout"}
    /\ intr' = intr \ {t}
    /\ nThreadsServicingQueue' = nThreadsServicingQueue - 1
    /\ pc' = [pc EXCEPT ![t] = "dead"]
    /\ UNCHANGED <<tasks, stop, pending, flags, callback, adding, fresh>>

\* Shutdown: threadGroup.join_all().
Join ==
    /\ pc[Main] = "join" /\ \A t \in Thread : pc[t] = "dead"
    /\ pc' = [pc EXCEPT ![Main] = "joined"]
    /\ UNCHANGED <<tasks, stop, nThreadsServicingQueue, pending, flags, callback, adding, fresh, intr>>

\* FlushBackgroundCallbacks, once nobody else is left to add a callback.
EmptyQueue ==
    /\ pc[Main] = "joined" /\ adding = 0
    /\ pc' = [pc EXCEPT ![Main] = "drain"]
    /\ UNCHANGED <<tasks, stop, nThreadsServicingQueue, pending, flags, callback, adding, fresh, intr>>

\* EmptyQueue calls ProcessQueue(false).
DrainOne ==
    /\ pc[Main] = "drain"
    /\ TakeCallback(Main, "check")
    /\ UNCHANGED <<tasks, stop, nThreadsServicingQueue, scheduled, adding, fresh, intr>>

\* Fault: the queue is taken to be empty after one callback.
DrainCheck_Once ==
    /\ pc[Main] = "check"
    /\ pc' = [pc EXCEPT ![Main] = "done"]
    /\ UNCHANGED <<tasks, stop, nThreadsServicingQueue, pending, flags, callback, adding, fresh, intr>>

\* EmptyQueue goes on while there are callbacks.
DrainCheck ==
    /\ pc[Main] = "check"
    /\ pc' = [pc EXCEPT ![Main] = IF pending = <<>> THEN "done" ELSE "drain"]
    /\ UNCHANGED <<tasks, stop, nThreadsServicingQueue, pending, flags, callback, adding, fresh, intr>>

-----------------------------------------------------------------------------
\* What a scheduler thread does when it gets the processor.
ServiceQueue(t) ==
    \/ Enter(t) \/ Loop(t) \/ WaitForTask(t) \/ Timeout(t) \/ Repeat(t)
    \/ ProcessQueue(t) \/ CallbackReturns(t) \/ EndCallback(t) \/ EndSchedules(t)

\* What is left of Shutdown once it has begun.
ShutdownStep ==
    \/ Join \/ EmptyQueue \/ DrainOne \/ DrainCheck
    \/ CallbackReturns(Main) \/ EndCallback(Main)

Next ==
    \/ \E t \in Thread : ServiceQueue(t) \/ Spurious(t) \/ CallbackThrows(t) \/ Interrupted(t)
    \/ Tick
    \/ \E c \in Callback : AddToProcessQueue(c)
    \/ AddSchedules
    \/ \E drain \in BOOLEAN : Stop(drain)
    \/ InterruptAll
    \/ ShutdownStep

\* Threads run, an interruption is noticed, and Shutdown goes on to its end;
\* after stop() it interrupts the threads as well.
Fairness ==
    /\ \A t \in Thread : WF_vars(ServiceQueue(t)) /\ WF_vars(Interrupted(t))
    /\ WF_vars(AddSchedules)
    /\ WF_vars(pc[Main] = "join" /\ InterruptAll)
    /\ WF_vars(ShutdownStep)

Spec == Init /\ [][Next]_vars /\ Fairness

-----------------------------------------------------------------------------
(* Properties.                                                             *)

\* "no two jobs will be executed at the same time" (scheduler.h:91), and
\* "all callbacks happen in-order" (validationinterface.cpp:37): however many
\* threads service the scheduler, and through a shutdown, an exception and the
\* drain by another thread, the queue is a SerialQueue.
Serial == INSTANCE SerialQueue WITH
    fresh <- fresh,
    waiting <- pending,
    active <- {callback[t] : t \in {u \in Proc : pc[u] = "callback"}}
Refines == Serial!Spec

\* A ProcessQueue task is outstanding exactly while m_are_callbacks_scheduled
\* is set, and there is never a second one (scheduler.cpp:150-173).
OneTask ==
    LET queued == {i \in DOMAIN due : due[i] = "process"}
        taken == {t \in Thread : pc[t] = "process"}
    IN  /\ scheduled <=> queued \cup taken # {}
        /\ \A i, j \in queued : i = j
        /\ \A t, u \in taken : t = u
        /\ queued = {} \/ taken = {}

\* No callback is forgotten: one that waits is followed by a running callback,
\* an outstanding task, or a caller that is about to schedule one; only
\* EmptyQueue, which looks at the queue itself, does without
\* (scheduler.cpp:175-201).
NothingForgotten ==
    pending # <<>> =>
        \/ running \/ scheduled \/ adding > 0
        \/ \E t \in Thread : pc[t] \in {"maybe", "throwMaybe"}
        \/ pc[Main] \in {"drain", "check"}

\* EmptyQueue starts only when no thread is counted as servicing the queue, as
\* it asserts, and returns with nothing waiting or running
\* (scheduler.cpp:204-212, init.cpp:258-260).
DrainComplete ==
    [][/\ pc'[Main] = "drain" => nThreadsServicingQueue' = 0
       /\ pc[Main] = "check" /\ pc'[Main] = "done" => pending = <<>> /\ ~running]_vars

\* Every callback added before the queue has been drained for good runs, in
\* the end, to its end: the scheduler threads and the drain at shutdown leave
\* no gap between them (scheduler.cpp, init.cpp:232-260).
AllRun ==
    \A c \in Callback :
        pc[Main] # "done" /\ c \in {pending[i] : i \in DOMAIN pending}
            ~> c \notin fresh /\ c \notin {pending[i] : i \in DOMAIN pending}
               /\ \A t \in Proc : callback[t] # c

\* "Call func at/after time t" (scheduler.h:46): the repeated task does not
\* start before its time.
NotBeforeTime ==
    [][(\E t \in Thread : pc[t] # "repeat" /\ pc'[t] = "repeat") => ~later]_vars

-----------------------------------------------------------------------------
(* The inductive invariant behind the safety properties.                   *)

\* The threads between taking a callback and resetting m_are_callbacks_running.
Busy == {t \in Proc : pc[t] \in {"callback", "end", "throwEnd"}}

\* The flag stands for the one thread that runs a callback.
Exclusive ==
    /\ running <=> Busy # {}
    /\ \A t, u \in Busy : t = u
    /\ \A t \in Proc : pc[t] = "callback" => callback[t] \in Callback

\* The threads counted by nThreadsServicingQueue.
InService == {t \in Thread : pc[t] \notin {"start", "dead"}}

Counted ==
    /\ nThreadsServicingQueue = Cardinality(InService)
    /\ pc[Main] \notin {"up", "join"} => \A t \in Thread : pc[t] = "dead"

IInv == TypeOK /\ Exclusive /\ OneTask /\ NothingForgotten /\ Counted
=============================================================================
