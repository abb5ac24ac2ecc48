------------------------------ MODULE CheckQueue ------------------------------
(***************************************************************************)
(* The script-verification queue of checkqueue.h: N-1 worker threads in    *)
(* CCheckQueue::Loop, and master threads that take ControlMutex (through   *)
(* CCheckQueueControl), add batches of checks and then join the pool in    *)
(* Wait() until every check has completed.                                 *)
(*                                                                         *)
(* Each critical section of `mutex` is one action; a thread blocked on     *)
(* condWorker or condMaster has pc "wait" until it is notified ("woken")   *)
(* and takes the mutex again.  A check is an opaque element that passes    *)
(* iff it is in Good.  The vector `queue` is a set: the order in which     *)
(* checks leave it is left open, which covers the LIFO order of the code.  *)
(***************************************************************************)
EXTENDS Integers, FiniteSets

CONSTANTS
    Worker,      \* threads running ThreadScriptCheck
    Master,      \* threads that verify blocks (one CCheckQueueControl each)
    Check,       \* the verifications
    Good,        \* the verifications whose operator() returns true
    nBatchSize,  \* largest batch one thread takes
    NoMaster     \* ControlMutex is free

ASSUME CheckQueueAssumption ==
    /\ IsFiniteSet(Check)
    /\ IsFiniteSet(Worker \cup Master)
    /\ Good \subseteq Check
    /\ Worker \cap Master = {}
    /\ nBatchSize \in Nat \ {0}
    /\ NoMaster \notin Master

Thread == Worker \cup Master

VARIABLES
    queue,    \* checks added and not yet taken by a thread
    nIdle,    \* threads counted as idle
    nTotal,   \* threads counted as inside Loop
    fAllOk,   \* the conjunction of the results so far
    nTodo,    \* checks not completed yet, taken ones included
    control,  \* holder of ControlMutex
    pc,       \* where each thread is
    batch,    \* the checks the thread took last (nNow is their number)
    left,     \* those of its batch it has still to run
    fOk,      \* the thread's local result
    verdict,  \* what the last Wait() returned
    intr,     \* threads with a pending boost interruption
    stopping, \* threadGroup.interrupt_all() has been called
    added,    \* history: checks added by the current control
    ran       \* history: checks run for the current control

shared  == <<queue, nIdle, nTotal, fAllOk, nTodo>>
local   == <<batch, left, fOk>>
history == <<added, ran>>
vars == <<shared, control, pc, local, verdict, intr, stopping, history>>

TypeOK ==
    /\ queue \in SUBSET Check
    /\ nIdle \in Nat
    /\ nTotal \in Nat
    /\ fAllOk \in BOOLEAN
    /\ nTodo \in Nat
    /\ control \in Master \cup {NoMaster}
    /\ pc \in [Thread -> {"out", "add", "lock", "wait", "woken", "run", "done", "dead"}]
    /\ batch \in [Thread -> SUBSET Check]
    /\ left \in [Thread -> SUBSET Check]
    /\ fOk \in [Thread -> BOOLEAN]
    /\ verdict \in BOOLEAN
    /\ intr \in SUBSET Thread
    /\ stopping \in BOOLEAN
    /\ added \in SUBSET Check
    /\ ran \in SUBSET Check

Init ==
    /\ queue = {} /\ nIdle = 0 /\ nTotal = 0 /\ fAllOk = TRUE /\ nTodo = 0
    /\ control = NoMaster
    /\ pc = [t \in Thread |-> IF t \in Worker THEN "lock" ELSE "out"]
    /\ batch = [t \in Thread |-> {}]
    /\ left = [t \in Thread |-> {}]
    /\ fOk = [t \in Thread |-> TRUE]
    /\ verdict = TRUE
    /\ intr = {} /\ stopping = FALSE
    /\ added = {} /\ ran = {}

-----------------------------------------------------------------------------
(* The master's side: CCheckQueueControl.                                  *)

\* The constructor takes ControlMutex.
Control(m) ==
    /\ pc[m] = "out" /\ control = NoMaster
    /\ control' = m
    /\ pc' = [pc EXCEPT ![m] = "add"]
    /\ added' = {} /\ ran' = {}
    /\ UNCHANGED <<shared, local, verdict, intr, stopping>>

\* condWorker.notify_one() for a single check, notify_all() for more; `p` is
\* the state of the threads after the notification.
NotifyWorkers(n, p) ==
    LET waiting == {w \in Worker : pc[w] = "wait"} IN
    IF n = 0 \/ waiting = {} THEN p = pc
    ELSE IF n = 1 THEN \E w \in waiting : p = [pc EXCEPT ![w] = "woken"]
    ELSE p = [t \in Thread |-> IF t \in waiting THEN "woken" ELSE pc[t]]

\* CCheckQueue::Add, with a vector of checks not used before in this block.
Add(m, S) ==
    /\ pc[m] = "add"
    /\ S \cap added = {}
    /\ queue' = queue \cup S
    /\ nTodo' = nTodo + Cardinality(S)
    /\ NotifyWorkers(Cardinality(S), pc')
    /\ added' = added \cup S
    /\ UNCHANGED <<nIdle, nTotal, fAllOk, control, local, verdict, intr, stopping, ran>>

\* Wait(), called by ConnectBlock or by the destructor when it returned early.
Wait(m) ==
    /\ pc[m] = "add"
    /\ pc' = [pc EXCEPT ![m] = "lock"]
    /\ UNCHANGED <<shared, control, local, verdict, intr, stopping, history>>

\* The destructor, after Wait() has returned, leaves ControlMutex.
Release(m) ==
    /\ pc[m] = "done"
    /\ control' = NoMaster
    /\ pc' = [pc EXCEPT ![m] = "out"]
    /\ UNCHANGED <<shared, local, verdict, intr, stopping, history>>

-----------------------------------------------------------------------------
(* Loop.                                                                   *)

MaxOf(a, b) == IF a > b THEN a ELSE b
MinOf(a, b) == IF a < b THEN a ELSE b

\* How many checks a thread takes when the counters are total and idle.
nNow(total, idle) ==
    MaxOf(1, MinOf(nBatchSize, Cardinality(queue) \div (total + idle + 1)))

\* Fault: fAllOk is not reset for the next block.
Return_NoReset(t, todo, ok, total, idle, p) ==
    /\ queue = {} /\ t \in Master /\ todo = 0
    /\ nTotal' = total - 1 /\ nIdle' = idle
    /\ verdict' = ok
    /\ fAllOk' = ok
    /\ pc' = [p EXCEPT ![t] = "done"]
    /\ batch' = [batch EXCEPT ![t] = {}]
    /\ UNCHANGED <<queue, left, fOk>>

\* Fault: the master leaves as soon as the queue is empty.
Return_Early(t, todo, ok, total, idle, p) ==
    /\ queue = {} /\ t \in Master
    /\ nTotal' = total - 1 /\ nIdle' = idle
    /\ verdict' = ok
    /\ fAllOk' = TRUE
    /\ pc' = [p EXCEPT ![t] = "done"]
    /\ batch' = [batch EXCEPT ![t] = {}]
    /\ UNCHANGED <<queue, left, fOk>>

\* The queue is empty and, for the master, everything has completed: return
\* the result and reset it for the next block.
Return(t, todo, ok, total, idle, p) ==
    /\ queue = {} /\ t \in Master /\ todo = 0
    /\ nTotal' = total - 1 /\ nIdle' = idle
    /\ verdict' = ok
    /\ fAllOk' = TRUE
    /\ pc' = [p EXCEPT ![t] = "done"]
    /\ batch' = [batch EXCEPT ![t] = {}]
    /\ UNCHANGED <<queue, left, fOk>>

\* cond.wait(lock): nothing to take now.
Sleep(t, todo, ok, total, idle, p) ==
    /\ queue = {} /\ ~(t \in Master /\ todo = 0)
    /\ nTotal' = total /\ nIdle' = idle + 1
    /\ fAllOk' = ok
    /\ pc' = [p EXCEPT ![t] = "wait"]
    /\ batch' = [batch EXCEPT ![t] = {}]
    /\ UNCHANGED <<queue, left, fOk, verdict>>

\* Move a batch out of the queue; run it only if nothing has failed so far.
Take(t, ok, total, idle, p) ==
    /\ queue # {}
    /\ nTotal' = total /\ nIdle' = idle
    /\ fAllOk' = ok
    /\ \E B \in SUBSET queue :
          /\ Cardinality(B) = nNow(total, idle)
          /\ queue' = queue \ B
          /\ batch' = [batch EXCEPT ![t] = B]
          /\ left' = [left EXCEPT ![t] = B]
    /\ fOk' = [fOk EXCEPT ![t] = ok]
    /\ pc' = [p EXCEPT ![t] = "run"]
    /\ UNCHANGED verdict

\* `while (queue.empty())` and what follows it, run by t with the mutex held
\* after the counters became todo, ok, total and idle; p is the state of the
\* threads, with the notifications of this critical section.
LoopBody(t, todo, ok, total, idle, p) ==
    /\ nTodo' = todo
    /\ \/ Return(t, todo, ok, total, idle, p)
       \/ Sleep(t, todo, ok, total, idle, p)
       \/ Take(t, ok, total, idle, p)
    /\ UNCHANGED <<control, intr, stopping, history>>

\* The last completed check wakes the master (condMaster.notify_one()).
NotifyMaster == [t \in Thread |-> IF t \in Master /\ pc[t] = "wait" THEN "woken" ELSE pc[t]]

\* First iteration: the thread enters Loop.
Enter(t) ==
    /\ pc[t] = "lock" /\ batch[t] = {}
    /\ LoopBody(t, nTodo, fAllOk, nTotal + 1, nIdle, pc)

\* Fault: the worker forgets to wake the master.
CleanUp_NoNotify(t) ==
    /\ pc[t] = "lock" /\ batch[t] # {}
    /\ LoopBody(t, nTodo - Cardinality(batch[t]), fAllOk /\ fOk[t], nTotal, nIdle, pc)

\* A later iteration cleans up after the previous batch first.
CleanUp(t) ==
    /\ pc[t] = "lock" /\ batch[t] # {}
    /\ LET todo == nTodo - Cardinality(batch[t]) IN
       LoopBody(t, todo, fAllOk /\ fOk[t], nTotal, nIdle,
            IF todo = 0 /\ t \notin Master THEN NotifyMaster ELSE pc)

\* cond.wait returns with the mutex held; the loop tests the queue again.
WakeUp(t) ==
    /\ pc[t] = "woken"
    /\ LoopBody(t, nTodo, fAllOk, nTotal, nIdle - 1, pc)

\* Outside the mutex the thread runs its checks while none has failed.
Run(t, c) ==
    /\ pc[t] = "run" /\ c \in left[t] /\ fOk[t]
    /\ fOk' = [fOk EXCEPT ![t] = c \in Good]
    /\ left' = [left EXCEPT ![t] = @ \ {c}]
    /\ ran' = ran \cup {c}
    /\ UNCHANGED <<shared, control, pc, batch, verdict, intr, stopping, added>>

\* vChecks.clear(): all checks run, or the rest skipped after a failure.
EndBatch(t) ==
    /\ pc[t] = "run" /\ (left[t] = {} \/ ~fOk[t])
    /\ pc' = [pc EXCEPT ![t] = "lock"]
    /\ left' = [left EXCEPT ![t] = {}]
    /\ UNCHANGED <<shared, control, batch, fOk, verdict, intr, stopping, history>>

\* A spurious wakeup of a condition variable.
Spurious(t) ==
    /\ pc[t] = "wait"
    /\ pc' = [pc EXCEPT ![t] = "woken"]
    /\ UNCHANGED <<shared, control, local, verdict, intr, stopping, history>>

-----------------------------------------------------------------------------
(* Shutdown: threadGroup.interrupt_all().  cond.wait is an interruption    *)
(* point: it throws, so that neither nIdle nor nTotal is counted back.     *)

InterruptAll ==
    /\ ~stopping
    /\ stopping' = TRUE
    /\ intr' = Thread
    /\ UNCHANGED <<shared, control, pc, local, verdict, history>>

\* A worker leaves Loop for good; a master (the block import thread) unwinds
\* into ~CCheckQueueControl, which calls Wait() again because fDone is false.
Interrupted(t) ==
    /\ pc[t] \in {"wait", "woken"} /\ t \in intr
    /\ intr' = intr \ {t}
    /\ pc' = [pc EXCEPT ![t] = IF t \in Worker THEN "dead" ELSE "lock"]
    /\ UNCHANGED <<shared, control, local, verdict, stopping, history>>

-----------------------------------------------------------------------------
LoopStep(t) ==
    \/ Enter(t)
    \/ CleanUp(t)
    \/ WakeUp(t)
    \/ \E c \in left[t] : Run(t, c)
    \/ EndBatch(t)

Next ==
    \/ \E m \in Master :
          \/ Control(m)
          \/ \E S \in SUBSET (Check \ added) : Add(m, S)
          \/ Wait(m)
          \/ Release(m)
    \/ \E t \in Thread : LoopStep(t) \/ Spurious(t) \/ Interrupted(t)
    \/ InterruptAll

\* A thread that can take the mutex or run a check does so in the end, and a
\* waiting thread with a pending interruption is interrupted.
Fairness ==
    \A t \in Thread :
        /\ WF_vars(LoopStep(t))
        /\ WF_vars(Interrupted(t))

Spec == Init /\ [][Next]_vars /\ Fairness

-----------------------------------------------------------------------------
(* Properties.                                                             *)

\* Wait() returns true exactly when every check added since the control was
\* created passes: no result is lost between threads, and no result of an
\* earlier block leaks into this one (checkqueue.h:67-118).
VerdictExact ==
    \A m \in Master : pc[m] = "done" => (verdict <=> added \subseteq Good)

\* A true verdict was earned: every check was really run, none was skipped.
TrueVerdictRanAll ==
    \A m \in Master : pc[m] = "done" /\ verdict => ran = added

\* When Wait() returns nothing of the block is left behind in the queue or in
\* a worker's batch, and the queue is as good as new for the next control
\* ("guarantees the passed queue is finished before continuing").
CleanHandover ==
    control = NoMaster \/ (\E m \in Master : pc[m] = "done")
        => queue = {} /\ nTodo = 0 /\ fAllOk /\ \A t \in Thread : batch[t] = {}

\* No lost wakeup: while a master sleeps on condMaster some worker still owns
\* a batch, and that worker's clean-up is what will wake it.
MasterSleepsOnWork ==
    \A m \in Master : pc[m] = "wait" =>
        \E w \in Worker : batch[w] # {} /\ pc[w] \in {"run", "lock"}

\* A master that starts Wait() returns from it, whatever the workers do and
\* also when they have been interrupted by a shutdown.
WaitReturns ==
    \A m \in Master : (pc[m] = "lock") ~> (pc[m] = "done")

-----------------------------------------------------------------------------
(* The inductive invariant behind the safety properties.                   *)

Idle == {t \in Thread : pc[t] \in {"wait", "woken"}}
Pending == {c \in Check : c \in queue \/ \E t \in Thread : c \in batch[t]}

\* Every added check is in one place: the queue or the batch of one thread.
Placement ==
    /\ Pending \subseteq added
    /\ \A t \in Thread : batch[t] \cap queue = {} /\ left[t] \subseteq batch[t]
    /\ \A t, u \in Thread : t # u => batch[t] \cap batch[u] = {}

Counters ==
    /\ nTodo = Cardinality(Pending)
    /\ nIdle >= Cardinality(Idle)
    /\ \A m \in Master :
          pc[m] \in {"wait", "woken", "run"} \/ batch[m] # {} => nTotal >= 1

\* Which program points go together.
Places ==
    /\ \A t \in Thread :
          /\ pc[t] = "run" => batch[t] # {}
          /\ batch[t] # {} => pc[t] \in {"run", "lock"}
          /\ pc[t] = "lock" => left[t] = {}
    /\ \A w \in Worker : pc[w] \in {"lock", "wait", "woken", "run", "dead"}
    /\ \A m \in Master : pc[m] # "dead" /\ (pc[m] = "out" <=> control # m)
    /\ \A m \in Master : pc[m] = "wait" => nTodo # 0 /\ queue = {}

AtRest == control = NoMaster \/ pc[control] = "done"

\* What is known of the result so far, and what is still to come, make up the
\* result of the whole block.
Results ==
    /\ AtRest => Pending = {} /\ fAllOk
    /\ ~AtRest =>
          /\ added \subseteq Good <=>
                /\ fAllOk
                /\ queue \subseteq Good
                /\ \A t \in Thread : batch[t] # {} => fOk[t] /\ left[t] \subseteq Good
          /\ (fAllOk /\ \A t \in Thread : batch[t] # {} => fOk[t]) =>
                \A c \in added : c \in ran \/ c \in queue \/ \E t \in Thread : c \in left[t]

IInv ==
    /\ TypeOK /\ Placement /\ Counters /\ Places /\ Results
    /\ ran \subseteq added
    /\ VerdictExact /\ TrueVerdictRanAll
=============================================================================
