----------------------------- MODULE SerialQueue -----------------------------
(***************************************************************************)
(* What scheduler.h promises of SingleThreadedSchedulerClient and          *)
(* validationinterface.cpp relies on: callbacks added to the queue run one *)
(* at a time and in the order in which they were added, and none is        *)
(* skipped.  CallbackQueue is shown to implement this specification.       *)
(***************************************************************************)
EXTENDS Sequences

CONSTANT Callback   \* the callbacks, each of which is added at most once

VARIABLES
    fresh,    \* callbacks that have not been added
    waiting,  \* callbacks that have been added and have not started
    active    \* callbacks that are running

vars == <<fresh, waiting, active>>

Init ==
    /\ fresh = Callback
    /\ waiting = <<>>
    /\ active = {}

Add(c) ==
    /\ c \in fresh
    /\ fresh' = fresh \ {c}
    /\ waiting' = Append(waiting, c)
    /\ UNCHANGED active

Begin ==
    /\ active = {}
    /\ waiting # <<>>
    /\ active' = {Head(waiting)}
    /\ waiting' = Tail(waiting)
    /\ UNCHANGED fresh

End(c) ==
    /\ c \in active
    /\ active' = active \ {c}
    /\ UNCHANGED <<fresh, waiting>>

Next ==
    \/ \E c \in Callback : Add(c) \/ End(c)
    \/ Begin

Spec == Init /\ [][Next]_vars
=============================================================================
