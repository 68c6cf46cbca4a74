---------------------------- MODULE KernelObjects ----------------------------
(***************************************************************************)
(* The kernel objects that guest threads wait on, in one frame: the        *)
(* threads, the CPU and the exit of HleWait with a semaphore, a mailbox, a *)
(* mutex, an event flag, a thread's sleep state, a fixed and a variable    *)
(* pool.  No stub uses two objects and a thread is in one stub at a time,  *)
(* so that a behaviour of the runtime, seen from one object, is a          *)
(* behaviour in which the guests use that object only: `object' is chosen  *)
(* at the start and never changes.                                         *)
(***************************************************************************)
EXTENDS HleWait, TLC

CONSTANTS
    Objects,                        \* the objects to look at
    CallsOf,                        \* bound: calls of the threads, per object
    Maximum, Initial, SemaAmounts,          \* KernelSema
    Messages, Priority, Prioritised,        \* KernelMbx
    LockAmounts,                            \* KernelMutex
    Bits, NoWait,                           \* KernelEventFlag
    Blocks,                                 \* KernelFpl
    Word, PoolBase, PoolSize, Grain, Sizes  \* KernelVpl

VARIABLES
    object,                                             \* the object in use
    count, tickets, queued, amount,                     \* KernelSema
    messages, deleted, arrivals,                        \* KernelMbx
    lockCount, owner, levels, depth, disciplined,       \* KernelMutex
    bits, waiting, wait,                                \* KernelEventFlag
    sleeper, wakeupCount, sent, slept, cancelled,       \* KernelSleep
    free, given,                                        \* KernelFpl
    available, allocated, requested, sizes              \* KernelVpl

Sema  == INSTANCE KernelSema WITH Amounts <- SemaAmounts, requested <- amount
Mbx   == INSTANCE KernelMbx
Mutex == INSTANCE KernelMutex WITH Amounts <- LockAmounts, requested <- levels
Flag  == INSTANCE KernelEventFlag
Sleep == INSTANCE KernelSleep
Fpl   == INSTANCE KernelFpl WITH available <- free
Vpl   == INSTANCE KernelVpl

AllObjects == {"sema", "mbx", "mutex", "flag", "sleep", "fpl", "vpl"}

ASSUME ObjectsAssumption ==
    /\ Objects \subseteq AllObjects /\ DOMAIN CallsOf = AllObjects
    /\ Sema!SemaAssumption /\ Mbx!MbxAssumption
    /\ Mutex!MutexAssumption /\ Fpl!FplAssumption /\ Vpl!VplAssumption

sema == <<count, tickets, queued, amount>>
mbx  == <<messages, deleted, arrivals>>
mtx  == <<lockCount, owner, levels, depth, disciplined>>
flag == <<bits, waiting, wait>>
slp  == <<sleeper, wakeupCount, sent, slept, cancelled>>
fpl  == <<free, given>>
vpl  == <<available, allocated, requested, sizes>>
vars == <<hle, object, sema, mbx, mtx, flag, slp, fpl, vpl>>

Init ==
    /\ object \in Objects
    /\ calls \in CallsOf[object]
    /\ HleInit
    /\ Sema!ObjectInit /\ Mbx!ObjectInit /\ Mutex!ObjectInit /\ Flag!ObjectInit
    /\ Sleep!ObjectInit /\ Fpl!ObjectInit /\ Vpl!ObjectInit
    /\ IF object = "sleep" THEN sleeper \in Threads ELSE sleeper = NoThread

\* What the object does not use does not change.
Frame ==
    /\ UNCHANGED object
    /\ IF object = "sema"  THEN TRUE ELSE UNCHANGED sema
    /\ IF object = "mbx"   THEN TRUE ELSE UNCHANGED mbx
    /\ IF object = "mutex" THEN TRUE ELSE UNCHANGED mtx
    /\ IF object = "flag"  THEN TRUE ELSE UNCHANGED flag
    /\ IF object = "sleep" THEN TRUE ELSE UNCHANGED slp
    /\ IF object = "fpl"   THEN TRUE ELSE UNCHANGED fpl
    /\ IF object = "vpl"   THEN TRUE ELSE UNCHANGED vpl

Next ==
    /\ \/ object = "sema"  /\ Sema!Next
       \/ object = "mbx"   /\ Mbx!Next
       \/ object = "mutex" /\ Mutex!Next
       \/ object = "flag"  /\ Flag!Next
       \/ object = "sleep" /\ Sleep!Next
       \/ object = "fpl"   /\ Fpl!Next
       \/ object = "vpl"   /\ Vpl!Next
    /\ Frame

Spec == Init /\ [][Next]_vars

\* Steps of a thread inside a stub that nothing holds up.  A thread of a
\* variable pool has to get the CPU back to try again, so there the others
\* do not keep it for ever (ImplementsFairCpu of GuestExecution).
Running(t) ==
    /\ \/ object = "sema"  /\ Sema!Running(t)
       \/ object = "mbx"   /\ Mbx!Running(t)
       \/ object = "mutex" /\ Mutex!Running(t)
       \/ object = "flag"  /\ Flag!Running(t)
       \/ object = "sleep" /\ Sleep!Running(t)
       \/ object = "fpl"   /\ Fpl!Running(t)
       \/ object = "vpl"   /\ Vpl!Running(t)
       \/ object = "vpl"   /\ (Yield(t) \/ Finish(t)) /\ UNCHANGED vpl
    /\ Frame

\* Steps that need the object's mutex, or the CPU.
Relocking(t) ==
    /\ \/ object = "sema"  /\ Sema!Relocking(t)
       \/ object = "mbx"   /\ Mbx!Relocking(t)
       \/ object = "mutex" /\ Mutex!Relocking(t)
       \/ object = "flag"  /\ Flag!Relocking(t)
       \/ object = "sleep" /\ Sleep!Relocking(t)
       \/ object = "fpl"   /\ Fpl!Relocking(t)
       \/ object = "vpl"   /\ Vpl!Relocking(t)
    /\ Frame

\* Threads that can run do run and std::mutex refuses nobody for ever.
\* Nothing is assumed of timeouts, of the exit or of what the guests call.
FairSpec ==
    /\ Spec
    /\ \A t \in Threads : WF_vars(Running(t)) /\ SF_vars(Relocking(t))

-----------------------------------------------------------------------------
\* The variables of the objects have their types; those of a variable pool are
\* in VariablePoolSound.
TypeOK ==
    /\ object \in AllObjects
    /\ Sema!TypeOK /\ Mbx!TypeOK /\ Mutex!TypeOK
    /\ object = "sleep" => Sleep!TypeOK

\* The properties of the components; each conjunct is explained in its module.

(***************************************************************************)
(* A semaphore serves in turn: its queue holds the waits in progress, each *)
(* once, the first that can be served does not sleep on, and neither a     *)
(* poll nor a late wait takes a token past the queue.  The number of       *)
(* waiters an event flag reports is exact, nobody sleeps on a pattern that *)
(* is in the flag, and a wait ends with its pattern there.                 *)
(***************************************************************************)
WaitersServed ==
    /\ [](object = "sema" => Sema!QueueIsExact /\ Sema!NoLostWakeup)
    /\ Sema!NoOvertaking
    /\ [](object = "flag" => Flag!WaitingExact /\ Flag!NoLostWakeup)
    /\ Flag!ServedWithPattern

(***************************************************************************)
(* A mailbox keeps each message once, by priority and order of arrival,    *)
(* one notification for each message is enough, and a deletion leaves no   *)
(* receiver asleep.                                                        *)
(***************************************************************************)
MbxDelivers ==
    object = "mbx" => Mbx!QueueOrder /\ Mbx!EnoughAwake /\ Mbx!DeleteWakesAll

\* Nobody waits for the CPU with the mutex of a kernel object in its hands.
LockOrder == Mbx!LockOrder

(***************************************************************************)
(* Guests that unlock only what they locked exclude each other; whatever   *)
(* guests unlock, a mutex is free exactly when it has no owner; neither    *)
(* its owner nor, when it is free, anybody sleeps on it.                   *)
(***************************************************************************)
MutexSound ==
    object = "mutex" =>
      /\ Mutex!Exclusive /\ Mutex!FreeIffUnowned
      /\ Mutex!OwnerNeverSleeps /\ Mutex!NoSleeperBesideFreeMutex

\* Every wakeup is pending, has ended one sleep, or was cancelled, and nobody
\* sleeps beside a pending one.
SleepWakeups ==
    object = "sleep" => Sleep!WakeupsConserved /\ Sleep!NoLostWakeup

\* A block of a fixed pool is free once or somebody's, and one notification for
\* each block freed is enough.
FixedPoolSound == object = "fpl" => Fpl!BlocksConserved /\ Fpl!EnoughAwake

\* Free list and allocations divide a variable pool, and one notification for
\* each block freed is enough as long as the blocks are of one size.
VariablePoolSound ==
    object = "vpl" => Vpl!TypeOK /\ Vpl!PoolDivided /\ Vpl!EnoughAwake

\* What t waits for is there.
Servable(t) ==
    \/ object = "sema"  /\ Sema!Servable(t)
    \/ object = "mbx"   /\ Mbx!Servable(t)
    \/ object = "mutex" /\ Mutex!Servable(t)
    \/ object = "flag"  /\ Flag!Servable(t)
    \/ object = "sleep" /\ Sleep!Servable(t)
    \/ object = "fpl"   /\ Fpl!Servable(t)
    \/ object = "vpl"   /\ Vpl!Servable(t)

\* No waiter that its object could serve waits for ever: it is served, or
\* another thread takes what it could have had, or the process exits.  The
\* notifications, most of them sent after the mutex has been dropped and to one
\* waiter only, reach those they are meant for (sceKernelSignalSema.cpp:27,
\* sceKernelSendMbx.cpp:31, sceKernelUnlockMutex.cpp:20,
\* sceKernelSetEventFlag.cpp:16, sceKernelWakeupThread.cpp:19,
\* sceKernelFreeFpl.cpp:16, sceKernelFreeVpl.cpp:35).
NoServableWaiterStuck ==
    \A t \in Threads : [](Servable(t) => <>(~Servable(t) \/ exit))
-----------------------------------------------------------------------------
(* The instances that TLC checks. *)

\* One message is more urgent than the others, which are of equal priority.
Urgent == CHOOSE m \in Messages : TRUE
Priorities == [m \in Messages |-> IF m = Urgent THEN 1 ELSE 2]

\* Bounds: how many calls each thread makes.  All but one make a each, that
\* one makes b.
AllButOne(a, b) ==
    {c \in [Threads -> {a, b}] : \E t \in Threads : \A u \in Threads : c[u] = b <=> u = t}

SafetyCalls ==
    [o \in AllObjects |-> IF o = "flag" THEN {[t \in Threads |-> 1]} ELSE AllButOne(2, 1)]

\* One thread makes two calls on a mutex and another one.
TwoUse(c) == \E t, u \in Threads :
    t # u /\ c = [v \in Threads |-> CASE v = t -> 2 [] v = u -> 1 [] OTHER -> 0]

LivenessCalls ==
    [o \in AllObjects |->
       CASE o \in {"sema", "mbx"}   -> {[t \in Threads |-> 1]}
         [] o \in {"fpl", "vpl"}    -> {CHOOSE c \in AllButOne(1, 2) : TRUE}
         [] o = "mutex"             -> {CHOOSE c \in [Threads -> 0..2] : TwoUse(c)}
         [] o \in {"flag", "sleep"} -> {CHOOSE c \in AllButOne(1, 0) : TRUE}]

\* The threads, the bits and the messages of equal priority are
\* interchangeable; the blocks are not, they start in a list.
Symmetry ==
    Permutations(Threads) \cup Permutations(Bits) \cup Permutations(Messages \ {Urgent})
=============================================================================
