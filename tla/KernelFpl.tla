----------------------------- MODULE KernelFpl -----------------------------
(***************************************************************************)
(* Fixed pools: sceKernelAllocateFpl, sceKernelTryAllocateFpl,             *)
(* sceKernelFreeFpl and sceKernelDeleteFpl.  The kernel keeps only the     *)
(* list of free blocks; guests free what they were given, once.            *)
(***************************************************************************)
EXTENDS HleWait, SequencesExt

CONSTANT Blocks     \* addresses of the blocks of the pool

FplAssumption == IsFiniteSet(Blocks)

VARIABLES
    available,      \* FixedPool::available
    given           \* history: the blocks each thread has

fpl  == <<available, given>>
vars == <<hle, fpl>>

ObjectInit ==
    /\ available = SetToSeq(Blocks)
    /\ given = [t \in Threads |-> {}]

Init == HleInit /\ ObjectInit

\* The last free block.
Take(t) ==
    /\ available' = Front(available)
    /\ given' = [given EXCEPT ![t] = @ \cup {Last(available)}]

TakeIfAny(t) == IF available = <<>> THEN UNCHANGED fpl ELSE Take(t)

-----------------------------------------------------------------------------
\* The pool is not in the table.
UnknownFpl(t) ==
    /\ ~alive
    /\ Call(t, "return")
    /\ UNCHANGED <<alive, fpl>>

AllocateFpl(t) ==
    /\ alive
    /\ BeginWait(t, FALSE)
    /\ UNCHANGED fpl

Available == available # <<>> \/ exit

CommitAllocate(t) ==
    /\ pc[t] = "commit"
    /\ TakeIfAny(t)
    /\ EndWait(t, "resume")

TryAllocateFpl(t) ==
    /\ alive
    /\ LockedCall(t, Quietly)
    /\ TakeIfAny(t)
    /\ UNCHANGED alive

FreeFpl(t, b) ==
    /\ alive /\ b \in given[t]
    /\ LockedCall(t, "signal")
    /\ available' = Append(available, b)
    /\ given' = [given EXCEPT ![t] = @ \ {b}]
    /\ UNCHANGED alive

\* Mutant of FreeNotifies: a notification only once every block is free.
FreeNotifiesFull(t) ==
    /\ pc[t] = "signal"
    /\ IF Len(available) < Cardinality(Blocks)
         THEN Goto(t, "return") ELSE NotifyOne(t, "return")
    /\ UNCHANGED <<cpu, exit, host, calls, mutex, alive, timed, fpl>>

FreeNotifies(t) ==
    /\ pc[t] = "signal"
    /\ NotifyOne(t, "return")
    /\ UNCHANGED <<cpu, exit, host, calls, mutex, alive, timed, fpl>>

\* The blocks go back to the heap and the entry leaves the table, without the
\* pool's mutex; waiters are not notified.
DeleteFpl(t) ==
    /\ alive
    /\ Call(t, "return")
    /\ alive' = FALSE
    /\ UNCHANGED fpl

-----------------------------------------------------------------------------
Relocking(t) == Relock(t) /\ UNCHANGED fpl

Running(t) ==
    \/ CommitAllocate(t) \/ FreeNotifies(t)
    \/ (Evaluate(t, Available) \/ Park(t)) /\ UNCHANGED fpl

Guest(t) ==
    \/ AllocateFpl(t) \/ TryAllocateFpl(t) \/ DeleteFpl(t) \/ UnknownFpl(t)
    \/ \E b \in Blocks : FreeFpl(t, b)

Next ==
    \/ \E t \in Threads : Running(t) \/ Relocking(t) \/ Guest(t)
    \/ \E t \in Threads : CpuStep(t) /\ UNCHANGED fpl
    \/ Environment /\ UNCHANGED fpl
    \/ Quiescent /\ UNCHANGED vars

Spec == Init /\ [][Next]_vars
-----------------------------------------------------------------------------
\* A block is free once, or one thread has it (sceKernelAllocateFpl.cpp:16-22,
\* sceKernelTryAllocateFpl.cpp:16-20).
BlocksConserved ==
    /\ IsInjective(available)
    /\ Range(available) \cup UNION Range(given) = Blocks
    /\ \A t, u \in Threads : t # u => given[t] \cap given[u] = {}
    /\ \A t \in Threads : given[t] \cap Range(available) = {}

\* Although a free notifies one waiter only, there are never more free blocks
\* than awake waiters and pending notifications while a waiter sleeps
\* (sceKernelFreeFpl.cpp:16).
EnoughAwake ==
    ~exit /\ (\E t \in Threads : Asleep(t)) =>
      Len(available) <= Cardinality({t \in Threads :
                          (Waits(t) /\ ~Asleep(t)) \/ pc[t] = "signal"})

\* A waiter can be served.
Servable(t) == Waits(t) /\ available # <<>>
=============================================================================
