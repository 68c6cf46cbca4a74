----------------------------- MODULE KernelVpl -----------------------------
(***************************************************************************)
(* Variable pools: sceKernelAllocateVpl, sceKernelAllocateVplCB,           *)
(* sceKernelTryAllocateVpl, sceKernelFreeVpl and sceKernelDeleteVpl.  A    *)
(* thread that finds no room waits without a predicate, takes the CPU back *)
(* and tries again.                                                        *)
(***************************************************************************)
EXTENDS HleWait, MemoryBlocks

CONSTANTS
    PoolBase,   \* address of the pool
    PoolSize,   \* its size
    Grain,      \* alignment of sizes
    Sizes       \* sizes guests ask for

VplAssumption ==
    /\ PoolBase \in Nat \ {0} /\ PoolSize \in Nat /\ Grain \in Nat \ {0}
    /\ PoolBase + PoolSize < Word
    /\ Sizes \subseteq 1 .. (Word - Grain)

VARIABLES
    available,  \* VariablePool::available
    allocated,  \* VariablePool::allocated, as the set of its blocks
    requested,  \* size of the allocation in progress
    sizes       \* history: the sizes guests have asked this pool for

vpl  == <<available, allocated, requested, sizes>>
vars == <<hle, vpl>>

ObjectInit ==
    /\ available = <<Block(PoolBase, PoolSize)>>
    /\ allocated = {}
    /\ requested = [t \in Threads |-> 0]
    /\ sizes = {}

Init == HleInit /\ ObjectInit

\* The first free block that is large enough, 0 if there is none.
FirstFit(n) == SelectInSeq(available, LAMBDA b : b.size >= n)

\* Mutant of Carve: what stays free still begins where it did.
CarveUnmoved(i, n) ==
    /\ allocated' = allocated \cup {Block(available[i].address, n)}
    /\ available' = IF available[i].size = n THEN RemoveAt(available, i)
                    ELSE [available EXCEPT ![i] = Block(@.address, @.size - n)]

\* The front of the i-th free block is allocated.
Carve(i, n) ==
    /\ allocated' = allocated \cup {Block(available[i].address, n)}
    /\ available' = IF available[i].size = n THEN RemoveAt(available, i)
                    ELSE [available EXCEPT ![i] = Block(@.address + n, @.size - n)]

-----------------------------------------------------------------------------
\* The pool is not in the table.
UnknownVpl(t) ==
    /\ ~alive
    /\ Call(t, "return")
    /\ UNCHANGED <<alive, vpl>>

\* There is room, or the exit ends the attempt.
AllocateVpl(t, n) ==
    /\ alive
    /\ LockedCall(t, "return")
    /\ IF FirstFit(n) # 0 THEN Carve(FirstFit(n), n)
       ELSE exit /\ UNCHANGED <<available, allocated>>
    /\ sizes' = sizes \cup {n}
    /\ UNCHANGED <<alive, requested>>

\* There is no room: the CPU is given up, with the mutex held.
AllocateVplWaits(t, n) ==
    /\ alive /\ FirstFit(n) = 0 /\ ~exit
    /\ pc[t] = "guest" /\ calls[t] > 0 /\ mutex = NoThread
    /\ calls' = [calls EXCEPT ![t] = @ - 1]
    /\ mutex' = t
    /\ cpu' = WithoutCpu(t)
    /\ Goto(t, "park")
    /\ requested' = [requested EXCEPT ![t] = n]
    /\ sizes' = sizes \cup {n}
    /\ UNCHANGED <<exit, host, alive, timed, available, allocated>>

\* The same code in a file of its own.
AllocateVplCB(t, n) == AllocateVpl(t, n) \/ AllocateVplWaits(t, n)

\* The wait takes the mutex back, and the stub drops it at once.
WakeUp(t) ==
    /\ pc[t] = "woken" /\ mutex = NoThread
    /\ Goto(t, "retake")
    /\ UNCHANGED <<cpu, exit, host, calls, mutex, alive, timed, vpl>>

RetakeCpu(t) ==
    /\ pc[t] = "retake"
    /\ \/ cpu = NoThread /\ ~exit /\ cpu' = t
       \/ exit /\ UNCHANGED cpu
    /\ Goto(t, "retry")
    /\ UNCHANGED <<exit, host, calls, mutex, alive, timed, vpl>>

Retry(t) ==
    /\ pc[t] = "retry" /\ mutex = NoThread
    /\ IF FirstFit(requested[t]) # 0 THEN Carve(FirstFit(requested[t]), requested[t])
       ELSE exit /\ UNCHANGED <<available, allocated>>
    /\ Goto(t, "return")
    /\ requested' = [requested EXCEPT ![t] = 0]
    /\ UNCHANGED <<cpu, exit, host, calls, mutex, alive, timed, sizes>>

RetryWaits(t) ==
    /\ pc[t] = "retry" /\ mutex = NoThread
    /\ FirstFit(requested[t]) = 0 /\ ~exit
    /\ mutex' = t
    /\ cpu' = WithoutCpu(t)
    /\ Goto(t, "park")
    /\ UNCHANGED <<exit, host, calls, alive, timed, vpl>>

TryAllocateVpl(t, n) ==
    /\ alive
    /\ LockedCall(t, Quietly)
    /\ IF FirstFit(n) # 0 THEN Carve(FirstFit(n), n)
       ELSE UNCHANGED <<available, allocated>>
    /\ sizes' = sizes \cup {n}
    /\ UNCHANGED <<alive, requested>>

FreeVpl(t, b) ==
    /\ alive /\ b \in allocated
    /\ LockedCall(t, "signal")
    /\ allocated' = allocated \ {b}
    /\ available' = Joined(Append(available, b))
    /\ UNCHANGED <<alive, requested, sizes>>

\* The address was not allocated: nobody is notified.
FreeUnknown(t) ==
    /\ alive
    /\ LockedCall(t, "return")
    /\ UNCHANGED <<alive, vpl>>

FreeNotifies(t) ==
    /\ pc[t] = "signal"
    /\ NotifyOne(t, "return")
    /\ UNCHANGED <<cpu, exit, host, calls, mutex, alive, timed, vpl>>

\* The pool goes back to the heap and the entry leaves the table, without the
\* pool's mutex; waiters are not notified.
DeleteVpl(t) ==
    /\ alive
    /\ Call(t, "return")
    /\ alive' = FALSE
    /\ UNCHANGED vpl

-----------------------------------------------------------------------------
Running(t) == FreeNotifies(t) \/ (Park(t) /\ UNCHANGED vpl)

\* Steps that need the mutex or the CPU; a thread is before at most one.
Relocking(t) == WakeUp(t) \/ RetakeCpu(t) \/ Retry(t) \/ RetryWaits(t)

Guest(t) ==
    \/ \E s \in Sizes :
         LET n == AlignUp(s, Grain)
         IN  \/ AllocateVpl(t, n) \/ AllocateVplWaits(t, n)
             \/ AllocateVplCB(t, n) \/ TryAllocateVpl(t, n)
    \/ \E b \in allocated : FreeVpl(t, b)
    \/ FreeUnknown(t) \/ DeleteVpl(t) \/ UnknownVpl(t)

Next ==
    \/ \E t \in Threads : Running(t) \/ Relocking(t) \/ Guest(t)
    \/ \E t \in Threads : CpuStep(t) /\ UNCHANGED vpl
    \/ Environment /\ UNCHANGED vpl
    \/ Quiescent /\ UNCHANGED vars

Spec == Init /\ [][Next]_vars
-----------------------------------------------------------------------------
TypeOK ==
    /\ HleTypeOK
    /\ \A i \in DOMAIN available : IsBlock(available[i]) /\ available[i].size > 0
    /\ \A b \in allocated : IsBlock(b)
    /\ requested \in [Threads -> Address]
    /\ sizes \subseteq Address

\* The free list, in order of address and with no neighbours to join, and the
\* allocations divide the pool: no byte is given twice and none is lost
\* (sceKernelAllocateVpl.cpp:14-27, sceKernelFreeVpl.cpp:12-34).
PoolDivided ==
    /\ IsJoined(available)
    /\ \A b, c \in allocated : b # c => Bytes(b) \cap Bytes(c) = {}
    /\ LET given == UNION {Bytes(b) : b \in allocated}
       IN  /\ given \cap AllBytes(available) = {}
           /\ given \cup AllBytes(available) = PoolBase .. (PoolBase + PoolSize - 1)

\* Blocks of one size fit the pool this often.
Slots(n) == FoldLeft(LAMBDA s, b : s + b.size \div n, 0, available)

\* A thread that has been woken and will look at the pool again.
LooksAgain(t) == pc[t] \in {"woken", "retake", "retry"}

\* As long as guests ask for blocks of one size: although a free notifies one
\* waiter only, there is never more room than awake waiters and pending
\* notifications while a waiter sleeps (sceKernelFreeVpl.cpp:35,
\* sceKernelAllocateVpl.cpp:28-37).
EnoughAwake ==
    \A n \in sizes :
      sizes = {n} /\ ~exit /\ (\E t \in Threads : Asleep(t)) =>
        Slots(n) <= Cardinality({t \in Threads : LooksAgain(t) \/ pc[t] = "signal"})

\* A waiter can be served, and guests ask for blocks of one size.
Servable(t) ==
    requested[t] # 0 /\ sizes = {requested[t]} /\ FirstFit(requested[t]) # 0
=============================================================================
