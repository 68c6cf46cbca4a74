---------------------------- MODULE KernelMutex ----------------------------
(***************************************************************************)
(* Mutexes: sceKernelLockMutex, sceKernelUnlockMutex and                   *)
(* sceKernelDeleteMutex.  The guest mutex is recursive; the kernel does    *)
(* not check who unlocks it.                                               *)
(***************************************************************************)
EXTENDS HleWait

CONSTANT Amounts    \* counts guests lock and unlock by

MutexAssumption == Amounts \subseteq Nat \ {0}

VARIABLES
    lockCount,      \* Mutex::lock_count
    owner,          \* Mutex::owner_thread_id, NoThread for -1
    requested,      \* count of the sceKernelLockMutex in progress
    depth,          \* history: how often each thread has locked the mutex,
                    \* as long as the guests are disciplined
    disciplined     \* history: nobody has unlocked more than it had locked

mtx  == <<lockCount, owner, requested, depth, disciplined>>
vars == <<hle, mtx>>

ObjectInit ==
    /\ lockCount = 0
    /\ owner = NoThread
    /\ requested = [t \in Threads |-> 0]
    /\ depth = [t \in Threads |-> 0]
    /\ disciplined = TRUE

Init == HleInit /\ ObjectInit

-----------------------------------------------------------------------------
\* The mutex is not in the table.
UnknownMutex(t) ==
    /\ ~alive
    /\ Call(t, "return")
    /\ UNCHANGED <<alive, mtx>>

LockMutex(t, n, withTimeout) ==
    /\ alive
    /\ BeginWait(t, withTimeout)
    /\ requested' = [requested EXCEPT ![t] = n]
    /\ UNCHANGED <<lockCount, owner, depth, disciplined>>

Available(t) == lockCount = 0 \/ owner = t \/ exit

Acquire(t) ==
    IF exit THEN UNCHANGED <<lockCount, owner, depth>>
    ELSE /\ owner' = t
         /\ lockCount' = lockCount + requested[t]
         /\ depth' = IF disciplined THEN [depth EXCEPT ![t] = @ + requested[t]] ELSE depth

CommitLock(t) ==
    /\ pc[t] = "commit"
    /\ Acquire(t)
    /\ EndWait(t, "resume")
    /\ requested' = [requested EXCEPT ![t] = 0]
    /\ UNCHANGED disciplined

\* Mutant of LockTimesOut: the result of wait_for is ignored.
LockTimesOutAcquired(t) ==
    /\ pc[t] = "timeout"
    /\ Acquire(t)
    /\ EndWait(t, "resume")
    /\ requested' = [requested EXCEPT ![t] = 0]
    /\ UNCHANGED disciplined

LockTimesOut(t) ==
    /\ pc[t] = "timeout"
    /\ EndWait(t, "resume")
    /\ requested' = [requested EXCEPT ![t] = 0]
    /\ UNCHANGED <<lockCount, owner, depth, disciplined>>

LessOrZero(a, b) == IF a > b THEN a - b ELSE 0

Released(n) ==
    /\ lockCount' = LessOrZero(lockCount, n)
    /\ owner' = IF lockCount' = 0 THEN NoThread ELSE owner

\* The notification is sent under the mutex.
UnlockNotifies(t) ==
    IF lockCount' = 0 THEN NotifyAll(t, "return") ELSE Goto(t, "return")

UnlockMutex(t, n) ==
    /\ alive
    /\ pc[t] = "guest" /\ calls[t] > 0 /\ mutex = NoThread
    /\ calls' = [calls EXCEPT ![t] = @ - 1]
    /\ Released(n)
    /\ disciplined' = (disciplined /\ n <= depth[t])
    /\ depth' = [u \in Threads |-> IF ~disciplined' THEN 0
                                   ELSE IF u = t THEN depth[u] - n ELSE depth[u]]
    /\ UnlockNotifies(t)
    /\ UNCHANGED <<cpu, exit, host, mutex, alive, timed, requested>>

\* The entry leaves the table; waiters are not notified.
DeleteMutex(t) ==
    /\ alive
    /\ Call(t, "return")
    /\ alive' = FALSE
    /\ UNCHANGED mtx

-----------------------------------------------------------------------------
Relocking(t) == (Relock(t) \/ RelockExpired(t, Available(t))) /\ UNCHANGED mtx

Running(t) ==
    \/ CommitLock(t) \/ LockTimesOut(t)
    \/ (Evaluate(t, Available(t)) \/ Park(t)) /\ UNCHANGED mtx

Guest(t) ==
    \/ \E n \in Amounts : UnlockMutex(t, n)
    \/ \E n \in Amounts, withTimeout \in Timeouts : LockMutex(t, n, withTimeout)
    \/ DeleteMutex(t) \/ UnknownMutex(t)

Next ==
    \/ \E t \in Threads : Running(t) \/ Relocking(t) \/ Guest(t)
    \/ \E t \in Threads : CpuStep(t) /\ UNCHANGED mtx
    \/ Environment /\ UNCHANGED mtx
    \/ Quiescent /\ UNCHANGED vars

Spec == Init /\ [][Next]_vars
-----------------------------------------------------------------------------
TypeOK ==
    /\ HleTypeOK
    /\ lockCount \in Nat
    /\ owner \in Threads \cup {NoThread}
    /\ requested \in [Threads -> Amounts \cup {0}]
    /\ depth \in [Threads -> Nat]
    /\ disciplined \in BOOLEAN

\* Guests that unlock only what they locked exclude each other, and the kernel
\* counts what they count, through timeouts, recursion, deletion and exit
\* (sceKernelLockMutex.cpp:35-46, sceKernelUnlockMutex.cpp:15-21).
Exclusive ==
    disciplined => \A t \in Threads : depth[t] > 0 => owner = t /\ lockCount = depth[t]

\* Whatever guests unlock, the mutex is free exactly when it has no owner: a
\* stale owner could enter a mutex that somebody else waits for, an owner-less
\* one would never be released (sceKernelUnlockMutex.cpp:17-19).
FreeIffUnowned == lockCount = 0 <=> owner = NoThread

\* Nobody sleeps beside a free mutex: the unlock that frees it notifies under
\* the mutex, and whoever found it taken is asleep by then
\* (sceKernelUnlockMutex.cpp:15-21).
NoSleeperBesideFreeMutex ==
    lockCount = 0 => \A t \in Threads : ~Asleep(t)

\* The owner never sleeps on its own mutex: the guest mutex is recursive.
OwnerNeverSleeps ==
    \A t \in Threads : owner = t => ~Asleep(t)

\* A waiter can be served.
Servable(t) == Waits(t) /\ lockCount = 0
=============================================================================
