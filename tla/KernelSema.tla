----------------------------- MODULE KernelSema -----------------------------
(***************************************************************************)
(* Semaphores: sceKernelWaitSema, sceKernelPollSema, sceKernelSignalSema   *)
(* and sceKernelDeleteSema.  A waiter that cannot be served at once queues *)
(* by ticket; a thread has at most one wait in progress, so that the       *)
(* ticket is the thread.                                                   *)
(***************************************************************************)
EXTENDS HleWait, SequencesExt

CONSTANTS
    Maximum,    \* maximum of the semaphore
    Initial,    \* initial count
    Amounts     \* amounts guests ask for and signal

SemaAssumption ==
    /\ Maximum \in Nat \ {0} /\ Initial \in 0..Maximum
    /\ Amounts \subseteq Nat \ {0}

VARIABLES
    count,      \* Semaphore::count
    tickets,    \* Semaphore::waiting_tickets
    queued,     \* local variable of sceKernelWaitSema
    requested   \* local variable of sceKernelWaitSema

sema == <<count, tickets, queued, requested>>
vars == <<hle, sema>>

ObjectInit ==
    /\ count = Initial
    /\ tickets = <<>>
    /\ queued = [t \in Threads |-> FALSE]
    /\ requested = [t \in Threads |-> 0]

Init == HleInit /\ ObjectInit

\* The semaphore is not in the table, or the amount is refused.
Refused(t) ==
    /\ Call(t, "return")
    /\ ~alive \/ \E n \in Amounts : n > Maximum
    /\ UNCHANGED <<alive, sema>>

WaitSema(t, n, withTimeout) ==
    /\ alive /\ n <= Maximum
    /\ BeginWait(t, withTimeout)
    /\ LET wait == count < n \/ tickets # <<>>
       IN  /\ queued' = [queued EXCEPT ![t] = wait]
           /\ tickets' = IF wait THEN Append(tickets, t) ELSE tickets
    /\ requested' = [requested EXCEPT ![t] = n]
    /\ UNCHANGED count

Available(t) ==
    \/ exit
    \/ ~queued[t]
    \/ tickets # <<>> /\ Head(tickets) = t /\ count >= requested[t]

RemoveWaiter(t) == tickets' = RemoveFirst(tickets, t)

CommitWait(t) ==
    /\ pc[t] = "commit"
    /\ RemoveWaiter(t)
    /\ count' = IF exit THEN count ELSE count - requested[t]
    /\ EndWait(t, IF queued[t] THEN "notify" ELSE "resume")
    /\ queued' = [queued EXCEPT ![t] = FALSE]
    /\ requested' = [requested EXCEPT ![t] = 0]

\* Mutants of WaitTimesOut: without the notification, without leaving the
\* queue.
WaitTimesOutSilently(t) ==
    /\ pc[t] = "timeout"
    /\ RemoveWaiter(t)
    /\ EndWait(t, "resume")
    /\ UNCHANGED <<count, queued, requested>>

WaitTimesOutQueued(t) ==
    /\ pc[t] = "timeout"
    /\ EndWait(t, "notify")
    /\ UNCHANGED sema

WaitTimesOut(t) ==
    /\ pc[t] = "timeout"
    /\ RemoveWaiter(t)
    /\ EndWait(t, "notify")
    /\ queued' = [queued EXCEPT ![t] = FALSE]
    /\ requested' = [requested EXCEPT ![t] = 0]
    /\ UNCHANGED count

\* Mutant of SignalSema: the maximum is forgotten.
SignalSemaUnbounded(t, n) ==
    /\ alive
    /\ LockedCall(t, "signal")
    /\ count' = count + n
    /\ UNCHANGED <<alive, tickets, queued, requested>>

SignalSema(t, n) ==
    /\ alive
    /\ LockedCall(t, "signal")
    /\ count' = IF count + n < Maximum THEN count + n ELSE Maximum
    /\ UNCHANGED <<alive, tickets, queued, requested>>

\* Mutant of SignalNotifies: notify_one.
SignalNotifiesOne(t) ==
    /\ pc[t] = "signal"
    /\ NotifyOne(t, "return")
    /\ UNCHANGED <<cpu, exit, host, calls, mutex, alive, timed, sema>>

SignalNotifies(t) ==
    /\ pc[t] = "signal"
    /\ NotifyAll(t, "return")
    /\ UNCHANGED <<cpu, exit, host, calls, mutex, alive, timed, sema>>

PollSema(t, n) ==
    /\ alive
    /\ LockedCall(t, Quietly)
    /\ count' = IF n > count \/ tickets # <<>> THEN count ELSE count - n
    /\ UNCHANGED <<alive, tickets, queued, requested>>

\* The entry leaves the table; the object lives on with its waiters, who are
\* not notified.
DeleteSema(t) ==
    /\ alive
    /\ Call(t, "return")
    /\ alive' = FALSE
    /\ UNCHANGED sema

\* Steps of a wait that need the object's mutex, and steps that need nothing.
Relocking(t) ==
    (Relock(t) \/ RelockExpired(t, Available(t))) /\ UNCHANGED sema

Running(t) ==
    \/ CommitWait(t) \/ WaitTimesOut(t) \/ SignalNotifies(t)
    \/ (Evaluate(t, Available(t)) \/ Park(t) \/ WaiterNotifies(t)) /\ UNCHANGED sema

Guest(t) ==
    \/ \E n \in Amounts : SignalSema(t, n) \/ PollSema(t, n)
    \/ \E n \in Amounts, timeout \in Timeouts : WaitSema(t, n, timeout)
    \/ DeleteSema(t) \/ Refused(t)

Step(t) ==
    \/ Running(t) \/ Relocking(t) \/ Guest(t)
    \/ CpuStep(t) /\ UNCHANGED sema

Next ==
    \/ \E t \in Threads : Step(t)
    \/ Environment /\ UNCHANGED sema
    \/ Quiescent /\ UNCHANGED vars

Spec == Init /\ [][Next]_vars
-----------------------------------------------------------------------------
TypeOK ==
    /\ HleTypeOK
    /\ count \in 0..Maximum
    /\ tickets \in Seq(Threads)
    /\ queued \in [Threads -> BOOLEAN]
    /\ requested \in [Threads -> Nat]

\* In a wait that queued a ticket and has not removed it yet.
Queues(t) == queued[t] /\ Waits(t)

\* waiting_tickets holds exactly the waits in progress that queued, each once:
\* a timeout or an exit leaves no ticket behind to block those after it
\* (sceKernelWaitSema.cpp:57-64).
QueueIsExact ==
    /\ \A t \in Threads : Queues(t) <=> t \in Range(tickets)
    /\ IsInjective(tickets)

\* If the first waiter can be served it is awake, or a notification is on its
\* way: neither a signal, nor a served waiter, nor a timed-out waiter that was
\* in front leaves it asleep (sceKernelWaitSema.cpp:66-88,
\* sceKernelSignalSema.cpp:27).
NoLostWakeup ==
    ~exit /\ tickets # <<>> /\ count >= requested[Head(tickets)] =>
      \/ ~Asleep(Head(tickets))
      \/ \E u \in Threads : pc[u] \in {"signal", "notify"}

\* A token is taken only by the first waiter, or when nobody waits: a poll
\* cannot steal it (sceKernelPollSema.cpp:21-25).
NoOvertaking ==
    [][count' < count => tickets = <<>> \/ tickets' = Tail(tickets)]_vars

\* The first waiter can be served.
Servable(t) ==
    /\ Queues(t) /\ tickets # <<>> /\ Head(tickets) = t /\ count >= requested[t]
=============================================================================
