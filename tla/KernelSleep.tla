---------------------------- MODULE KernelSleep ----------------------------
(***************************************************************************)
(* Sleeping threads: sceKernelSleepThread, sceKernelWakeupThread and       *)
(* sceKernelCancelWakeupThread.  The object is the sleep state of one      *)
(* thread, which only that thread waits on; the states of different        *)
(* threads share nothing.                                                  *)
(***************************************************************************)
EXTENDS HleWait

VARIABLES
    sleeper,        \* the thread whose sleep state this is
    wakeupCount,    \* GuestThread::wakeup_count
    sent,           \* history: calls of sceKernelWakeupThread
    slept,          \* history: sleeps a wakeup ended
    cancelled       \* history: wakeups cancelled

slp  == <<sleeper, wakeupCount, sent, slept, cancelled>>
vars == <<hle, slp>>

ObjectInit == wakeupCount = 0 /\ sent = 0 /\ slept = 0 /\ cancelled = 0

Init == HleInit /\ ObjectInit /\ sleeper \in Threads

-----------------------------------------------------------------------------
\* Here the CPU is given up before the mutex is taken.
SleepThread(t) ==
    /\ t = sleeper
    /\ pc[t] = "guest" /\ calls[t] > 0
    /\ calls' = [calls EXCEPT ![t] = @ - 1]
    /\ cpu' = WithoutCpu(t)
    /\ Goto(t, "woken")
    /\ UNCHANGED <<exit, host, mutex, alive, timed, slp>>

Available == wakeupCount # 0 \/ exit

CommitSleep(t) ==
    /\ pc[t] = "commit"
    /\ IF wakeupCount # 0
         THEN wakeupCount' = wakeupCount - 1 /\ slept' = slept + 1
         ELSE UNCHANGED <<wakeupCount, slept>>
    /\ EndWait(t, "resume")
    /\ UNCHANGED <<sleeper, sent, cancelled>>

WakeupThread(t) ==
    /\ LockedCall(t, "signal")
    /\ wakeupCount' = wakeupCount + 1
    /\ sent' = sent + 1
    /\ UNCHANGED <<alive, sleeper, slept, cancelled>>

\* Mutant of WakeupNotifies: only the first pending wakeup notifies.
WakeupNotifiesFirst(t) ==
    /\ pc[t] = "signal"
    /\ IF wakeupCount > 1 THEN Goto(t, "return") ELSE NotifyOne(t, "return")
    /\ UNCHANGED <<cpu, exit, host, calls, mutex, alive, timed, slp>>

WakeupNotifies(t) ==
    /\ pc[t] = "signal"
    /\ NotifyOne(t, "return")
    /\ UNCHANGED <<cpu, exit, host, calls, mutex, alive, timed, slp>>

CancelWakeupThread(t) ==
    /\ LockedCall(t, "return")
    /\ cancelled' = cancelled + wakeupCount
    /\ wakeupCount' = 0
    /\ UNCHANGED <<alive, sleeper, sent, slept>>

-----------------------------------------------------------------------------
Relocking(t) == Relock(t) /\ UNCHANGED slp

Running(t) ==
    \/ CommitSleep(t) \/ WakeupNotifies(t)
    \/ (Evaluate(t, Available) \/ Park(t)) /\ UNCHANGED slp

Guest(t) == SleepThread(t) \/ WakeupThread(t) \/ CancelWakeupThread(t)

Next ==
    \/ \E t \in Threads : Running(t) \/ Relocking(t) \/ Guest(t)
    \/ \E t \in Threads : CpuStep(t) /\ UNCHANGED slp
    \/ Environment /\ UNCHANGED slp
    \/ Quiescent /\ UNCHANGED vars

Spec == Init /\ [][Next]_vars
-----------------------------------------------------------------------------
TypeOK ==
    /\ HleTypeOK
    /\ sleeper \in Threads
    /\ wakeupCount \in Nat /\ sent \in Nat /\ slept \in Nat /\ cancelled \in Nat

\* Every wakeup is pending, has ended exactly one sleep, or was cancelled: one
\* that comes before the sleep, or while another is pending, is not lost
\* (sleep_thread.hpp:19-29, sceKernelWakeupThread.cpp:15-18).
WakeupsConserved == sent = wakeupCount + slept + cancelled

\* The sleeper does not sleep beside a pending wakeup, unless the notification
\* is on its way.
NoLostWakeup ==
    wakeupCount > 0 /\ Asleep(sleeper) =>
      \E t \in Threads : pc[t] = "signal"

\* The sleep can end.
Servable(t) == t = sleeper /\ Waits(t) /\ wakeupCount > 0
=============================================================================
