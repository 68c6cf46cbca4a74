--------------------------- MODULE KernelEventFlag ---------------------------
(***************************************************************************)
(* Event flags: sceKernelSetEventFlag, sceKernelClearEventFlag,            *)
(* sceKernelWaitEventFlag, sceKernelPollEventFlag and                      *)
(* sceKernelDeleteEventFlag.  A bit pattern is the set of its bits.        *)
(***************************************************************************)
EXTENDS HleWait

CONSTANTS
    Bits,       \* bits of the flag
    NoWait      \* "no wait in progress"

Patterns == SUBSET Bits \ {{}}

\* Modes of a wait: any bit or all of them, and what is cleared afterwards.
Modes == [any : BOOLEAN, clear : {"none", "pattern", "all"}]

VARIABLES
    bits,       \* EventFlag::bits
    waiting,    \* EventFlag::waiting_threads
    wait        \* pattern and mode of the wait in progress

flag == <<bits, waiting, wait>>
vars == <<hle, flag>>

ObjectInit ==
    /\ bits = {}
    /\ waiting = 0
    /\ wait = [t \in Threads |-> NoWait]

Init == HleInit /\ ObjectInit

Matched(pattern, mode) ==
    IF mode.any THEN bits \cap pattern # {} ELSE pattern \subseteq bits

Cleared(pattern, mode) ==
    CASE mode.clear = "all"     -> {}
      [] mode.clear = "pattern" -> bits \ pattern
      [] OTHER                  -> bits

-----------------------------------------------------------------------------
\* The event flag is not in the table.
UnknownEvent(t) ==
    /\ ~alive
    /\ Call(t, "return")
    /\ UNCHANGED <<alive, flag>>

SetEventFlag(t, pattern) ==
    /\ alive
    /\ LockedCall(t, "signal")
    /\ bits' = bits \cup pattern
    /\ UNCHANGED <<alive, waiting, wait>>

\* The pattern is the set of bits to keep.
ClearEventFlag(t, pattern) ==
    /\ alive
    /\ LockedCall(t, "announce")
    /\ bits' = bits \cap pattern
    /\ UNCHANGED <<alive, waiting, wait>>

SetNotifies(t) ==
    /\ pc[t] = "signal"
    /\ NotifyAll(t, "return")
    /\ UNCHANGED <<cpu, exit, host, calls, mutex, alive, timed, flag>>

ClearNotifies(t) ==
    /\ pc[t] = "announce"
    /\ NotifyAll(t, Quietly)
    /\ UNCHANGED <<cpu, exit, host, calls, mutex, alive, timed, flag>>

\* The timeout argument is not looked at: the wait is never timed.
WaitEventFlag(t, pattern, mode) ==
    /\ alive
    /\ BeginWait(t, FALSE)
    /\ waiting' = waiting + 1
    /\ wait' = [wait EXCEPT ![t] = [pattern |-> pattern, mode |-> mode]]
    /\ UNCHANGED bits

Satisfied(t) == wait[t] # NoWait /\ Matched(wait[t].pattern, wait[t].mode)

Available(t) == Satisfied(t) \/ exit

\* The bits are cleared even if it is the exit that ended the wait.
CommitWait(t) ==
    /\ pc[t] = "commit"
    /\ waiting' = waiting - 1
    /\ bits' = Cleared(wait[t].pattern, wait[t].mode)
    /\ EndWait(t, "resume")
    /\ wait' = [wait EXCEPT ![t] = NoWait]

PollEventFlag(t, pattern, mode) ==
    /\ alive
    /\ LockedCall(t, Quietly)
    /\ bits' = IF Matched(pattern, mode) THEN Cleared(pattern, mode) ELSE bits
    /\ UNCHANGED <<alive, waiting, wait>>

\* The entry leaves the table; waiters are not notified.
DeleteEventFlag(t) ==
    /\ alive
    /\ Call(t, "return")
    /\ alive' = FALSE
    /\ UNCHANGED flag

-----------------------------------------------------------------------------
Relocking(t) == Relock(t) /\ UNCHANGED flag

Running(t) ==
    \/ CommitWait(t) \/ SetNotifies(t) \/ ClearNotifies(t)
    \/ pc[t] = "eval" /\ Evaluate(t, Available(t)) /\ UNCHANGED flag
    \/ Park(t) /\ UNCHANGED flag

Guest(t) ==
    \/ \E p \in Patterns : SetEventFlag(t, p) \/ ClearEventFlag(t, Bits \ p)
    \/ \E p \in Patterns, mode \in Modes :
         PollEventFlag(t, p, mode) \/ WaitEventFlag(t, p, mode)
    \/ DeleteEventFlag(t) \/ UnknownEvent(t)

Next ==
    \/ \E t \in Threads : Running(t) \/ Relocking(t) \/ Guest(t)
    \/ \E t \in Threads : CpuStep(t) /\ UNCHANGED flag
    \/ Environment /\ UNCHANGED flag
    \/ Quiescent /\ UNCHANGED vars

Spec == Init /\ [][Next]_vars
-----------------------------------------------------------------------------
\* The number sceKernelReferEventFlagStatus reports is the number of threads
\* in a wait, however their waits end (sceKernelWaitEventFlag.cpp:22-25,
\* sceKernelReferEventFlagStatus.cpp:43-44).
WaitingExact == waiting = Cardinality({t \in Threads : Waits(t)})

\* Nobody sleeps on a pattern that is there, unless the notification is on its
\* way: setting the bits and waking are two steps, and one notification must
\* reach whichever waiters match (sceKernelSetEventFlag.cpp:12-16).
NoLostWakeup ==
    \A t \in Threads : Asleep(t) /\ Satisfied(t) /\ ~exit =>
      \E u \in Threads : pc[u] = "signal"

\* Until the exit a wait ends only with its pattern in the flag, although
\* other waiters, polls and clears take bits away between the notification and
\* the wakeup (sceKernelWaitEventFlag.cpp:23-30).
ServedWithPattern ==
    [][\A t \in Threads : CommitWait(t) /\ ~exit => Satisfied(t)]_vars

\* A waiter can be served.
Servable(t) == Waits(t) /\ Satisfied(t)

=============================================================================
