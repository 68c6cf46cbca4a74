------------------------------- MODULE HleWait -------------------------------
(***************************************************************************)
(* The frame every blocking kernel stub of refract/src/stubs/kernel is     *)
(* built in: a kernel object with a mutex and a condition variable, stubs  *)
(* that run while their thread has the emulated CPU, and waits that give   *)
(* the CPU up with GuestExecutionPause while they hold the object's mutex. *)
(* One object and the threads that use it; the modules that EXTEND this    *)
(* one add the object's state, the wait predicate and the stubs.           *)
(*                                                                         *)
(* The CPU is the one of GuestCpu without its queue: a free CPU goes to    *)
(* any thread that asks for it.                                            *)
(***************************************************************************)
EXTENDS Naturals, Sequences, FiniteSets

CONSTANTS
    Threads,    \* guest threads
    NoThread,   \* "nobody"
    Timeouts    \* whether guests pass a timeout to a wait, a set of Booleans

ASSUME HleAssumption == NoThread \notin Threads /\ Timeouts \subseteq BOOLEAN

VARIABLES
    cpu,        \* the thread that has the emulated CPU, or NoThread
    exit,       \* exit_requested
    host,       \* request_guest_exit on the host thread
    pc,         \* where each thread is
    calls,      \* kernel calls left to each thread
    mutex,      \* holder of the object's mutex, or NoThread
    alive,      \* the object is in the runtime's table
    timed       \* the wait in progress has a timeout

hle == <<cpu, exit, host, pc, calls, mutex, alive, timed>>

HlePCs ==
    {"guest",       \* runs guest code
     "eval",        \* holds the object's mutex, evaluates the wait predicate
     "park",        \* holds the mutex, predicate was false, will block
     "parked",      \* blocked on the object's condition variable
     "woken",       \* woken up, needs the mutex again
     "expired",     \* the timeout has run out, needs the mutex again
     "timeout",     \* holds the mutex, predicate false after the timeout
     "commit",      \* holds the mutex, predicate was true
     "notify",      \* has dropped the mutex, will notify, without the CPU
     "resume",      \* end of the pause, needs the CPU
     "signal",      \* has dropped the mutex, will notify, with the CPU
     "announce",    \* the same for a deletion or a clearing
     "retake",      \* end of a pause in the loop of a variable pool
     "retry",       \* has the CPU back, tries the variable pool again
     "return",      \* back in the PSPSDK_STUB wrapper
     "yield",       \* yield_guest in the wrapper, needs the CPU
     "finished"}    \* the thread has ended

HoldsMutex == {"eval", "park", "timeout", "commit"}

HleInit ==
    /\ cpu = NoThread
    /\ exit = FALSE
    /\ host = "run"
    /\ pc = [t \in Threads |-> "yield"]
    /\ calls \in [Threads -> Nat]
    /\ mutex = NoThread
    /\ alive = TRUE
    /\ timed = [t \in Threads |-> FALSE]

HleTypeOK ==
    /\ cpu \in Threads \cup {NoThread}
    /\ exit \in BOOLEAN
    /\ host \in {"run", "flag", "notified"}
    /\ pc \in [Threads -> HlePCs]
    /\ calls \in [Threads -> Nat]
    /\ mutex \in Threads \cup {NoThread}
    /\ alive \in BOOLEAN
    /\ timed \in [Threads -> BOOLEAN]

Goto(t, p) == pc' = [pc EXCEPT ![t] = p]

WithoutCpu(t) == IF cpu = t THEN NoThread ELSE cpu

-----------------------------------------------------------------------------
(* Calls *)

\* t calls a stub that ends in one step at p, without touching the mutex.
Call(t, p) ==
    /\ pc[t] = "guest" /\ calls[t] > 0
    /\ calls' = [calls EXCEPT ![t] = @ - 1]
    /\ Goto(t, p)
    /\ UNCHANGED <<cpu, exit, host, mutex, timed>>

\* The same for a stub that takes and drops the object's mutex.
LockedCall(t, p) == mutex = NoThread /\ Call(t, p)

\* A stub is_non_yielding_stub names: the wrapper only looks at the exit.
Quietly == IF exit THEN "return" ELSE "guest"

\* t calls a stub that waits: it takes the mutex and gives the CPU up.
BeginWait(t, withTimeout) ==
    /\ pc[t] = "guest" /\ calls[t] > 0 /\ mutex = NoThread
    /\ calls' = [calls EXCEPT ![t] = @ - 1]
    /\ mutex' = t
    /\ cpu' = WithoutCpu(t)
    /\ timed' = [timed EXCEPT ![t] = withTimeout]
    /\ Goto(t, "eval")
    /\ UNCHANGED <<exit, host, alive>>

\* Mutant of EndWait: the mutex is dropped after the pause only.
EndWaitLocked(t, p) ==
    /\ timed' = [timed EXCEPT ![t] = FALSE]
    /\ Goto(t, p)
    /\ UNCHANGED <<cpu, exit, host, calls, mutex, alive>>

\* The wait is over: the mutex is dropped before the pause takes the CPU back.
\* (Locals that are dead from here on are reset, to merge states.)
EndWait(t, p) ==
    /\ mutex' = NoThread
    /\ timed' = [timed EXCEPT ![t] = FALSE]
    /\ Goto(t, p)
    /\ UNCHANGED <<cpu, exit, host, calls, alive>>

-----------------------------------------------------------------------------
(* condition_variable::wait and wait_for with a predicate *)

Evaluate(t, available) ==
    /\ pc[t] = "eval"
    /\ Goto(t, IF available THEN "commit" ELSE "park")
    /\ UNCHANGED <<cpu, exit, host, calls, mutex, alive, timed>>

Park(t) ==
    /\ pc[t] = "park"
    /\ mutex' = NoThread
    /\ Goto(t, "parked")
    /\ UNCHANGED <<cpu, exit, host, calls, alive, timed>>

SpuriousWakeup(t) ==
    /\ pc[t] = "parked"
    /\ Goto(t, "woken")
    /\ UNCHANGED <<cpu, exit, host, calls, mutex, alive, timed>>

Expire(t) ==
    /\ pc[t] = "parked" /\ timed[t]
    /\ Goto(t, "expired")
    /\ UNCHANGED <<cpu, exit, host, calls, mutex, alive, timed>>

Relock(t) ==
    /\ pc[t] = "woken" /\ mutex = NoThread
    /\ mutex' = t
    /\ Goto(t, "eval")
    /\ UNCHANGED <<cpu, exit, host, calls, alive, timed>>

\* After a timeout wait_for evaluates the predicate a last time.
RelockExpired(t, available) ==
    /\ pc[t] = "expired" /\ mutex = NoThread
    /\ mutex' = t
    /\ Goto(t, IF available THEN "commit" ELSE "timeout")
    /\ UNCHANGED <<cpu, exit, host, calls, alive, timed>>

NotifyAll(t, p) ==
    pc' = [u \in Threads |-> IF u = t THEN p
                             ELSE IF pc[u] = "parked" THEN "woken" ELSE pc[u]]

\* notify_one wakes some blocked thread, if there is one.
NotifyOne(t, p) ==
    \/ \E w \in Threads : pc[w] = "parked"
         /\ pc' = [pc EXCEPT ![t] = p, ![w] = "woken"]
    \/ (\A w \in Threads : pc[w] # "parked") /\ Goto(t, p)

\* In a wait for the object, from the stub's lock of the mutex to its unlock.
WaitPCs == {"eval", "park", "parked", "woken", "expired", "timeout", "commit"}

Waits(t) == pc[t] \in WaitPCs

\* Blocked, or about to be: only a notification or a timeout helps.
Asleep(t) == pc[t] \in {"park", "parked"}

\* A waiter that ends its wait notifies the others before it resumes.
WaiterNotifies(t) ==
    /\ pc[t] = "notify"
    /\ NotifyAll(t, "resume")
    /\ UNCHANGED <<cpu, exit, host, calls, mutex, alive, timed>>

-----------------------------------------------------------------------------
(* The CPU *)

\* GuestExecutionPause takes the CPU back; once the exit is requested it goes
\* on without it.
TakeCpu(t) ==
    /\ pc[t] \in {"resume", "yield"}
    /\ \/ cpu = NoThread /\ ~exit /\ cpu' = t
       \/ exit /\ UNCHANGED cpu
    /\ Goto(t, IF pc[t] = "resume" THEN "return" ELSE "guest")
    /\ UNCHANGED <<exit, host, calls, mutex, alive, timed>>

\* The wrapper of a yielding stub: it stops the thread or yields the CPU.
Yield(t) ==
    /\ pc[t] = "return"
    /\ cpu' = WithoutCpu(t)
    /\ Goto(t, IF exit THEN "finished" ELSE "yield")
    /\ UNCHANGED <<exit, host, calls, mutex, alive, timed>>

\* The guest function returns.
Finish(t) ==
    /\ pc[t] = "guest"
    /\ cpu' = WithoutCpu(t)
    /\ Goto(t, "finished")
    /\ UNCHANGED <<exit, host, calls, mutex, alive, timed>>

-----------------------------------------------------------------------------
(* request_guest_exit: the flag, then a notification of every object that is *)
(* still in its table, without the object's mutex.                           *)

ExitFlag ==
    /\ host = "run"
    /\ exit' = TRUE
    /\ host' = "flag"
    /\ UNCHANGED <<cpu, pc, calls, mutex, alive, timed>>

ExitNotify ==
    /\ host = "flag"
    /\ IF alive THEN NotifyAll(NoThread, "finished") ELSE UNCHANGED pc
    /\ host' = "notified"
    /\ UNCHANGED <<cpu, exit, calls, mutex, alive, timed>>

\* Steps of the wrapper and of the executor around the stubs.
CpuStep(t) == TakeCpu(t) \/ Yield(t) \/ Finish(t)

Environment == (\E t \in Threads : SpuriousWakeup(t) \/ Expire(t)) \/ ExitFlag \/ ExitNotify

\* Every thread has ended, or sleeps on an object nobody will notify again.
Quiescent ==
    \A t \in Threads : pc[t] \in {"finished", "parked"}
=============================================================================
