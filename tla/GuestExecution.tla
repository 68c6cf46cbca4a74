--------------------------- MODULE GuestExecution ---------------------------
(***************************************************************************)
(* The guest execution lock of refract/src/runtime.cpp: the ticket lock    *)
(* under which every host thread that runs translated PSP code takes its   *)
(* turn on the one emulated CPU.                                           *)
(*                                                                         *)
(* Each guest thread is a host thread.  It enters through execute_guest,   *)
(* which holds the lock for one executor slice; a stub that blocks, and    *)
(* the wrapper around every yielding stub, give the lock up for a while    *)
(* with GuestExecutionPause.  The lock is a pair of counters protected by  *)
(* guest_execution_mutex; a thread whose turn has not come blocks on       *)
(* guest_execution_changed.  The condition variable is modelled step by    *)
(* step (evaluate the predicate, block, wake up, take the mutex again),    *)
(* because exit_requested is raised and announced without the mutex.       *)
(***************************************************************************)
EXTENDS Naturals

CONSTANTS
    Threads,    \* guest threads, each a host thread of its own
    Main,       \* the thread of module_start; it also runs the host loop
    NoThread,   \* "nobody holds guest_execution_mutex"
    Calls       \* bound: how many HLE calls and slices each thread makes

ASSUME ThreadsAssumption ==
    /\ Main \in Threads
    /\ NoThread \notin Threads
    /\ Calls \in [Threads -> Nat]

VARIABLES
    pc,         \* where each host thread is
    why,        \* which scope the current acquire or release belongs to
    held,       \* guest_execution_locked, thread local
    ticket,     \* local variable of acquire_guest_execution
    intr,       \* guest_interrupts_enabled, thread local
    callback,   \* inside dispatch_guest_callback
    calls,      \* calls and slices left to this thread (bounded by Calls)
    mutex,      \* holder of guest_execution_mutex
    next,       \* next_guest_ticket
    serving,    \* serving_guest_ticket
    exit,       \* exit_requested
    host        \* run_host_loop, on the main host thread

vars == <<pc, why, held, ticket, intr, callback, calls, mutex, next, serving,
          exit, host>>

locals  == <<ticket, intr, callback>>
lock    == <<mutex, next, serving>>

PCs == {"dormant",      \* no host thread yet
        "lock",         \* acquire_guest_execution, needs the mutex
        "check",        \* holds the mutex, evaluates the wait predicate
        "park",         \* holds the mutex, predicate was false, will block
        "parked",       \* blocked on guest_execution_changed
        "woken",        \* woken up, needs the mutex again
        "admit",        \* holds the mutex, predicate was true
        "guest",        \* inside the generated executor
        "stub",         \* inside the body of an HLE stub
        "return",       \* the body has ended, inside the PSPSDK_STUB wrapper
        "test",         \* loop condition of dispatch_guest_callback
        "wait",         \* blocked inside a stub, lock given up
        "exiting",      \* request_guest_exit, flag raised, nobody notified
        "release",      \* release_guest_execution, needs the mutex
        "notify",       \* release_guest_execution, mutex dropped
        "finished"}     \* the host thread has ended

\* "enter": GuestExecutionLock of execute_guest; "again" and "leave": its
\* destructor after a step_limit and after any other stop reason; "yield":
\* yield_guest in the stub wrapper; "loop": yield_guest in the callback loop;
\* "block": a stub's own GuestExecutionPause; "unpaused": the same when the
\* thread did not hold the lock, so that the pause does nothing.
Scopes == {"enter", "again", "leave", "yield", "loop", "block", "unpaused"}

Init ==
    /\ pc = [t \in Threads |-> IF t = Main THEN "lock" ELSE "dormant"]
    /\ why = [t \in Threads |-> "enter"]
    /\ held = [t \in Threads |-> FALSE]
    /\ ticket = [t \in Threads |-> 0]
    /\ intr = [t \in Threads |-> TRUE]
    /\ callback = [t \in Threads |-> FALSE]
    /\ calls = Calls
    /\ mutex = NoThread
    /\ next = 0
    /\ serving = 0
    /\ exit = FALSE
    /\ host = "guest"

Goto(t, p) == pc' = [pc EXCEPT ![t] = p]

For(t, w) == why' = [why EXCEPT ![t] = w]

\* One more HLE call or slice of t, while its bound allows it.
Spend(t) == calls[t] > 0 /\ calls' = [calls EXCEPT ![t] = @ - 1]

-----------------------------------------------------------------------------
(* acquire_guest_execution *)

\* Mutant of TakeTicket: ++next_guest_ticket for next_guest_ticket++.
TakeTicketPreIncrement(t) ==
    /\ pc[t] = "lock" /\ mutex = NoThread
    /\ mutex' = t
    /\ ticket' = [ticket EXCEPT ![t] = next + 1]
    /\ next' = next + 1
    /\ Goto(t, "check")
    /\ UNCHANGED <<why, held, intr, callback, calls, serving, exit, host>>

\* The mutex is taken and a ticket drawn.
TakeTicket(t) ==
    /\ pc[t] = "lock" /\ mutex = NoThread
    /\ mutex' = t
    /\ ticket' = [ticket EXCEPT ![t] = next]
    /\ next' = next + 1
    /\ Goto(t, "check")
    /\ UNCHANGED <<why, held, intr, callback, calls, serving, exit, host>>

\* Mutants of MayProceed: a comparison the wrong way round, and barging in
\* whenever nobody holds the lock.
MayProceedEarly(t) == serving <= ticket[t] \/ exit

MayProceedIfFree(t) == (\A u \in Threads : ~held[u]) \/ exit

\* The predicate of condition_variable::wait.
MayProceed(t) == ticket[t] = serving \/ exit

EvaluatePredicate(t) ==
    /\ pc[t] = "check"
    /\ Goto(t, IF MayProceed(t) THEN "admit" ELSE "park")
    /\ UNCHANGED <<why, held, locals, calls, lock, exit, host>>

\* The condition variable drops the mutex and blocks in one step, but only
\* after the predicate has been evaluated: a notification sent in between
\* without the mutex is missed.
Park(t) ==
    /\ pc[t] = "park"
    /\ mutex' = NoThread
    /\ Goto(t, "parked")
    /\ UNCHANGED <<why, held, locals, calls, next, serving, exit, host>>

SpuriousWakeup(t) ==
    /\ pc[t] = "parked"
    /\ Goto(t, "woken")
    /\ UNCHANGED <<why, held, locals, calls, lock, exit, host>>

Relock(t) ==
    /\ pc[t] = "woken" /\ mutex = NoThread
    /\ mutex' = t
    /\ Goto(t, "check")
    /\ UNCHANGED <<why, held, locals, calls, next, serving, exit, host>>

\* After the wait exit_requested is read once more.  Where the thread goes on
\* depends on the scope: execute_guest gives up when the lock was refused, a
\* pause ignores the refusal.
AfterAcquire(t) ==
    CASE why[t] = "enter" -> IF exit THEN "finished" ELSE "guest"
      [] why[t] = "yield" -> "guest"
      [] why[t] = "loop"  -> "test"
      [] OTHER            -> "stub"

Admit(t) ==
    /\ pc[t] = "admit"
    /\ mutex' = NoThread
    /\ held' = [held EXCEPT ![t] = ~exit]
    /\ Goto(t, AfterAcquire(t))
    /\ UNCHANGED <<why, locals, calls, next, serving, exit, host>>

-----------------------------------------------------------------------------
(* release_guest_execution *)

\* Mutant of Release: the counter moves back.
ReleaseBackwards(t) ==
    /\ pc[t] = "release" /\ mutex = NoThread
    /\ held' = [held EXCEPT ![t] = FALSE]
    /\ serving' = serving - 1
    /\ Goto(t, "notify")
    /\ UNCHANGED <<why, locals, calls, mutex, next, exit, host>>

Release(t) ==
    /\ pc[t] = "release" /\ mutex = NoThread
    /\ held' = [held EXCEPT ![t] = FALSE]
    /\ serving' = serving + 1
    /\ Goto(t, "notify")
    /\ UNCHANGED <<why, locals, calls, mutex, next, exit, host>>

\* Mutant of NotifyAll: notify_one.
NotifyOne(t, p) ==
    \E w \in Threads \ {t} :
      /\ pc[w] = "parked" \/ \A u \in Threads \ {t} : pc[u] # "parked"
      /\ pc' = [u \in Threads |-> IF u = t THEN p
                                 ELSE IF u = w /\ pc[u] = "parked"
                                        THEN "woken" ELSE pc[u]]

\* notify_all: every thread blocked on guest_execution_changed wakes up.
NotifyAll(t, p) ==
    pc' = [u \in Threads |-> IF u = t THEN p
                             ELSE IF pc[u] = "parked" THEN "woken" ELSE pc[u]]

AfterRelease(t) ==
    CASE why[t] = "leave" -> "finished"
      [] why[t] = "block" -> "wait"
      [] OTHER            -> "lock"

Notify(t) ==
    /\ pc[t] = "notify"
    /\ NotifyAll(t, AfterRelease(t))
    /\ For(t, IF why[t] = "again" THEN "enter" ELSE why[t])
    /\ UNCHANGED <<held, locals, calls, lock, exit, host>>

-----------------------------------------------------------------------------
(* execute_guest, dispatch_guest_callback and the stub wrapper *)

\* yield_guest: nothing with interrupts suspended, otherwise a
\* GuestExecutionPause, which does nothing for a thread without the lock.
YieldGuest(t, scope, next_pc) ==
    IF intr[t] /\ held[t]
      THEN Goto(t, "release") /\ For(t, scope)
      ELSE Goto(t, next_pc) /\ UNCHANGED why

\* The executor returned with a stop reason other than step_limit: a callback
\* goes back to the stub that dispatched it, a thread leaves execute_guest.
ExecutorReturns(t) ==
    /\ Goto(t, IF callback[t] THEN "stub" ELSE "release")
    /\ why' = IF callback[t] THEN why ELSE [why EXCEPT ![t] = "leave"]
    /\ callback' = [callback EXCEPT ![t] = FALSE]

GuestReturn(t) ==
    /\ pc[t] = "guest"
    /\ ExecutorReturns(t)
    /\ UNCHANGED <<held, ticket, intr, calls, lock, exit, host>>

\* The dispatch budget of the executor is used up.  execute_guest releases
\* the lock and enters again, whatever guest_interrupts_enabled says; the
\* callback loop yields.
StepLimit(t) ==
    /\ pc[t] = "guest"
    /\ Spend(t)
    /\ IF callback[t] THEN YieldGuest(t, "loop", "test")
                      ELSE Goto(t, "release") /\ For(t, "again")
    /\ UNCHANGED <<held, locals, lock, exit, host>>

CallbackLoop(t) ==
    /\ pc[t] = "test"
    /\ IF exit THEN ExecutorReturns(t)
               ELSE Goto(t, "guest") /\ UNCHANGED <<why, callback>>
    /\ UNCHANGED <<held, ticket, intr, calls, lock, exit, host>>

CallStub(t) ==
    /\ pc[t] = "guest"
    /\ Spend(t)
    /\ Goto(t, "stub")
    /\ UNCHANGED <<why, held, locals, lock, exit, host>>

\* The body of a yielding stub has ended: the PSPSDK_STUB wrapper.
StubReturn(t) ==
    /\ pc[t] \in {"stub", "return"}
    /\ IF exit THEN ExecutorReturns(t)
               ELSE YieldGuest(t, "yield", "guest") /\ UNCHANGED callback
    /\ UNCHANGED <<held, ticket, intr, calls, lock, exit, host>>

\* The wrapper of a stub that is_non_yielding_stub names.
NonYieldingReturn(t) ==
    IF exit THEN ExecutorReturns(t)
            ELSE Goto(t, "guest") /\ UNCHANGED <<why, callback>>

SuspendIntr(t) ==
    /\ pc[t] = "guest" /\ intr[t]
    /\ Spend(t)
    /\ intr' = [intr EXCEPT ![t] = FALSE]
    /\ NonYieldingReturn(t)
    /\ UNCHANGED <<held, ticket, lock, exit, host>>

ResumeIntr(t) ==
    /\ pc[t] = "guest" /\ ~intr[t]
    /\ Spend(t)
    /\ intr' = [intr EXCEPT ![t] = TRUE]
    /\ NonYieldingReturn(t)
    /\ UNCHANGED <<held, ticket, lock, exit, host>>

\* A stub that was just called, or goes on after an earlier callback, runs a
\* guest callback on the calling thread.
DispatchCallback(t) ==
    /\ pc[t] \in {"guest", "stub"} /\ ~callback[t]
    /\ Spend(t)
    /\ callback' = [callback EXCEPT ![t] = TRUE]
    /\ Goto(t, "guest")
    /\ UNCHANGED <<why, held, ticket, intr, lock, exit, host>>

\* sceKernelStartThread creates the host thread of u.
StartThread(t, u) ==
    /\ pc[t] = "guest" /\ pc[u] = "dormant"
    /\ Spend(t)
    /\ pc' = [pc EXCEPT ![t] = "return", ![u] = "lock"]
    /\ UNCHANGED <<why, held, locals, lock, exit, host>>

\* A stub that blocks: GuestExecutionPause around a wait.
StubBlock(t) ==
    /\ pc[t] = "stub"
    /\ Spend(t)
    /\ IF held[t] THEN Goto(t, "release") /\ For(t, "block")
                  ELSE Goto(t, "wait") /\ For(t, "unpaused")
    /\ UNCHANGED <<held, locals, lock, exit, host>>

\* Mutant of WaitOver: the pause does not take the lock back.
WaitOverUnlocked(t) ==
    /\ pc[t] = "wait"
    /\ Goto(t, "stub")
    /\ UNCHANGED <<why, held, locals, calls, lock, exit, host>>

\* What the stub waited for has happened; the pause takes the lock back.
WaitOver(t) ==
    /\ pc[t] = "wait"
    /\ Goto(t, IF why[t] = "block" THEN "lock" ELSE "stub")
    /\ UNCHANGED <<why, held, locals, calls, lock, exit, host>>

-----------------------------------------------------------------------------
(* request_guest_exit, by sceKernelExitGame and by run_host_loop *)

ExitGame(t) ==
    /\ pc[t] = "guest"
    /\ Spend(t)
    /\ exit' = TRUE
    /\ Goto(t, "exiting")
    /\ UNCHANGED <<why, held, locals, lock, host>>

\* guest_execution_changed is notified without the mutex; the stub then sets
\* stop_reason to returned.
ExitGameNotify(t) ==
    /\ pc[t] = "exiting"
    /\ NotifyAll(t, IF callback[t] THEN "stub" ELSE "release")
    /\ why' = IF callback[t] THEN why ELSE [why EXCEPT ![t] = "leave"]
    /\ callback' = [callback EXCEPT ![t] = FALSE]
    /\ UNCHANGED <<held, ticket, intr, calls, lock, exit, host>>

\* The main host thread enters the event loop when module_start has returned.
HostLoop ==
    /\ host = "guest" /\ pc[Main] = "finished"
    /\ host' = "loop"
    /\ UNCHANGED <<pc, why, held, locals, calls, lock, exit>>

\* The event loop has ended: the window was closed or sceKernelExitGame ran.
HostExit ==
    /\ host = "loop"
    /\ exit' = TRUE
    /\ host' = "exiting"
    /\ UNCHANGED <<pc, why, held, locals, calls, lock>>

HostNotify ==
    /\ host = "exiting"
    /\ NotifyAll(NoThread, "finished")
    /\ host' = "join"
    /\ UNCHANGED <<why, held, locals, calls, lock, exit>>

\* wait_for_guest_threads: every started thread has been joined.
HostJoined ==
    /\ host = "join"
    /\ \A t \in Threads : pc[t] \in {"dormant", "finished"}
    /\ host' = "ended"
    /\ UNCHANGED <<pc, why, held, locals, calls, lock, exit>>

\* The process has ended.
Ended == host = "ended" /\ UNCHANGED vars

-----------------------------------------------------------------------------
\* Steps of t that need nothing from another thread.
Local(t) ==
    \/ EvaluatePredicate(t) \/ Park(t) \/ Admit(t) \/ Notify(t)
    \/ GuestReturn(t) \/ StepLimit(t) \/ CallbackLoop(t) \/ CallStub(t)
    \/ StubReturn(t) \/ DispatchCallback(t) \/ StubBlock(t)
    \/ SuspendIntr(t) \/ ResumeIntr(t)
    \/ ExitGame(t) \/ ExitGameNotify(t)
    \/ \E u \in Threads : StartThread(t, u)

\* Steps of t that take guest_execution_mutex.
Locking(t) == TakeTicket(t) \/ Relock(t) \/ Release(t)

Thread(t) == Local(t) \/ Locking(t) \/ SpuriousWakeup(t) \/ WaitOver(t)

Host == HostLoop \/ HostExit \/ HostNotify \/ HostJoined

Next == (\E t \in Threads : Thread(t)) \/ Host \/ Ended

Spec == Init /\ [][Next]_vars

\* The host scheduler runs every thread that can run, and std::mutex does not
\* refuse a thread for ever; an executor slice ends because its dispatch
\* budget is finite.  Nothing is assumed of what a blocked stub waits for.
Fairness ==
    /\ \A t \in Threads : WF_vars(Local(t)) /\ SF_vars(Locking(t))
    /\ WF_vars(HostLoop \/ HostNotify \/ HostJoined)

FairSpec == Spec /\ Fairness

-----------------------------------------------------------------------------
TypeOK ==
    /\ pc \in [Threads -> PCs]
    /\ why \in [Threads -> Scopes]
    /\ held \in [Threads -> BOOLEAN]
    /\ ticket \in [Threads -> Nat]
    /\ intr \in [Threads -> BOOLEAN]
    /\ callback \in [Threads -> BOOLEAN]
    /\ calls \in [Threads -> Nat]
    /\ mutex \in Threads \cup {NoThread}
    /\ next \in Nat
    /\ serving \in Nat
    /\ exit \in BOOLEAN
    /\ host \in {"guest", "loop", "exiting", "join", "ended"}

\* Drawn a ticket, not admitted yet.
Waiting(t) == pc[t] \in {"check", "park", "parked", "woken", "admit"}

HasTicket(t) == Waiting(t) \/ held[t]

\* Runs guest code, or stub code on behalf of the guest.
Running(t) == pc[t] \in {"guest", "stub", "return", "test"}

\* At most one host thread believes it holds the guest execution lock, also
\* while an exit is under way and pauses are refused the lock (882-904).
MutualExclusion ==
    \A t, u \in Threads : held[t] /\ held[u] => t = u

\* Until an exit is requested a thread that runs guest or stub code holds the
\* lock, so no two of them touch guest memory at once (684-687).
RunningHoldsLock ==
    ~exit => \A t \in Threads : Running(t) => held[t]

\* Until an exit is requested every ticket between serving_guest_ticket and
\* next_guest_ticket belongs to exactly one thread that waits for the lock or
\* holds it: no turn is lost, none is given twice.
EveryTicketOwned ==
    ~exit => \A k \in serving..(next - 1) :
               \E t \in Threads :
                 /\ HasTicket(t) /\ ticket[t] = k
                 /\ \A u \in Threads : HasTicket(u) /\ ticket[u] = k => u = t

\* The thread whose turn it is does not sleep through it: if it is blocked on
\* guest_execution_changed, the notify_all of the last release is still to
\* come (897-904).
NoLostTurn ==
    ~exit => \A t \in Threads :
               pc[t] = "parked" /\ ticket[t] = serving =>
                 \E u \in Threads : pc[u] = "notify"

\* A thread that waits for the lock gets it, unless the process exits.
TurnComes ==
    \A t \in Threads : (pc[t] = "lock" \/ Waiting(t)) ~> (held[t] \/ exit)

-----------------------------------------------------------------------------
(* The inductive invariant behind the safety properties.  A thread in the *)
(* predicate loop of condition_variable::wait holds the mutex exactly in  *)
(* three places; until an exit, tickets are a gapless line whose head is  *)
(* the holder, if there is one.                                           *)

MutexHolder ==
    \A t \in Threads : mutex = t <=> pc[t] \in {"check", "park", "admit"}

HolderPlace ==
    \A t \in Threads :
      held[t] => pc[t] \in {"guest", "stub", "return", "test", "exiting", "release"}

ExitingPlace == \A t \in Threads : pc[t] = "exiting" => exit

RunsOnlyHolding ==
    \A t \in Threads :
      pc[t] \in {"guest", "stub", "return", "test", "release"} => held[t]

PausedPlace == \A t \in Threads : pc[t] = "wait" => why[t] = "block"

TicketRange ==
    /\ serving <= next
    /\ \A t \in Threads : HasTicket(t) => serving <= ticket[t] /\ ticket[t] < next

TicketUnique ==
    \A t, u \in Threads :
      HasTicket(t) /\ HasTicket(u) /\ ticket[t] = ticket[u] => t = u

HeadServed ==
    \A t \in Threads : held[t] \/ pc[t] = "admit" => ticket[t] = serving

ParkedOutOfTurn == \A t \in Threads : pc[t] = "park" => ticket[t] # serving

NoGap ==
    \A k \in Nat : serving <= k /\ k < next =>
      \E t \in Threads : HasTicket(t) /\ ticket[t] = k

HeadNotified ==
    \A t \in Threads : pc[t] = "parked" /\ ticket[t] = serving =>
      \E u \in Threads : pc[u] = "notify"

TicketLine ==
    /\ RunsOnlyHolding /\ PausedPlace /\ TicketRange /\ TicketUnique
    /\ HeadServed /\ ParkedOutOfTurn /\ NoGap /\ HeadNotified

IInv ==
    /\ TypeOK
    /\ MutexHolder
    /\ HolderPlace
    /\ ExitingPlace
    /\ MutualExclusion
    /\ ~exit => TicketLine

-----------------------------------------------------------------------------
(* The lock implements a CPU handed out first come, first served. *)

Owner == IF \E t \in Threads : held[t]
           THEN CHOOSE t \in Threads : held[t] ELSE NoThread

Line == IF exit THEN {} ELSE {t \in Threads : Waiting(t)}

Before(t) == IF t \in Line THEN {u \in Line : ticket[u] < ticket[t]} ELSE {}

Cpu == INSTANCE GuestCpu
         WITH owner <- Owner, waiting <- Line,
              ahead <- [t \in Threads |-> Before(t)], closed <- exit

\* Every step of acquire_guest_execution and release_guest_execution is a
\* step of that CPU or changes nothing it can see.
ImplementsCpu == Cpu!Spec

\* A free CPU is eventually given to the first in line, unless the process
\* exits.
ImplementsFairCpu == Cpu!FairSpec

-----------------------------------------------------------------------------
(* What a comment of host.hpp says and the code does not do. *)

\* host.hpp:57-58: guest threads are joined "during application exit", so
\* wait_for_guest_threads ends once every producer and waiter is released.
ExitJoinsThreads == (host = "join") ~> (host = "ended")

\* For ExitJoinsThreads: every blocked stub is released by the exit.
ExitFairSpec == FairSpec /\ \A t \in Threads : WF_vars(exit /\ WaitOver(t))
-----------------------------------------------------------------------------
(* The instance for TLC *)

\* Bounds: the main thread starts the others, each of which makes one call.
MCCalls == [t \in Threads |-> IF t = Main THEN 2 ELSE 1]
=============================================================================
