---------------------------- MODULE HostThreads ----------------------------
(***************************************************************************)
(* The host threads of the runtime, which the exit joins or leaves to end: *)
(* those of alarms and sub-interrupts, those of guest threads, and the     *)
(* grains the guest's audio thread has mixed (SasVoices).                  *)
(*                                                                         *)
(* These share no state but the guest CPU, which is GuestExecution's       *)
(* subject, so that a behaviour seen from one of them is one in which the  *)
(* guests use that one only: `part' is chosen at the start.                *)
(***************************************************************************)
EXTENDS Integers, TLC

CONSTANTS
    Parts,        \* the parts to look at
    CallsOf,      \* bound: calls of the guests, per part
    Threads,      \* timers, or guest threads that can be created
    Alarms,       \* those of the timers that are alarms
    Main,         \* the first guest thread
    Host,         \* the host's main thread
    Nobody,       \* no thread
    MaxRuns,      \* bound: starts of each thread
    Voices, VagData, BlockSamples, PcmSizes, Top,   \* SasVoices
    Phases, Rates, Levels, Envelopes, One, Pitches

VARIABLES
    part, calls,
    tpc,          \* where the thread of each timer is
    cancelled,    \* cancelled of each timer
    enabled,      \* enabled of each sub-interrupt
    cpu,          \* the timer that holds the guest CPU; Nobody: the guest's threads
    exiting,      \* exit_requested
    unwoken,      \* timers the exit's notification missed as they asked for the CPU
    failed,       \* history: timers whose handler could not run, or did not return
    late,         \* history: firings begun after the cancellation
    spawned       \* history: threads started for a timer

VARIABLES
    table,        \* implementation.threads
    joinable,     \* threads whose host_thread is joinable
    active,       \* thread -> runs of it whose host thread has not ended
    runs,         \* bound: thread -> times it was started
    doing,        \* "running", "delay" or "join" of each that can be
    target,       \* whom it joins
    leaving,      \* exit_requested
    stuck,        \* threads the exit's notification missed in a wait
    pending,      \* the host's list of threads still to be joined
    undefined,    \* two joins of the same thread met
    voices, vag, outside                            \* SasVoices

Sas == INSTANCE SasVoices

AllParts == {"timers", "lives", "sas"}

ASSUME HostThreadsAssumption ==
    /\ Parts \subseteq AllParts /\ CallsOf \in [AllParts -> Nat]
    /\ Alarms \subseteq Threads
    /\ Main \notin Threads /\ Host \notin Threads \cup {Main}
    /\ Nobody \notin Threads \cup {Main, Host} /\ MaxRuns \in Nat
    /\ Sas!SasAssumption

timer == <<tpc, cancelled, enabled, cpu, exiting, unwoken, failed, late, spawned>>
lives == <<table, joinable, active, runs, doing, target, leaving, stuck, pending, undefined>>
sas   == <<voices, vag, outside>>
vars  == <<part, calls, timer, lives, sas>>
-----------------------------------------------------------------------------
(***************************************************************************)
(* Alarms (sceKernelSetAlarm, sceKernelCancelAlarm) and sub-interrupts of  *)
(* the display (sceKernelRegister-, Enable- and ReleaseSubIntrHandler).    *)
(* Each has a host thread that waits on the timer's condition variable     *)
(* until the period is over, takes the guest CPU and runs the handler as   *)
(* guest code.  Cancelling and releasing are calls of the guest; they do   *)
(* not wait for the timer's thread.                                        *)
(*                                                                         *)
(* Time is left out: a period may be over at any time.  The guest CPU is   *)
(* held by the guest's threads or by one timer; GuestExecution has the     *)
(* ticket lock itself.                                                     *)
(***************************************************************************)

Timers == Threads
SubIntrs == Threads \ Alarms        \* sub-interrupts of interrupt 30

TimersInit ==
    /\ tpc = [x \in Timers |-> "none"]
    /\ cancelled = [x \in Timers |-> FALSE]
    /\ enabled = [x \in Timers |-> FALSE]
    /\ cpu = Nobody /\ exiting = FALSE /\ unwoken = {} /\ failed = {}
    /\ late = [x \in Timers |-> 0] /\ spawned = [x \in Timers |-> 0]

Go(x, where) == tpc' = [tpc EXCEPT ![x] = where]

\* Nobody code runs: a thread of the guest, or a handler.
GuestRuns == cpu = Nobody \/ (cpu \in Timers /\ tpc[cpu] = "firing")

-----------------------------------------------------------------------------
(* Calls of the guest *)

Spawn(x) ==
    /\ Go(x, "check")
    /\ spawned' = [spawned EXCEPT ![x] = @ + 1]

SetAlarm(a) ==
    /\ GuestRuns /\ tpc[a] = "none"
    /\ Spawn(a)
    /\ UNCHANGED <<cancelled, enabled, cpu, exiting, unwoken, failed, late>>

\* A key stays in the table when it is released and cannot be registered again.
RegisterSubIntr(s) ==
    /\ GuestRuns /\ tpc[s] = "none"
    /\ Go(s, "registered")
    /\ UNCHANGED <<cancelled, enabled, cpu, exiting, unwoken, failed, late, spawned>>

\* The thread is started once: nobody joins it, so it stays joinable.
NeedsThread(s) == tpc[s] = "registered"

EnableSubIntr(s) ==
    /\ GuestRuns /\ tpc[s] # "none"
    /\ enabled' = [enabled EXCEPT ![s] = TRUE]
    /\ IF NeedsThread(s) THEN Spawn(s) ELSE UNCHANGED <<tpc, spawned>>
    /\ UNCHANGED <<cancelled, cpu, exiting, unwoken, failed, late>>

\* notify_all: a thread that is in its wait evaluates the predicate again.
Notified(x) == [tpc EXCEPT ![x] = IF @ = "parked" THEN "check" ELSE @]

\* The flags change under the timer's mutex, not while its thread has it.
Cancel(x) ==
    /\ GuestRuns /\ tpc[x] \notin {"none", "blocking"}
    /\ cancelled' = [cancelled EXCEPT ![x] = TRUE]
    /\ enabled' = [enabled EXCEPT ![x] = FALSE]
    /\ tpc' = Notified(x)
    /\ UNCHANGED <<cpu, exiting, unwoken, failed, late, spawned>>

CancelAlarm(a) == a \in Alarms /\ Cancel(a)
ReleaseSubIntr(s) == s \in SubIntrs /\ Cancel(s)

-----------------------------------------------------------------------------
(* The threads of the timers *)

\* The predicate of the waits.
Over(x) == cancelled[x] \/ exiting

\* wait_for evaluates the predicate under the mutex before it blocks ...
Check(x) ==
    /\ tpc[x] = "check"
    /\ Go(x, IF Over(x) THEN "ended" ELSE "blocking")
    /\ UNCHANGED <<cancelled, enabled, cpu, exiting, unwoken, failed, late, spawned>>

Block(x) ==
    /\ tpc[x] = "blocking" /\ Go(x, "parked")
    /\ UNCHANGED <<cancelled, enabled, cpu, exiting, unwoken, failed, late, spawned>>

\* ... and again when the time is over.
PeriodOver(x) ==
    /\ tpc[x] = "parked"
    /\ Go(x, IF Over(x) THEN "ended" ELSE "due")
    /\ UNCHANGED <<cancelled, enabled, cpu, exiting, unwoken, failed, late, spawned>>

\* GuestExecutionLock: the CPU is given up by who has it, or refused.
Fire(x) ==
    /\ tpc[x] = "due"
    /\ IF exiting THEN Go(x, "ended") /\ UNCHANGED <<cpu, late>>
       ELSE /\ cpu = Nobody /\ cpu' = x /\ Go(x, "firing")
            /\ late' = [late EXCEPT ![x] = IF cancelled[x] THEN @ + 1 ELSE @]
    /\ UNCHANGED <<cancelled, enabled, exiting, unwoken, failed, spawned>>

\* A timer whose callback is not dispatched to its return gives up: its thread
\* ends, stays joinable, and is never started again.
GivesUp(x) == Go(x, "ended") /\ failed' = failed \cup {x}

\* The heap has no stack for the callback: the handler is not run.
NoStack(x) ==
    /\ tpc[x] = "due" /\ ~exiting /\ cpu = Nobody
    /\ GivesUp(x)
    /\ UNCHANGED <<cancelled, enabled, cpu, exiting, unwoken, late, spawned>>

\* The handler runs out of steps: the CPU goes to the guest and comes back.
SwitchCpu(x) ==
    /\ tpc[x] = "firing"
    /\ \/ cpu = x /\ cpu' = Nobody
       \/ cpu = Nobody /\ ~exiting /\ cpu' = x
    /\ UNCHANGED <<tpc, cancelled, enabled, exiting, unwoken, failed, late, spawned>>

\* The handler returns, and an alarm goes on if it asks to; or it stops for
\* another reason.
HandlerReturns(x) ==
    /\ tpc[x] = "firing" /\ cpu = x
    /\ cpu' = Nobody
    /\ \/ Go(x, "check") /\ UNCHANGED failed
       \/ x \in Alarms /\ Go(x, "ended") /\ UNCHANGED failed
       \/ GivesUp(x)
    /\ UNCHANGED <<cancelled, enabled, exiting, unwoken, late, spawned>>

\* The exit refuses the CPU to a handler between two slices.
HandlerStops(x) ==
    /\ tpc[x] = "firing" /\ cpu # x /\ exiting
    /\ GivesUp(x)
    /\ UNCHANGED <<cancelled, enabled, cpu, exiting, unwoken, late, spawned>>

\* request_guest_exit: the flag, then notify_all without the mutexes.  Whoever
\* is between the ticket's predicate and its wait misses it (GuestExecution
\* has this step by step); a later release may wake it, or never come.
AsksForCpu(x) == tpc[x] = "due" \/ (tpc[x] = "firing" /\ cpu # x)

RaiseExit ==
    /\ ~exiting /\ exiting' = TRUE
    /\ unwoken' \in SUBSET {x \in Timers : AsksForCpu(x)}
    /\ UNCHANGED <<tpc, cancelled, enabled, cpu, failed, late, spawned>>

ExitNotifies ==
    /\ exiting /\ \E x \in Timers : tpc[x] = "parked"
    /\ tpc' = [x \in Timers |-> IF tpc[x] = "parked" THEN "check" ELSE tpc[x]]
    /\ UNCHANGED <<cancelled, enabled, cpu, exiting, unwoken, failed, late, spawned>>

TimerCalls ==
    \/ \E a \in Alarms : SetAlarm(a) \/ CancelAlarm(a)
    \/ \E s \in SubIntrs : RegisterSubIntr(s) \/ EnableSubIntr(s) \/ ReleaseSubIntr(s)

TimerSteps(x) ==
    \/ Check(x) \/ Block(x) \/ PeriodOver(x)
    \/ Fire(x) \/ NoStack(x) \/ SwitchCpu(x) \/ HandlerReturns(x) \/ HandlerStops(x)

\* Fairness: host threads run and a wait_for ends (weak); a thread that asks
\* for the CPU again and again gets it or sees the exit, unless the exit's
\* notification missed it, and a handler that keeps getting it ends (strong).
TimerProgress(x) == Check(x) \/ Block(x) \/ PeriodOver(x)
TimerTurn(x) ==
    /\ x \notin unwoken
    /\ Fire(x) \/ NoStack(x) \/ (SwitchCpu(x) /\ cpu = Nobody) \/ HandlerStops(x)
-----------------------------------------------------------------------------
(***************************************************************************)
(* The lives of guest threads: created, started on a host thread, ended,   *)
(* waited for by joining the host thread (sceKernelWaitThreadEnd), started *)
(* again or deleted; delays; and the exit, at which the host joins every   *)
(* thread (wait_for_guest_threads).                                        *)
(*                                                                         *)
(* A call is one step, but for the waits: these give up the guest CPU and  *)
(* join, which lasts until the other thread has ended.  Two joins of one   *)
(* std::thread at the same time are undefined; what follows is not         *)
(* described (undefined).                                                  *)
(***************************************************************************)

Guests == Threads \cup {Main}
NotYet == {"not yet"}

LivesInit ==
    /\ table = {} /\ joinable = {}
    /\ active = [t \in Threads |-> {}] /\ runs = [t \in Threads |-> 0]
    /\ doing = [t \in Guests \cup {Host} |-> IF t = Main THEN "running" ELSE "ended"]
    /\ target = [t \in Guests \cup {Host} |-> Nobody]
    /\ leaving = FALSE /\ stuck = {} /\ pending = NotYet /\ undefined = FALSE

Calling(t) == doing[t] = "running" /\ ~undefined

CreateThread(t, u) ==
    /\ Calling(t) /\ u \notin table
    /\ runs[u] = 0                          \* a new uid
    /\ table' = table \cup {u}
    /\ UNCHANGED <<joinable, active, runs, doing, target, leaving, stuck, pending, undefined>>

\* Mutant of MayStart: also a thread that has been started.
MayStartAnyway(u) == u \in table

MayStart(u) == u \in table /\ u \notin joinable

StartThread(t, u) ==
    /\ Calling(t) /\ MayStart(u) /\ runs[u] < MaxRuns
    /\ runs' = [runs EXCEPT ![u] = @ + 1]
    /\ active' = [active EXCEPT ![u] = @ \cup {runs[u] + 1}]
    /\ joinable' = joinable \cup {u}
    /\ doing' = [doing EXCEPT ![u] = "running"]
    /\ UNCHANGED <<table, target, leaving, stuck, pending, undefined>>

\* Mutant of MayDelete: also a thread that runs.
MayDeleteAnyway(u) == u \in table

MayDelete(u) == u \in table /\ u \notin joinable

DeleteThread(t, u) ==
    /\ Calling(t) /\ MayDelete(u)
    /\ table' = table \ {u}
    /\ UNCHANGED <<joinable, active, runs, doing, target, leaving, stuck, pending, undefined>>

\* Somebody is inside host_thread.join() of u.
Joined(u) == \E t \in Guests \cup {Host} : doing[t] = "join" /\ target[t] = u

\* Entering host_thread.join() of u.
Join(t, u) ==
    /\ doing' = [doing EXCEPT ![t] = "join"]
    /\ target' = [target EXCEPT ![t] = u]
    /\ undefined' = Joined(u)

WaitThreadEnd(t, u) ==
    /\ Calling(t) /\ u \in table /\ u \in joinable /\ u # t
    /\ Join(t, u)
    /\ UNCHANGED <<table, joinable, active, runs, leaving, stuck, pending>>

JoinReturns(t) ==
    /\ doing[t] = "join" /\ ~undefined /\ active[target[t]] = {}
    /\ joinable' = joinable \ {target[t]}
    /\ doing' = [doing EXCEPT ![t] = IF t = Host THEN "ended" ELSE "running"]
    /\ target' = [target EXCEPT ![t] = Nobody]
    /\ UNCHANGED <<table, active, runs, leaving, stuck, pending, undefined>>

\* sceKernelDelayThread: until the time is over or the exit is notified.
DelayThread(t) ==
    /\ Calling(t) /\ doing' = [doing EXCEPT ![t] = "delay"]
    /\ UNCHANGED <<table, joinable, active, runs, target, leaving, stuck, pending, undefined>>

DelayOver(t) ==
    /\ doing[t] = "delay" /\ ~undefined /\ doing' = [doing EXCEPT ![t] = "running"]
    /\ UNCHANGED <<table, joinable, active, runs, target, leaving, stuck, pending, undefined>>

\* sceKernelExitThread, a return, or the exit seen by the executor.
ThreadEnds(t) ==
    /\ Calling(t)
    /\ doing' = [doing EXCEPT ![t] = "ended"]
    /\ active' = IF t = Main THEN active ELSE [active EXCEPT ![t] = {}]
    /\ UNCHANGED <<table, joinable, runs, target, leaving, stuck, pending, undefined>>

\* The flag, and notifications without the mutexes of the waits: who is
\* between a wait's predicate and its wait is not woken by them.
RequestExit ==
    /\ ~leaving /\ leaving' = TRUE
    /\ stuck' \in SUBSET {t \in Guests : doing[t] = "running"}
    /\ UNCHANGED <<table, joinable, active, runs, doing, target, pending, undefined>>

\* Mutant of HostRound: one round only.
HostRoundOnce ==
    /\ leaving /\ ~undefined /\ doing[Host] # "join" /\ pending = NotYet
    /\ pending' = joinable \cap table
    /\ UNCHANGED <<table, joinable, active, runs, doing, target, leaving, stuck, undefined>>

\* wait_for_guest_threads: a round over the threads that are joinable.
HostRound ==
    /\ leaving /\ ~undefined /\ doing[Host] # "join" /\ pending \in {NotYet, {}}
    /\ pending # {} \/ joinable \cap table # {}
    /\ pending' = joinable \cap table
    /\ UNCHANGED <<table, joinable, active, runs, doing, target, leaving, stuck, undefined>>

\* The threads of a round one after the other, each if it is still joinable.
HostJoins(u) ==
    /\ pending # NotYet /\ u \in pending /\ doing[Host] # "join" /\ ~undefined
    /\ pending' = pending \ {u}
    /\ IF u \in joinable THEN Join(Host, u) ELSE UNCHANGED <<doing, target, undefined>>
    /\ UNCHANGED <<table, joinable, active, runs, leaving, stuck>>

LivesCalls ==
    \E t \in Guests :
      \/ \E u \in Threads : \/ CreateThread(t, u) \/ StartThread(t, u)
                            \/ DeleteThread(t, u) \/ WaitThreadEnd(t, u)
      \/ DelayThread(t)

LivesSteps ==
    \/ \E t \in Guests : DelayOver(t) \/ ThreadEnds(t)
    \/ \E t \in Guests \cup {Host} : JoinReturns(t)
    \/ RequestExit \/ HostRound
    \/ \E u \in Threads : HostJoins(u)

\* Threads run on and, after the exit, come to their end, but for those its
\* notification missed; the host joins.
LivesProgress(t) ==
    JoinReturns(t) \/ DelayOver(t) \/ (leaving /\ t \notin stuck /\ ThreadEnds(t))
HostProgress == HostRound \/ JoinReturns(Host) \/ \E u \in Threads : HostJoins(u)

HostJoined == pending = {} /\ doing[Host] # "join" /\ joinable \cap table = {}
-----------------------------------------------------------------------------
(* One part of the three is looked at. *)

Init ==
    /\ part \in Parts /\ calls = CallsOf[part]
    /\ TimersInit /\ LivesInit /\ Sas!SasInit
    /\ part = "sas" \/ vag = CHOOSE data \in VagData : TRUE

\* What the part does not use does not change.
Frame ==
    /\ UNCHANGED part
    /\ IF part = "timers" THEN TRUE ELSE UNCHANGED timer
    /\ IF part = "lives"  THEN TRUE ELSE UNCHANGED lives
    /\ IF part = "sas"    THEN TRUE ELSE UNCHANGED sas

\* A call of a guest, of those the bound leaves.
Call ==
    /\ calls > 0 /\ calls' = calls - 1
    /\ \/ part = "timers" /\ TimerCalls
       \/ part = "lives"  /\ LivesCalls
       \/ part = "sas"    /\ Sas!SasCalls
    /\ Frame

\* A step of a thread that is not a call.
Step ==
    /\ \/ part = "timers" /\ UNCHANGED calls
          /\ \/ \E x \in Threads : TimerSteps(x)
             \/ RaiseExit \/ ExitNotifies
       \/ part = "lives" /\ LivesSteps /\ UNCHANGED calls
       \/ part = "sas"   /\ (\E v \in Voices : Sas!Core(v)) /\ UNCHANGED calls
    /\ Frame

Next == Call \/ Step

Spec == Init /\ [][Next]_vars

\* Host threads that can run do run: x is one of Threads, Main or Host.
Runs(x) ==
    /\ \/ part = "timers" /\ x \in Threads /\ TimerProgress(x) /\ UNCHANGED calls
       \/ part = "lives" /\ UNCHANGED calls
          /\ IF x = Host THEN HostProgress ELSE LivesProgress(x)
    /\ Frame

\* Who keeps asking for the CPU gets it.
Gets(x) == part = "timers" /\ TimerTurn(x) /\ UNCHANGED calls /\ Frame

\* A handler that keeps getting the CPU returns.
Returns(x) == part = "timers" /\ HandlerReturns(x) /\ UNCHANGED calls /\ Frame

\* The guest keeps mixing.
Mixing == part = "sas" /\ (\E v \in Voices : Sas!Core(v)) /\ UNCHANGED calls /\ Frame

FairSpec ==
    /\ Spec
    /\ \A x \in Threads \cup {Main, Host} : WF_vars(Runs(x))
    /\ \A x \in Threads : SF_vars(Gets(x)) /\ SF_vars(Returns(x))
    /\ WF_vars(Mixing)
-----------------------------------------------------------------------------
(* Properties of the timers *)

\* The threads of the timers and the CPU are where the code can put them.
TimersTypeOK ==
    /\ tpc \in [Timers -> {"none", "registered", "check", "blocking", "parked", "due",
                           "firing", "ended"}]
    /\ cpu \in Timers \cup {Nobody}

(***************************************************************************)
(* A cancelled alarm or a released sub-interrupt begins at most one more   *)
(* run of its handler: only a period that was over when the call came can  *)
(* still reach the CPU.                                                    *)
(***************************************************************************)
AtMostOneLateFiring == \A x \in Timers : late[x] <= 1

(***************************************************************************)
(* A timer never has two threads, however often it is enabled, released    *)
(* and enabled again.                                                      *)
(***************************************************************************)
OneThreadEach == \A x \in Timers : spawned[x] <= 1

(***************************************************************************)
(* An enabled display sub-interrupt keeps firing until it is released, the *)
(* game exits, or one of its callbacks could not be dispatched or did not  *)
(* return: then its thread has ended for good, and enabling it again does  *)
(* not bring it back.                                                      *)
(***************************************************************************)
KeepsFiring ==
    \A s \in SubIntrs :
      enabled[s] ~> (tpc[s] = "firing" \/ cancelled[s] \/ exiting \/ s \in failed)

(***************************************************************************)
(* After the exit every timer's thread ends, even when the notification    *)
(* falls between its predicate and its wait, as that wait has a time       *)
(* limit; but not one that misses the notification asking for the CPU.     *)
(***************************************************************************)
TimersEnd ==
    \A x \in Timers : exiting ~> (tpc[x] \in {"none", "registered", "ended"} \/ x \in unwoken)
-----------------------------------------------------------------------------
(* Properties of the guest threads *)

\* Who joins has a target, and nobody else.
LivesTypeOK ==
    /\ table \subseteq Threads /\ joinable \subseteq Threads
    /\ doing \in [Guests \cup {Host} -> {"running", "delay", "join", "ended"}]
    /\ \A t \in Guests \cup {Host} : doing[t] = "join" <=> target[t] # Nobody

(***************************************************************************)
(* A guest thread has one host thread at a time: it is started again only  *)
(* when its former host thread has ended and has been joined.              *)
(***************************************************************************)
OneRunEach == ~undefined => \A u \in Threads : \A k, l \in active[u] : k = l

(***************************************************************************)
(* A thread whose host thread runs is in the table of threads, where the   *)
(* exit finds it: none runs on unnoticed after the host has joined all.    *)
(***************************************************************************)
RunningIsListed ==
    ~undefined => \A u \in Threads : active[u] # {} => u \in table /\ u \in joinable

(***************************************************************************)
(* Waits of threads for each other end, and at the exit the host has       *)
(* joined every thread, unless threads wait in a circle, one is waited for *)
(* twice at the same time, or one that missed the exit's notification      *)
(* still waits (see GuestExecution's ExitJoinsThreads).                    *)
(***************************************************************************)
Circle == \E C \in SUBSET Threads : C # {} /\ \A t \in C : doing[t] = "join" /\ target[t] \in C
MissedExit == \E t \in stuck : doing[t] = "running"
ExitComes == leaving ~> (HostJoined \/ Circle \/ undefined \/ MissedExit)
-----------------------------------------------------------------------------
(* The properties of the parts; those of the voices are explained in       *)
(* SasVoices.                                                              *)

\* The timers and threads are where the code can put them, and whoever joins
\* has a target.
TypeOK == part \in AllParts /\ TimersTypeOK /\ LivesTypeOK

\* Neither a timer nor a guest thread ever has two host threads; a cancelled
\* timer's handler begins at most once more, and a guest thread that runs is
\* where the exit finds it.
OneHostThreadEach ==
    /\ OneThreadEach /\ AtMostOneLateFiring
    /\ OneRunEach /\ RunningIsListed

\* An enabled sub-interrupt keeps firing until a callback of it fails; at the
\* exit the threads of all timers end and every guest thread is joined, but for
\* those that miss its notification or wait for each other.
HostThreadsEnd == KeepsFiring /\ TimersEnd /\ ExitComes

\* Mixing reads no sample outside of a voice's, a voice that has ended is
\* silent, and the envelopes stay in their range.
SasSound == Sas!SasTypeOK /\ Sas!ReadsInside /\ Sas!StoppedIsSilent

\* A voice that has been keyed off comes to its end.
SasReleaseEnds == Sas!ReleaseEnds
-----------------------------------------------------------------------------
(* The instance for TLC *)

\* Bounds: calls of the guests on each part.
MCCalls == "timers" :> 6 @@ "lives" :> 6 @@ "sas" :> 4

\* A VAG source that loops, one that loops over its later half, one that ends.
MCVag == {<<6, 3>>, <<0, 0, 6, 3>>, <<0, 1>>}

E(a, d, s, r, sustain, release, level) ==
    [rate |-> [attack |-> a, decay |-> d, sustain |-> s, release |-> r],
     curve |-> [attack |-> "bent", decay |-> "exp decrease", sustain |-> sustain,
                release |-> release],
     level |-> level]

\* An envelope with exponential curves and one with straight ones.
MCEnvelopes ==
    {E(3, 4, 1, 3, "exp decrease", "exp decrease", 4), E(9, 20, 0, 2, "bent", "decrease", 8)}
=============================================================================
