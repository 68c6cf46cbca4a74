------------------------- MODULE HostThreadsProofs -------------------------
(***************************************************************************)
(* Proofs about the host threads of timers and of guest threads, for any   *)
(* number of them, any number of calls and any number of starts.  The      *)
(* voices of the synthesizer stay with TLC: what they hold comes from a    *)
(* fold over the source's blocks.                                          *)
(***************************************************************************)
EXTENDS HostThreads, TLAPS

\* What the proofs use of the constants.
LEMMA Constants ==
  /\ Alarms \subseteq Threads /\ Nobody \notin Threads
  /\ Timers = Threads
  /\ Main \notin Threads /\ Host \notin Threads \cup {Main}
  /\ Nobody \notin Threads \cup {Main, Host} /\ MaxRuns \in Nat
<1>1. HostThreadsAssumption
  BY HostThreadsAssumption
<1>2. Timers = Threads
  BY <1>1 DEF Timers
<1> QED
  BY <1>1, <1>2 DEF HostThreadsAssumption

-----------------------------------------------------------------------------
(* Timers *)

\* A thread has been started for the timers that left the table, and no other.
StartedOnce ==
    \A x \in Threads : spawned[x] = IF tpc[x] \in {"none", "registered"} THEN 0 ELSE 1

\* A cancelled timer is in no wait it could leave for another firing; once it
\* has fired late its thread is past the wait.
LateOnce ==
    \A x \in Threads :
      /\ late[x] \in {0, 1}
      /\ cancelled[x] => tpc[x] \notin {"blocking", "parked"}
      /\ late[x] = 1 => cancelled[x] /\ tpc[x] \in {"firing", "check", "ended"}

TimerPlaces ==
    /\ tpc \in [Threads -> {"none", "registered", "check", "blocking", "parked", "due",
                            "firing", "ended"}]
    /\ cpu \in Threads \cup {Nobody}
    /\ cancelled \in [Threads -> BOOLEAN]
    /\ spawned \in [Threads -> Nat] /\ late \in [Threads -> Nat]

TimerInv == TimerPlaces /\ StartedOnce /\ LateOnce

-----------------------------------------------------------------------------
(* Guest threads *)

\* A host thread runs exactly for the threads that do something, and these are
\* listed and joinable.
RunsOnce ==
    \A u \in Threads :
      /\ active[u] = {} <=> doing[u] = "ended"
      /\ active[u] = {} \/ \E k \in Nat : active[u] = {k}
      /\ active[u] # {} => u \in table /\ u \in joinable

JoinPlaces ==
    \A t \in Guests \cup {Host} :
      /\ doing[t] = "join" => target[t] \in Threads
      /\ doing[t] # "join" => target[t] = Nobody

LifePlaces ==
    /\ table \subseteq Threads /\ joinable \subseteq Threads
    /\ doing \in [Guests \cup {Host} -> {"running", "delay", "join", "ended"}]
    /\ target \in [Guests \cup {Host} -> Threads \cup {Nobody}]
    /\ active \in [Threads -> SUBSET Nat] /\ runs \in [Threads -> Nat]

LifeInv == LifePlaces /\ RunsOnce /\ JoinPlaces

HostInv == part \in AllParts /\ TimerInv /\ LifeInv

-----------------------------------------------------------------------------
(* The steps of timers *)

\* Every call and step of a timer keeps its part.
LEMMA TimerStep ==
  ASSUME TimerInv,
         \/ TimerCalls \/ (\E x \in Threads : TimerSteps(x))
         \/ RaiseExit \/ ExitNotifies
  PROVE  TimerInv'
<1> USE Constants DEF TimerInv, TimerPlaces, StartedOnce, LateOnce
<1>1. ASSUME NEW x \in Alarms, SetAlarm(x) PROVE TimerInv'
  BY <1>1 DEF SetAlarm, Spawn, Go
<1>2. ASSUME NEW x \in Threads, RegisterSubIntr(x) PROVE TimerInv'
  BY <1>2 DEF RegisterSubIntr, Go
<1>3. ASSUME NEW x \in Threads, EnableSubIntr(x) PROVE TimerInv'
  BY <1>3 DEF EnableSubIntr, NeedsThread, Spawn, Go
<1>4. ASSUME NEW x \in Threads, Cancel(x) PROVE TimerInv'
  BY <1>4 DEF Cancel, Notified
<1>5. ASSUME NEW x \in Threads, Check(x) PROVE TimerInv'
  BY <1>5 DEF Check, Go, Over
<1>6. ASSUME NEW x \in Threads, Block(x) PROVE TimerInv'
  BY <1>6 DEF Block, Go
<1>7. ASSUME NEW x \in Threads, PeriodOver(x) PROVE TimerInv'
  BY <1>7 DEF PeriodOver, Go, Over
<1>8. ASSUME NEW x \in Threads, Fire(x) PROVE TimerInv'
  BY <1>8 DEF Fire, Go
<1>9. ASSUME NEW x \in Threads, SwitchCpu(x) PROVE TimerInv'
  BY <1>9 DEF SwitchCpu
<1>10. ASSUME NEW x \in Threads, HandlerReturns(x) PROVE TimerInv'
  BY <1>10 DEF HandlerReturns, GivesUp, Go
<1>11. ASSUME NEW x \in Threads, NoStack(x) PROVE TimerInv'
  BY <1>11 DEF NoStack, GivesUp, Go
<1>12. ASSUME NEW x \in Threads, HandlerStops(x) PROVE TimerInv'
  BY <1>12 DEF HandlerStops, GivesUp, Go
<1>13. CASE RaiseExit
  BY <1>13 DEF RaiseExit
<1>14. CASE ExitNotifies
  BY <1>14 DEF ExitNotifies
<1> QED
  BY <1>1, <1>2, <1>3, <1>4, <1>5, <1>6, <1>7, <1>8, <1>9, <1>10, <1>11, <1>12,
     <1>13, <1>14
     DEF TimerCalls, TimerSteps, CancelAlarm, ReleaseSubIntr, SubIntrs

-----------------------------------------------------------------------------
(* The steps of guest threads *)

\* Every call and step of a thread keeps its part, joins that meet included.
LEMMA LifeStep ==
  ASSUME LifeInv, LivesCalls \/ LivesSteps
  PROVE  LifeInv'
<1> USE Constants DEF LifeInv, LifePlaces, RunsOnce, JoinPlaces, Guests
<1>1. ASSUME NEW t \in Guests, NEW u \in Threads, CreateThread(t, u) PROVE LifeInv'
  BY <1>1 DEF CreateThread, Calling
<1>2. ASSUME NEW t \in Guests, NEW u \in Threads, StartThread(t, u) PROVE LifeInv'
  BY <1>2 DEF StartThread, Calling, MayStart
<1>3. ASSUME NEW t \in Guests, NEW u \in Threads, DeleteThread(t, u) PROVE LifeInv'
  BY <1>3 DEF DeleteThread, Calling, MayDelete
<1>4. ASSUME NEW t \in Guests, NEW u \in Threads, WaitThreadEnd(t, u) PROVE LifeInv'
  BY <1>4 DEF WaitThreadEnd, Calling, Join
<1>5. ASSUME NEW t \in Guests, DelayThread(t) PROVE LifeInv'
  BY <1>5 DEF DelayThread, Calling
<1>6. ASSUME NEW t \in Guests, DelayOver(t) PROVE LifeInv'
  BY <1>6 DEF DelayOver
<1>7. ASSUME NEW t \in Guests, ThreadEnds(t) PROVE LifeInv'
  BY <1>7 DEF ThreadEnds, Calling
<1>8. ASSUME NEW t \in Guests \cup {Host}, JoinReturns(t) PROVE LifeInv'
  BY <1>8 DEF JoinReturns
<1>9. ASSUME NEW u \in Threads, HostJoins(u) PROVE LifeInv'
  BY <1>9 DEF HostJoins, Join
<1>10. CASE RequestExit \/ HostRound
  BY <1>10 DEF RequestExit, HostRound
<1> QED
  BY <1>1, <1>2, <1>3, <1>4, <1>5, <1>6, <1>7, <1>8, <1>9, <1>10 DEF LivesCalls, LivesSteps

-----------------------------------------------------------------------------
(* The induction *)

\* Initially only the main thread runs.
LEMMA HostInit == Init => HostInv
<1> SUFFICES ASSUME Init PROVE HostInv
  OBVIOUS
<1>1. part \in AllParts
  BY HostThreadsAssumption DEF Init
<1>2. TimerInv
  BY Constants DEF Init, TimersInit, TimerInv, TimerPlaces, StartedOnce, LateOnce
<1>3. LifeInv
  BY Constants DEF Init, LivesInit, LifeInv, LifePlaces, RunsOnce, JoinPlaces, Guests
<1> QED
  BY <1>1, <1>2, <1>3 DEF HostInv

\* Every step keeps both parts: one is the step's, the other does not change.
LEMMA HostStep == HostInv /\ [Next]_vars => HostInv'
<1> SUFFICES ASSUME HostInv, [Next]_vars PROVE HostInv'
  OBVIOUS
<1>1. UNCHANGED part
  BY DEF Next, Call, Step, Frame, vars
<1>2. TimerInv'
  <2>1. CASE UNCHANGED timer
    BY <2>1 DEF HostInv, TimerInv, TimerPlaces, StartedOnce, LateOnce, timer
  <2>2. CASE \/ TimerCalls \/ (\E x \in Threads : TimerSteps(x))
             \/ RaiseExit \/ ExitNotifies
    BY <2>2, TimerStep DEF HostInv
  <2> QED
    BY <2>1, <2>2 DEF Next, Call, Step, Frame, vars
<1>3. LifeInv'
  <2>1. CASE UNCHANGED lives
    BY <2>1 DEF HostInv, LifeInv, LifePlaces, RunsOnce, JoinPlaces, lives
  <2>2. CASE LivesCalls \/ LivesSteps
    BY <2>2, LifeStep DEF HostInv
  <2> QED
    BY <2>1, <2>2 DEF Next, Call, Step, Frame, vars
<1> QED
  BY <1>1, <1>2, <1>3 DEF HostInv

-----------------------------------------------------------------------------
(* Theorems *)

\* The inductive invariant: what has been started and not joined is where the
\* stubs look for it (sceKernelStartThread, sceKernelWaitThreadEnd and
\* wait_for_guest_threads; sceKernelSetAlarm and sceKernelEnableSubIntr).
THEOREM HostThreadsInvariant == Spec => []HostInv
  BY HostInit, HostStep, PTL DEF Spec

\* Types, and that exactly those who join have a target.
THEOREM HostThreadsTyped == Spec => []TypeOK
<1>1. HostInv => TypeOK
  BY Constants DEF HostInv, TimerInv, TimerPlaces, LifeInv, LifePlaces, JoinPlaces, Guests, TypeOK,
                   TimersTypeOK, LivesTypeOK
<1> QED
  BY <1>1, HostThreadsInvariant, PTL

\* No timer and no guest thread ever has two host threads, however often it is
\* enabled or started; a cancelled timer begins at most one more firing; and a
\* guest thread that runs is where the exit looks for it, until two joins meet.
THEOREM OneHostThread == Spec => []OneHostThreadEach
<1>1. HostInv => OneHostThreadEach
  <2> SUFFICES ASSUME HostInv PROVE OneHostThreadEach
    OBVIOUS
  <2>1. OneThreadEach
    BY Constants DEF HostInv, TimerInv, StartedOnce, OneThreadEach
  <2>2. AtMostOneLateFiring
    BY Constants DEF HostInv, TimerInv, LateOnce, AtMostOneLateFiring
  <2>3. \A u \in Threads : \A k, l \in active[u] : k = l
    BY DEF HostInv, LifeInv, RunsOnce
  <2>4. RunningIsListed
    BY DEF HostInv, LifeInv, RunsOnce, RunningIsListed
  <2>5. OneRunEach
    BY <2>3 DEF OneRunEach
  <2> QED
    BY <2>1, <2>2, <2>4, <2>5 DEF OneHostThreadEach
<1> QED
  BY <1>1, HostThreadsInvariant, PTL
=============================================================================
