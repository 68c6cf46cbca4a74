------------------------ MODULE GuestExecutionProofs ------------------------
(* Theorems about GuestExecution, for any threads and any bound on calls. *)
EXTENDS GuestExecution, TLAPS

\* The inductive invariant holds before any thread has run.
LEMMA InitIInv == Init => IInv
<1> SUFFICES ASSUME Init PROVE IInv
  OBVIOUS
<1> USE ThreadsAssumption DEF Init
<1>1. TypeOK
  BY DEF TypeOK, PCs, Scopes
<1>2. MutexHolder /\ HolderPlace /\ ExitingPlace /\ MutualExclusion
  BY DEF MutexHolder, HolderPlace, ExitingPlace, MutualExclusion
<1>3. TicketLine
  BY DEF TicketLine, RunsOnlyHolding, PausedPlace, TicketRange, TicketUnique,
         HeadServed, ParkedOutOfTurn, NoGap, HeadNotified, HasTicket, Waiting
<1> QED
  BY <1>1, <1>2, <1>3 DEF IInv

\* No step leaves the types; one step of the proof for each action.
LEMMA TypeStep == TypeOK /\ [Next]_vars => TypeOK'
<1> SUFFICES ASSUME TypeOK, [Next]_vars PROVE TypeOK'
  OBVIOUS
<1> USE ThreadsAssumption DEF TypeOK, PCs, Scopes, locals, lock, Goto
<1>1. ASSUME NEW t \in Threads, EvaluatePredicate(t) PROVE TypeOK'
  BY <1>1 DEF EvaluatePredicate
<1>2. ASSUME NEW t \in Threads, Park(t) PROVE TypeOK'
  BY <1>2 DEF Park
<1>3. ASSUME NEW t \in Threads, SpuriousWakeup(t) PROVE TypeOK'
  BY <1>3 DEF SpuriousWakeup
<1>4. ASSUME NEW t \in Threads, Relock(t) PROVE TypeOK'
  BY <1>4 DEF Relock
<1>5. ASSUME NEW t \in Threads, TakeTicket(t) PROVE TypeOK'
  BY <1>5 DEF TakeTicket
<1>6. ASSUME NEW t \in Threads, Release(t) PROVE TypeOK'
  BY <1>6 DEF Release
<1>7. ASSUME NEW t \in Threads, WaitOver(t) PROVE TypeOK'
  BY <1>7 DEF WaitOver
<1>8. ASSUME NEW t \in Threads, CallStub(t) PROVE TypeOK'
  BY <1>8 DEF CallStub, Spend
<1>9. ASSUME NEW t \in Threads, Admit(t) PROVE TypeOK'
  BY <1>9 DEF Admit, AfterAcquire
<1>10. ASSUME NEW t \in Threads, Notify(t) PROVE TypeOK'
  BY <1>10 DEF Notify, For, AfterRelease, NotifyAll
<1>11. ASSUME NEW t \in Threads, GuestReturn(t) PROVE TypeOK'
  BY <1>11 DEF GuestReturn, ExecutorReturns
<1>12. ASSUME NEW t \in Threads, StepLimit(t) PROVE TypeOK'
  BY <1>12 DEF StepLimit, Spend, For, YieldGuest
<1>13. ASSUME NEW t \in Threads, CallbackLoop(t) PROVE TypeOK'
  BY <1>13 DEF CallbackLoop, ExecutorReturns
<1>14. ASSUME NEW t \in Threads, StubReturn(t) PROVE TypeOK'
  BY <1>14 DEF StubReturn, For, ExecutorReturns, YieldGuest
<1>15. ASSUME NEW t \in Threads, DispatchCallback(t) PROVE TypeOK'
  BY <1>15 DEF DispatchCallback, Spend
<1>16. ASSUME NEW t \in Threads, StubBlock(t) PROVE TypeOK'
  BY <1>16 DEF StubBlock, Spend, For
<1>17. ASSUME NEW t \in Threads, ExitGame(t) PROVE TypeOK'
  BY <1>17 DEF ExitGame, Spend
<1>18. ASSUME NEW t \in Threads, ExitGameNotify(t) PROVE TypeOK'
  BY <1>18 DEF ExitGameNotify, NotifyAll
<1>19. ASSUME NEW t \in Threads, SuspendIntr(t) PROVE TypeOK'
  <2>1. /\ pc' \in [Threads -> PCs] /\ why' \in [Threads -> Scopes]
        /\ callback' \in [Threads -> BOOLEAN]
    BY <1>19 DEF SuspendIntr, NonYieldingReturn, ExecutorReturns
  <2>2. intr' \in [Threads -> BOOLEAN] /\ calls' \in [Threads -> Nat]
    BY <1>19 DEF SuspendIntr, Spend
  <2> QED
    BY <1>19, <2>1, <2>2 DEF SuspendIntr
<1>20. ASSUME NEW t \in Threads, ResumeIntr(t) PROVE TypeOK'
  <2>1. /\ pc' \in [Threads -> PCs] /\ why' \in [Threads -> Scopes]
        /\ callback' \in [Threads -> BOOLEAN]
    BY <1>20 DEF ResumeIntr, NonYieldingReturn, ExecutorReturns
  <2>2. intr' \in [Threads -> BOOLEAN] /\ calls' \in [Threads -> Nat]
    BY <1>20 DEF ResumeIntr, Spend
  <2> QED
    BY <1>20, <2>1, <2>2 DEF ResumeIntr
<1>21. ASSUME NEW t \in Threads, NEW u \in Threads, StartThread(t, u) PROVE TypeOK'
  BY <1>21 DEF StartThread, Spend
<1>22. CASE Host
  BY <1>22 DEF Host, HostLoop, HostExit, HostNotify, HostJoined, NotifyAll
<1>23. CASE Ended \/ UNCHANGED vars
  BY <1>23 DEF Ended, vars
<1> QED
  BY <1>1, <1>2, <1>3, <1>4, <1>5, <1>6, <1>7, <1>8, <1>9, <1>10, <1>11, <1>12,
     <1>13, <1>14, <1>15, <1>16, <1>17, <1>18, <1>19, <1>20, <1>21, <1>22, <1>23
     DEF Next, Thread, Local, Locking

\* The type invariant: every variable keeps its type (runtime.cpp:57-64,
\* 688-691, 714).
THEOREM TypeCorrect == Spec => []TypeOK
<1>1. Init => TypeOK
  BY InitIInv DEF IInv
<1> QED
  BY <1>1, TypeStep, PTL DEF Spec

\* Every step preserves the inductive invariant: the places where the mutex
\* and the lock are held, and until the exit the line of tickets.
LEMMA IInvStep == IInv /\ [Next]_vars => IInv'
<1> SUFFICES ASSUME IInv, [Next]_vars PROVE IInv'
  OBVIOUS
<1>types. TypeOK /\ TypeOK'
  BY TypeStep DEF IInv
<1> USE <1>types, ThreadsAssumption
<1> USE DEF IInv, TypeOK, MutexHolder, HolderPlace, ExitingPlace,
            MutualExclusion, TicketLine, RunsOnlyHolding, PausedPlace,
            TicketRange, TicketUnique, HeadServed, ParkedOutOfTurn, NoGap,
            HeadNotified, HasTicket, Waiting, Goto, lock, locals
<1>1. ASSUME NEW t \in Threads, EvaluatePredicate(t) PROVE IInv'
  <2>1. MutexHolder' /\ HolderPlace' /\ ExitingPlace' /\ MutualExclusion'
    BY <1>1 DEF EvaluatePredicate, MayProceed
  <2>2. ASSUME ~exit' PROVE RunsOnlyHolding' /\ PausedPlace'
    BY <1>1, <2>2 DEF EvaluatePredicate, MayProceed
  <2>3. ASSUME ~exit' PROVE TicketRange' /\ TicketUnique' /\ HeadServed' /\ ParkedOutOfTurn'
    BY <1>1, <2>3 DEF EvaluatePredicate, MayProceed
  <2>4. ASSUME ~exit' PROVE NoGap'
    BY <1>1, <2>4 DEF EvaluatePredicate, MayProceed
  <2>5. ASSUME ~exit' PROVE HeadNotified'
    BY <1>1, <2>5 DEF EvaluatePredicate, MayProceed
  <2> QED
    BY <2>1, <2>2, <2>3, <2>4, <2>5
<1>2. ASSUME NEW t \in Threads, Park(t) PROVE IInv'
  <2>1. MutexHolder' /\ HolderPlace' /\ ExitingPlace' /\ MutualExclusion'
    BY <1>2 DEF Park
  <2>2. ASSUME ~exit' PROVE RunsOnlyHolding' /\ PausedPlace'
    BY <1>2, <2>2 DEF Park
  <2>3. ASSUME ~exit' PROVE TicketRange' /\ TicketUnique' /\ HeadServed' /\ ParkedOutOfTurn'
    BY <1>2, <2>3 DEF Park
  <2>4. ASSUME ~exit' PROVE NoGap'
    BY <1>2, <2>4 DEF Park
  <2>5. ASSUME ~exit' PROVE HeadNotified'
    BY <1>2, <2>5 DEF Park
  <2> QED
    BY <2>1, <2>2, <2>3, <2>4, <2>5
<1>3. ASSUME NEW t \in Threads, TakeTicket(t) PROVE IInv'
  <2>1. MutexHolder' /\ HolderPlace' /\ ExitingPlace' /\ MutualExclusion'
    BY <1>3 DEF TakeTicket
  <2>2. ASSUME ~exit' PROVE RunsOnlyHolding' /\ PausedPlace'
    BY <1>3, <2>2 DEF TakeTicket
  <2>3. ASSUME ~exit' PROVE TicketRange' /\ TicketUnique' /\ HeadServed' /\ ParkedOutOfTurn'
    BY <1>3, <2>3 DEF TakeTicket
  <2>4. ASSUME ~exit' PROVE NoGap'
    BY <1>3, <2>4 DEF TakeTicket
  <2>5. ASSUME ~exit' PROVE HeadNotified'
    BY <1>3, <2>5 DEF TakeTicket
  <2> QED
    BY <2>1, <2>2, <2>3, <2>4, <2>5
<1>4. ASSUME NEW t \in Threads, Admit(t) PROVE IInv'
  <2>1. MutexHolder' /\ HolderPlace' /\ ExitingPlace' /\ MutualExclusion'
    BY <1>4 DEF Admit, AfterAcquire
  <2>2. ASSUME ~exit' PROVE TicketLine'
    <3>1. ~exit /\ UNCHANGED <<why, ticket, next, serving, exit>>
      BY <1>4, <2>2 DEF Admit
    <3>held. held' = [held EXCEPT ![t] = TRUE]
      BY <1>4, <3>1 DEF Admit
    <3>2. /\ Waiting(t) /\ held'[t]
          /\ \A u \in Threads \ {t} : held'[u] = held[u] /\ pc'[u] = pc[u]
      BY <1>4, <3>1, <3>held DEF Admit
    <3>3. pc'[t] \in {"guest", "test", "stub"}
      BY <1>4, <3>1 DEF Admit, AfterAcquire
    <3>4. \A u \in Threads : HasTicket(u)' <=> HasTicket(u)
      BY <3>2
    <3>5. NoGap'
      BY <3>1, <3>4
    <3>6. RunsOnlyHolding' /\ PausedPlace' /\ HeadNotified'
      BY <3>1, <3>2, <3>3, <1>4 DEF Admit
    <3>7. TicketRange' /\ TicketUnique' /\ HeadServed' /\ ParkedOutOfTurn'
      BY <1>4, <3>1, <3>2, <3>3 DEF Admit
    <3> QED
      BY <3>5, <3>6, <3>7
  <2> QED
    BY <2>1, <2>2
<1>5. ASSUME NEW t \in Threads, Release(t) PROVE IInv'
  <2>1. MutexHolder' /\ HolderPlace' /\ ExitingPlace' /\ MutualExclusion'
    BY <1>5 DEF Release
  <2>2. ASSUME ~exit' PROVE RunsOnlyHolding' /\ PausedPlace'
    BY <1>5, <2>2 DEF Release
  <2>3. ASSUME ~exit' PROVE TicketRange' /\ TicketUnique' /\ HeadServed' /\ ParkedOutOfTurn'
    BY <1>5, <2>3 DEF Release
  <2>4. ASSUME ~exit' PROVE NoGap'
    BY <1>5, <2>4 DEF Release
  <2>5. ASSUME ~exit' PROVE HeadNotified'
    BY <1>5, <2>5 DEF Release
  <2> QED
    BY <2>1, <2>2, <2>3, <2>4, <2>5
<1>6. ASSUME NEW t \in Threads, Notify(t) PROVE IInv'
  <2>1. MutexHolder' /\ HolderPlace' /\ ExitingPlace' /\ MutualExclusion'
    BY <1>6 DEF Notify, For, AfterRelease, NotifyAll
  <2>2. ASSUME ~exit' PROVE RunsOnlyHolding' /\ PausedPlace'
    BY <1>6, <2>2 DEF Notify, For, AfterRelease, NotifyAll
  <2>3. ASSUME ~exit' PROVE TicketRange' /\ TicketUnique' /\ HeadServed' /\ ParkedOutOfTurn'
    BY <1>6, <2>3 DEF Notify, For, AfterRelease, NotifyAll
  <2>4. ASSUME ~exit' PROVE NoGap'
    BY <1>6, <2>4 DEF Notify, For, AfterRelease, NotifyAll
  <2>5. ASSUME ~exit' PROVE HeadNotified'
    BY <1>6, <2>5 DEF Notify, For, AfterRelease, NotifyAll
  <2> QED
    BY <2>1, <2>2, <2>3, <2>4, <2>5
<1>7. ASSUME NEW t \in Threads, SpuriousWakeup(t) PROVE IInv'
  BY <1>7 DEF SpuriousWakeup
<1>8. ASSUME NEW t \in Threads, Relock(t) PROVE IInv'
  BY <1>8 DEF Relock
<1>9. ASSUME NEW t \in Threads, WaitOver(t) PROVE IInv'
  BY <1>9 DEF WaitOver
<1>10. ASSUME NEW t \in Threads, CallStub(t) PROVE IInv'
  BY <1>10 DEF CallStub, Spend
<1>11. ASSUME NEW t \in Threads, GuestReturn(t) PROVE IInv'
  BY <1>11 DEF GuestReturn, ExecutorReturns
<1>12. ASSUME NEW t \in Threads, StepLimit(t) PROVE IInv'
  BY <1>12 DEF StepLimit, Spend, For, YieldGuest
<1>13. ASSUME NEW t \in Threads, CallbackLoop(t) PROVE IInv'
  BY <1>13 DEF CallbackLoop, ExecutorReturns
<1>14. ASSUME NEW t \in Threads, StubReturn(t) PROVE IInv'
  BY <1>14 DEF StubReturn, For, ExecutorReturns, YieldGuest
<1>15. ASSUME NEW t \in Threads, DispatchCallback(t) PROVE IInv'
  BY <1>15 DEF DispatchCallback, Spend
<1>16. ASSUME NEW t \in Threads, StubBlock(t) PROVE IInv'
  BY <1>16 DEF StubBlock, Spend, For
<1>17. ASSUME NEW t \in Threads, ExitGame(t) PROVE IInv'
  BY <1>17 DEF ExitGame, Spend
<1>18. ASSUME NEW t \in Threads, ExitGameNotify(t) PROVE IInv'
  BY <1>18 DEF ExitGameNotify, NotifyAll
<1>19. ASSUME NEW t \in Threads, SuspendIntr(t) PROVE IInv'
  BY <1>19 DEF SuspendIntr, NonYieldingReturn, ExecutorReturns
<1>20. ASSUME NEW t \in Threads, ResumeIntr(t) PROVE IInv'
  BY <1>20 DEF ResumeIntr, NonYieldingReturn, ExecutorReturns
<1>21. ASSUME NEW t \in Threads, NEW u \in Threads, StartThread(t, u) PROVE IInv'
  <2>1. t # u /\ pc' = [pc EXCEPT ![t] = "return", ![u] = "lock"]
    BY <1>21 DEF StartThread
  <2>2. UNCHANGED <<why, held, ticket, mutex, next, serving, exit>>
    BY <1>21 DEF StartThread
  <2>3. pc[t] = "guest" /\ pc[u] = "dormant" /\ pc'[t] = "return" /\ pc'[u] = "lock"
    BY <1>21, <2>1 DEF StartThread
  <2>4. \A v \in Threads : HasTicket(v)' <=> HasTicket(v)
    BY <2>1, <2>2, <2>3
  <2>5. MutexHolder' /\ HolderPlace' /\ ExitingPlace' /\ MutualExclusion'
    BY <2>1, <2>2, <2>3
  <2>6. ASSUME ~exit PROVE NoGap'
    BY <2>2, <2>4, <2>6
  <2>7. ASSUME ~exit PROVE TicketLine'
    <3>1. RunsOnlyHolding' /\ PausedPlace' /\ HeadServed' /\ ParkedOutOfTurn'
      BY <2>1, <2>2, <2>3, <2>7
    <3>2. TicketRange' /\ TicketUnique'
      BY <2>2, <2>4, <2>7
    <3>3. HeadNotified'
      BY <2>1, <2>2, <2>3, <2>7
    <3> QED
      BY <3>1, <3>2, <3>3, <2>6, <2>7
  <2> QED
    BY <2>2, <2>5, <2>7
<1>22. CASE Host
  BY <1>22 DEF Host, HostLoop, HostExit, HostNotify, HostJoined, NotifyAll
<1>23. CASE Ended \/ UNCHANGED vars
  BY <1>23 DEF Ended, vars
<1> QED
  BY <1>1, <1>2, <1>3, <1>4, <1>5, <1>6, <1>7, <1>8, <1>9, <1>10, <1>11, <1>12,
     <1>13, <1>14, <1>15, <1>16, <1>17, <1>18, <1>19, <1>20, <1>21, <1>22, <1>23
     DEF Next, Thread, Local, Locking

\* The inductive invariant holds in every reachable state.
LEMMA IInvCorrect == Spec => []IInv
BY InitIInv, IInvStep, PTL DEF Spec

\* At most one host thread holds the guest execution lock, for any number of
\* threads, also while acquire_guest_execution refuses it because of an exit
\* (runtime.cpp:882-904).
THEOREM MutualExclusionCorrect == Spec => []MutualExclusion
<1>1. IInv => MutualExclusion
  BY DEF IInv
<1> QED
  BY <1>1, IInvCorrect, PTL

\* Until an exit is requested, guest and stub code run only under the lock
\* (runtime.cpp:684-687).
THEOREM RunningHoldsLockCorrect == Spec => []RunningHoldsLock
<1>1. IInv => RunningHoldsLock
  BY DEF IInv, TicketLine, RunsOnlyHolding, RunningHoldsLock, Running
<1> QED
  BY <1>1, IInvCorrect, PTL

\* Until an exit is requested no ticket is lost and none has two owners
\* (runtime.cpp:884, 901).
THEOREM EveryTicketOwnedCorrect == Spec => []EveryTicketOwned
<1>1. IInv => EveryTicketOwned
  <2> SUFFICES ASSUME IInv, ~exit, NEW k \in serving..(next - 1)
               PROVE  \E t \in Threads :
                        /\ HasTicket(t) /\ ticket[t] = k
                        /\ \A u \in Threads :
                             HasTicket(u) /\ ticket[u] = k => u = t
    BY DEF EveryTicketOwned
  <2>1. k \in Nat /\ serving <= k /\ k < next
    BY DEF IInv, TypeOK
  <2>2. PICK t \in Threads : HasTicket(t) /\ ticket[t] = k
    BY <2>1 DEF IInv, TicketLine, NoGap
  <2>3. \A u \in Threads : HasTicket(u) /\ ticket[u] = k => u = t
    BY <2>2 DEF IInv, TicketLine, TicketUnique
  <2> QED
    BY <2>2, <2>3
<1> QED
  BY <1>1, IInvCorrect, PTL

\* Until an exit is requested, the thread whose turn it is is not left asleep
\* on guest_execution_changed without a notification on its way
\* (runtime.cpp:885-888, 903).
THEOREM NoLostTurnCorrect == Spec => []NoLostTurn
<1>1. IInv => NoLostTurn
  BY DEF IInv, TicketLine, HeadNotified, NoLostTurn
<1> QED
  BY <1>1, IInvCorrect, PTL
-----------------------------------------------------------------------------
(***************************************************************************)
(* The guest execution lock implements the first-come-first-served CPU of  *)
(* GuestCpu, for any threads.                                              *)
(***************************************************************************)

\* What the abstract CPU sees does not change in a step that leaves the
\* holder, the tickets, the exit flag and the set of waiting threads alone.
LEMMA Invisible ==
  ASSUME UNCHANGED <<held, ticket, exit>>,
         \A u \in Threads : Waiting(u)' <=> Waiting(u)
  PROVE  UNCHANGED Cpu!cpuVars
<1>1. Owner' = Owner
  BY DEF Owner
<1>2. Line' = Line
  BY DEF Line
<1>3. \A t \in Threads : Before(t)' = Before(t)
  BY <1>2 DEF Before
<1> QED
  BY <1>1, <1>2, <1>3 DEF Cpu!cpuVars

\* The holder, when there is one, is the owner.
LEMMA OwnerIsHolder ==
  ASSUME MutualExclusion
  PROVE  /\ \A t \in Threads : held[t] => Owner = t
         /\ (\A t \in Threads : ~held[t]) => Owner = NoThread
BY DEF MutualExclusion, Owner

\* Nobody holds the lock or waits for it at the start.
LEMMA RefinesInit == Init => Cpu!Init
<1> SUFFICES ASSUME Init PROVE Cpu!Init
  OBVIOUS
<1>1. Owner = NoThread
  BY DEF Init, Owner
<1>2. Line = {}
  BY DEF Init, Line, Waiting
<1>3. \A t \in Threads : Before(t) = {}
  BY <1>2 DEF Before
<1> QED
  BY <1>1, <1>2, <1>3 DEF Cpu!Init, Init

\* Drawing a ticket is joining the line at its end.
LEMMA RefinesTakeTicket ==
  ASSUME IInv, IInv', NEW t \in Threads, TakeTicket(t)
  PROVE  Cpu!Request(t) \/ UNCHANGED Cpu!cpuVars
<1> USE DEF IInv, TypeOK
<1>1. /\ pc[t] = "lock" /\ pc'[t] = "check" /\ ticket'[t] = next
      /\ UNCHANGED <<held, exit>>
      /\ \A u \in Threads \ {t} : pc'[u] = pc[u] /\ ticket'[u] = ticket[u]
  BY DEF TakeTicket, Goto
<1>2. Owner' = Owner
  BY <1>1 DEF Owner
<1>3. CASE exit
  BY <1>1, <1>2, <1>3 DEF Line, Before, Cpu!cpuVars
<1>4. CASE ~exit
  <2>1. t \notin Line /\ Line' = Line \cup {t}
    BY <1>1, <1>4 DEF Line, Waiting
  <2>2. \A u \in Line : ticket[u] < next
    BY <1>4 DEF Line, TicketLine, TicketRange, HasTicket
  <2>3. Before(t)' = Line
    BY <1>1, <2>1, <2>2 DEF Before, Line
  <2>4. \A u \in Threads \ {t} : Before(u)' = Before(u)
    BY <1>1, <2>1, <2>2 DEF Before, Line
  <2>5. ~held[t] /\ Owner # t
    BY <1>1, ThreadsAssumption, OwnerIsHolder DEF HolderPlace, Owner
  <2> QED
    BY <1>1, <1>2, <1>4, <2>1, <2>3, <2>4, <2>5 DEF Cpu!Request
<1> QED
  BY <1>3, <1>4

\* Being admitted is being granted the CPU, unless the exit forbids it.
LEMMA RefinesAdmit ==
  ASSUME IInv, IInv', NEW t \in Threads, Admit(t)
  PROVE  Cpu!Grant(t) \/ UNCHANGED Cpu!cpuVars
<1> USE DEF IInv, TypeOK
<1>1. /\ pc[t] = "admit" /\ UNCHANGED <<ticket, exit>>
      /\ \A u \in Threads \ {t} : pc'[u] = pc[u] /\ held'[u] = held[u]
  BY DEF Admit, Goto, locals
<1>2. ~held[t]
  BY <1>1 DEF HolderPlace
<1>3. CASE exit
  <2>1. held' = [held EXCEPT ![t] = FALSE]
    BY <1>3 DEF Admit
  <2>2. held' = held
    BY <1>2, <2>1
  <2> QED
    BY <1>1, <1>3, <2>2 DEF Owner, Line, Before, Cpu!cpuVars
<1>4. CASE ~exit
  <2>1. held' = [held EXCEPT ![t] = TRUE]
    BY <1>4 DEF Admit
  <2>2. pc'[t] \in {"guest", "test", "stub"}
    BY <1>4 DEF Admit, Goto, AfterAcquire
  <2>3. ticket[t] = serving
    BY <1>1, <1>4 DEF TicketLine, HeadServed
  <2>4. \A u \in Threads : ~held[u]
    BY <1>1, <1>2, <1>4, <2>3 DEF TicketLine, HeadServed, TicketUnique, HasTicket, Waiting
  <2>5. Owner = NoThread /\ Owner' = t
    <3>1. Owner = NoThread
      BY <2>4, OwnerIsHolder
    <3>2. held'[t]
      BY <2>1
    <3>3. \A u \in Threads : held'[u] => u = t
      BY <2>1, <2>4
    <3> QED
      BY <3>1, <3>2, <3>3 DEF Owner
  <2>6. t \in Line /\ Line' = Line \ {t}
    BY <1>1, <1>4, <2>2 DEF Line, Waiting
  <2>7. \A u \in Line : ~(ticket[u] < ticket[t])
    BY <1>4, <2>3 DEF Line, TicketLine, TicketRange, HasTicket
  <2>8. Before(t) = {}
    BY <2>7 DEF Before
  <2>9. \A u \in Threads : Before(u)' = Before(u) \ {t}
    BY <1>1, <2>6, <2>8 DEF Before
  <2> QED
    BY <1>1, <1>4, <2>5, <2>6, <2>8, <2>9 DEF Cpu!Grant
<1> QED
  BY <1>3, <1>4

\* Releasing the lock frees the CPU; a release by a thread that was refused
\* the lock changes nothing the CPU can see.
LEMMA RefinesRelease ==
  ASSUME IInv, IInv', NEW t \in Threads, Release(t)
  PROVE  Cpu!Free(t) \/ UNCHANGED Cpu!cpuVars
<1> USE DEF IInv, TypeOK
<1>1. /\ pc[t] = "release" /\ pc'[t] = "notify" /\ UNCHANGED <<ticket, exit>>
      /\ held' = [held EXCEPT ![t] = FALSE]
      /\ \A u \in Threads \ {t} : pc'[u] = pc[u]
  BY DEF Release, Goto, locals
<1>2. \A u \in Threads : Waiting(u)' <=> Waiting(u)
  BY <1>1 DEF Waiting
<1>3. Line' = Line /\ \A u \in Threads : Before(u)' = Before(u)
  BY <1>1, <1>2 DEF Line, Before
<1>4. CASE held[t]
  <2>1. Owner = t
    BY <1>4, OwnerIsHolder
  <2>2. \A u \in Threads : ~held'[u]
    BY <1>1, <1>4 DEF MutualExclusion
  <2>3. Owner' = NoThread
    BY <2>2 DEF Owner
  <2> QED
    BY <1>1, <1>3, <2>1, <2>3 DEF Cpu!Free
<1>5. CASE ~held[t]
  <2>1. held' = held
    BY <1>1, <1>5
  <2> QED
    BY <1>1, <1>2, <2>1, Invisible
<1> QED
  BY <1>4, <1>5

\* Raising exit_requested closes the CPU, once.
LEMMA RefinesExit ==
  ASSUME IInv, exit', held' = held, ticket' = ticket
  PROVE  Cpu!Close \/ UNCHANGED Cpu!cpuVars
<1>1. Owner' = Owner
  BY DEF Owner
<1>2. exit' = TRUE /\ exit \in BOOLEAN
  BY DEF IInv, TypeOK
<1>3. Line' = {} /\ \A t \in Threads : Before(t)' = {}
  BY DEF Line, Before
<1>4. CASE exit
  <2>1. Line = {} /\ \A t \in Threads : Before(t) = {}
    BY <1>4 DEF Line, Before
  <2> QED
    BY <1>1, <1>2, <1>3, <1>4, <2>1 DEF Cpu!cpuVars
<1>5. CASE ~exit
  BY <1>1, <1>2, <1>3, <1>5 DEF Cpu!Close
<1> QED
  BY <1>4, <1>5

\* Every step of the lock is a step of the CPU or changes nothing it sees.
LEMMA RefinesNext ==
  ASSUME IInv, IInv', [Next]_vars
  PROVE  [Cpu!Next]_(Cpu!cpuVars)
<1>types. TypeOK
  BY DEF IInv
<1> USE <1>types DEF TypeOK, Goto, lock, locals
<1>1. ASSUME NEW t \in Threads, TakeTicket(t) PROVE [Cpu!Next]_(Cpu!cpuVars)
  BY <1>1, RefinesTakeTicket DEF Cpu!Next
<1>2. ASSUME NEW t \in Threads, Admit(t) PROVE [Cpu!Next]_(Cpu!cpuVars)
  BY <1>2, RefinesAdmit DEF Cpu!Next
<1>3. ASSUME NEW t \in Threads, Release(t) PROVE [Cpu!Next]_(Cpu!cpuVars)
  BY <1>3, RefinesRelease DEF Cpu!Next
<1>4. ASSUME NEW t \in Threads, ExitGame(t) PROVE [Cpu!Next]_(Cpu!cpuVars)
  <2>1. exit' /\ held' = held /\ ticket' = ticket
    BY <1>4 DEF ExitGame
  <2> QED
    BY <2>1, RefinesExit DEF Cpu!Next
<1>5. ASSUME HostExit PROVE [Cpu!Next]_(Cpu!cpuVars)
  <2>1. exit' /\ held' = held /\ ticket' = ticket
    BY <1>5 DEF HostExit
  <2> QED
    BY <2>1, RefinesExit DEF Cpu!Next
<1>6. ASSUME NEW t \in Threads,
             EvaluatePredicate(t) \/ Park(t) \/ SpuriousWakeup(t) \/ Relock(t)
      PROVE  UNCHANGED Cpu!cpuVars
  <2>1. UNCHANGED <<held, ticket, exit>>
    BY <1>6 DEF EvaluatePredicate, Park, SpuriousWakeup, Relock
  <2>2. \A u \in Threads : Waiting(u)' <=> Waiting(u)
    BY <1>6 DEF EvaluatePredicate, Park, SpuriousWakeup, Relock, Waiting
  <2> QED
    BY <2>1, <2>2, Invisible
<1>7. ASSUME NEW t \in Threads, Notify(t) \/ ExitGameNotify(t)
      PROVE  UNCHANGED Cpu!cpuVars
  <2>1. UNCHANGED <<held, ticket, exit>>
    BY <1>7 DEF Notify, ExitGameNotify
  <2>2. \A u \in Threads : Waiting(u)' <=> Waiting(u)
    BY <1>7 DEF Notify, ExitGameNotify, NotifyAll, AfterRelease, Waiting
  <2> QED
    BY <2>1, <2>2, Invisible
<1>8. ASSUME NEW t \in Threads,
             \/ GuestReturn(t) \/ StepLimit(t) \/ CallbackLoop(t) \/ CallStub(t)
             \/ StubReturn(t) \/ DispatchCallback(t) \/ StubBlock(t) \/ WaitOver(t)
             \/ SuspendIntr(t) \/ ResumeIntr(t)
      PROVE  UNCHANGED Cpu!cpuVars
  <2>1. UNCHANGED <<held, ticket, exit>>
    BY <1>8 DEF GuestReturn, StepLimit, CallbackLoop, CallStub, StubReturn,
                DispatchCallback, StubBlock, WaitOver, SuspendIntr, ResumeIntr
  <2>2. PICK p \in PCs : pc' = [pc EXCEPT ![t] = p] /\ ~(p \in {"check", "park", "parked", "woken", "admit"})
    BY <1>8 DEF GuestReturn, StepLimit, CallbackLoop, CallStub, StubReturn,
                DispatchCallback, StubBlock, WaitOver, SuspendIntr, ResumeIntr,
                NonYieldingReturn, ExecutorReturns, YieldGuest, PCs
  <2>3. ~Waiting(t)
    BY <1>8 DEF GuestReturn, StepLimit, CallbackLoop, CallStub, StubReturn,
                DispatchCallback, StubBlock, WaitOver, SuspendIntr, ResumeIntr,
                Waiting
  <2>4. \A u \in Threads : Waiting(u)' <=> Waiting(u)
    BY <2>2, <2>3 DEF Waiting
  <2> QED
    BY <2>1, <2>4, Invisible
<1>9. ASSUME NEW t \in Threads, NEW u \in Threads, StartThread(t, u)
      PROVE  UNCHANGED Cpu!cpuVars
  <2>1. UNCHANGED <<held, ticket, exit>>
    BY <1>9 DEF StartThread
  <2>2. \A v \in Threads : Waiting(v)' <=> Waiting(v)
    BY <1>9 DEF StartThread, Waiting
  <2> QED
    BY <2>1, <2>2, Invisible
<1>10. ASSUME HostLoop \/ HostNotify \/ HostJoined \/ Ended \/ UNCHANGED vars
       PROVE  UNCHANGED Cpu!cpuVars
  <2>1. UNCHANGED <<held, ticket, exit>>
    BY <1>10 DEF HostLoop, HostNotify, HostJoined, Ended, vars
  <2>2. \A u \in Threads : Waiting(u)' <=> Waiting(u)
    BY <1>10, ThreadsAssumption
       DEF HostLoop, HostNotify, HostJoined, Ended, vars, NotifyAll, Waiting
  <2> QED
    BY <2>1, <2>2, Invisible
<1> QED
  BY <1>1, <1>2, <1>3, <1>4, <1>5, <1>6, <1>7, <1>8, <1>9, <1>10
     DEF Next, Thread, Local, Locking, Host

\* acquire_guest_execution and release_guest_execution (runtime.cpp:882-904)
\* implement one CPU handed out first come, first served until the exit.
THEOREM LockImplementsCpu == Spec => ImplementsCpu
<1>1. IInv /\ IInv' /\ [Next]_vars => [Cpu!Next]_(Cpu!cpuVars)
  BY RefinesNext
<1> QED
  BY <1>1, RefinesInit, IInvCorrect, PTL DEF Spec, ImplementsCpu, Cpu!Spec
=============================================================================
