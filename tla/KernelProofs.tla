---------------------------- MODULE KernelProofs ----------------------------
(***************************************************************************)
(* The inductive invariants of the mutex, the sleep state, the event flag, *)
(* the semaphore and the fixed pool, for any threads, any number of calls  *)
(* and any parameters of the objects, and what the proofs need of          *)
(* sequences.  KernelTheorems draws the conclusions.                       *)
(***************************************************************************)
EXTENDS KernelObjects, FiniteSetTheorems, SequenceTheorems, TLAPS

\* A thread is at a place inside the object's mutex exactly when it holds it.
HolderPlace == \A t \in Threads : mutex = t <=> pc[t] \in HoldsMutex

\* The host notifies the objects after it has set the flag.
FlagBeforeNotify == host # "run" => exit

-----------------------------------------------------------------------------
(* The mutex *)

\* The wait predicate still holds when the waiter acts on it.
LockReady ==
    \A t \in Threads : pc[t] = "commit" => lockCount = 0 \/ owner = t \/ exit

\* A wait in progress is for some levels.
LockAsked == \A t \in Threads : pc[t] \in WaitPCs => levels[t] > 0

\* The kernel counts the levels the owner counts, and nobody else counts any.
LevelsAgree ==
    disciplined =>
      \A t \in Threads : depth[t] = IF owner = t THEN lockCount ELSE 0

MutexInv ==
    /\ Mutex!TypeOK
    /\ HolderPlace
    /\ LockReady /\ LockAsked /\ LevelsAgree
    /\ Mutex!FreeIffUnowned /\ Mutex!OwnerNeverSleeps /\ Mutex!NoSleeperBesideFreeMutex

\* Guests lock and unlock by positive numbers.
LEMMA LockAmountsPositive == LockAmounts \subseteq Nat \ {0}
  BY ObjectsAssumption DEF Mutex!MutexAssumption

\* A step of the mutex keeps its invariant; one step of the proof per action.
LEMMA MutexStep == MutexInv /\ [Mutex!Next]_(Mutex!vars) => MutexInv'
<1> SUFFICES ASSUME MutexInv, [Mutex!Next]_(Mutex!vars) PROVE MutexInv'
  OBVIOUS
<1> USE HleAssumption, LockAmountsPositive
    DEF MutexInv, Mutex!TypeOK, Mutex!HleTypeOK, Mutex!HlePCs,
        HolderPlace, HoldsMutex, WaitPCs,
        LockReady, LockAsked, LevelsAgree, Mutex!FreeIffUnowned,
        Mutex!OwnerNeverSleeps, Mutex!NoSleeperBesideFreeMutex, Mutex!Asleep,
        Mutex!Goto, Mutex!mtx, Mutex!hle
<1>1. ASSUME NEW t \in Threads, Mutex!CommitLock(t) PROVE MutexInv'
  <2>1. /\ pc' = [pc EXCEPT ![t] = "resume"] /\ pc[t] = "commit"
        /\ mutex = t /\ mutex' = NoThread
        /\ levels' = [levels EXCEPT ![t] = 0]
        /\ UNCHANGED <<cpu, exit, host, calls, alive, disciplined>>
        /\ timed' = [timed EXCEPT ![t] = FALSE]
    BY <1>1 DEF Mutex!CommitLock, Mutex!EndWait
  <2>levels. levels[t] \in Nat /\ levels[t] > 0
    <3>1. levels[t] > 0
      BY <2>1
    <3>2. levels \in [Threads -> LockAmounts \cup {0}]
      OBVIOUS
    <3>3. \A n \in LockAmounts \cup {0} : n \in Nat
      BY LockAmountsPositive
    <3> HIDE DEF MutexInv
    <3> QED
      BY <3>1, <3>2, <3>3
  <2>2. Mutex!HleTypeOK' /\ HolderPlace' /\ LockAsked' /\ levels' \in [Threads -> LockAmounts \cup {0}]
    BY <2>1
  <2>3. CASE exit
    <3>1. UNCHANGED <<lockCount, owner, depth>>
      BY <1>1, <2>3 DEF Mutex!CommitLock, Mutex!Acquire
    <3> QED
      BY <2>1, <2>2, <2>3, <3>1
  <2>4. CASE ~exit
    <3>1. /\ owner' = t /\ lockCount' = lockCount + levels[t]
          /\ depth' = IF disciplined THEN [depth EXCEPT ![t] = @ + levels[t]] ELSE depth
      BY <1>1, <2>4 DEF Mutex!CommitLock, Mutex!Acquire
    <3>2. lockCount = 0 \/ owner = t
      BY <2>1, <2>4
    <3>3. lockCount' \in Nat \ {0} /\ depth' \in [Threads -> Nat]
      BY <2>1, <2>levels, <3>1
    <3>4. LevelsAgree'
      BY <2>1, <2>levels, <3>1, <3>2
    <3>5. LockReady'
      BY <2>1
    <3>6. Mutex!FreeIffUnowned' /\ Mutex!OwnerNeverSleeps' /\ Mutex!NoSleeperBesideFreeMutex'
      BY <2>1, <3>1, <3>3
    <3> QED
      BY <2>1, <2>2, <3>1, <3>3, <3>4, <3>5, <3>6
  <2> QED
    BY <2>3, <2>4
<1>2. ASSUME NEW t \in Threads, Mutex!LockTimesOut(t) PROVE MutexInv'
  BY <1>2 DEF Mutex!LockTimesOut, Mutex!EndWait
<1>3. ASSUME NEW t \in Threads, Mutex!Evaluate(t, Mutex!Available(t)), UNCHANGED mtx PROVE MutexInv'
  BY <1>3 DEF Mutex!Evaluate, Mutex!Available, mtx
<1>4. ASSUME NEW t \in Threads, Mutex!Park(t), UNCHANGED mtx PROVE MutexInv'
  BY <1>4 DEF Mutex!Park, mtx
<1>5. ASSUME NEW t \in Threads, Mutex!Relock(t), UNCHANGED mtx PROVE MutexInv'
  BY <1>5 DEF Mutex!Relock, mtx
<1>6. ASSUME NEW t \in Threads, Mutex!RelockExpired(t, Mutex!Available(t)), UNCHANGED mtx PROVE MutexInv'
  BY <1>6 DEF Mutex!RelockExpired, Mutex!Available, mtx
<1>7. ASSUME NEW t \in Threads, NEW n \in LockAmounts, Mutex!UnlockMutex(t, n) PROVE MutexInv'
  <2> USE DEF Mutex!UnlockMutex, Mutex!Released, Mutex!LessOrZero, Mutex!UnlockNotifies, Mutex!NotifyAll
  <2>1. n \in Nat \ {0} /\ mutex = NoThread /\ UNCHANGED <<mutex, exit, levels>>
    BY <1>7
  <2>2. Mutex!HleTypeOK' /\ HolderPlace' /\ LockReady' /\ LockAsked'
    BY <1>7
  <2>3. /\ lockCount' = IF lockCount > n THEN lockCount - n ELSE 0
        /\ owner' = IF lockCount' = 0 THEN NoThread ELSE owner
        /\ disciplined' = (disciplined /\ n <= depth[t])
        /\ depth' = [u \in Threads |-> IF ~disciplined' THEN 0
                                      ELSE IF u = t THEN depth[u] - n ELSE depth[u]]
    BY <1>7
  <2>4. lockCount' \in Nat /\ owner' \in Threads \cup {NoThread} /\ disciplined' \in BOOLEAN
    BY <2>1, <2>3
  <2>5. ASSUME disciplined'
        PROVE depth' \in [Threads -> Nat] /\ LevelsAgree'
    <3>disciplined. disciplined /\ n <= depth[t]
      BY <2>3, <2>5, Zenon
    <3>1. /\ disciplined /\ owner = t /\ depth[t] = lockCount /\ n <= lockCount
          /\ lockCount' = lockCount - n
      BY <2>1, <2>3, <3>disciplined
    <3>2. depth' = [u \in Threads |-> IF u = t THEN lockCount' ELSE 0]
      BY <2>1, <2>3, <2>5, <3>1
    <3> QED
      BY <2>3, <2>4, <3>1, <3>2
  <2>6. depth' \in [Threads -> Nat] /\ LevelsAgree'
    <3>1. CASE disciplined'
      BY <2>4, <2>5, <3>1
    <3>2. CASE ~disciplined'
      BY <2>3, <3>2
    <3> QED
      BY <3>1, <3>2
  <2>7. Mutex!FreeIffUnowned' /\ Mutex!OwnerNeverSleeps' /\ Mutex!NoSleeperBesideFreeMutex'
    <3>1. Mutex!FreeIffUnowned'
      BY <2>1, <2>3
    <3>2. \A u \in Threads : Mutex!Asleep(u)' => Mutex!Asleep(u)
      BY <1>7
    <3>3. lockCount' = 0 => \A u \in Threads : ~Mutex!Asleep(u)'
      BY <1>7
    <3> QED
      BY <2>3, <3>1, <3>2, <3>3
  <2> QED
    BY <2>1, <2>2, <2>4, <2>6, <2>7
<1>8. ASSUME NEW t \in Threads, NEW n \in LockAmounts, NEW w \in Timeouts, Mutex!LockMutex(t, n, w) PROVE MutexInv'
  BY <1>8 DEF Mutex!LockMutex, Mutex!BeginWait, Mutex!WithoutCpu
<1>9. ASSUME NEW t \in Threads, Mutex!DeleteMutex(t) \/ Mutex!UnknownMutex(t) PROVE MutexInv'
  <2>1. Mutex!Call(t, "return") /\ UNCHANGED mtx /\ alive' \in BOOLEAN
    BY <1>9 DEF Mutex!DeleteMutex, Mutex!UnknownMutex, mtx
  <2> QED
    BY <2>1 DEF Mutex!Call, mtx
<1>10. ASSUME NEW t \in Threads, Mutex!CpuStep(t), UNCHANGED mtx PROVE MutexInv'
  BY <1>10 DEF Mutex!CpuStep, Mutex!TakeCpu, Mutex!Yield, Mutex!Finish, Mutex!WithoutCpu, mtx
<1>11. ASSUME Mutex!Environment, UNCHANGED mtx PROVE MutexInv'
  <2>1. ASSUME NEW t \in Threads, Mutex!SpuriousWakeup(t) PROVE MutexInv'
    BY <1>11, <2>1 DEF Mutex!SpuriousWakeup, mtx
  <2>2. ASSUME NEW t \in Threads, Mutex!Expire(t) PROVE MutexInv'
    BY <1>11, <2>2 DEF Mutex!Expire, mtx
  <2>3. CASE Mutex!ExitFlag
    BY <1>11, <2>3 DEF Mutex!ExitFlag, mtx
  <2>4. CASE Mutex!ExitNotify
    BY <1>11, <2>4 DEF Mutex!ExitNotify, Mutex!NotifyAll, mtx
  <2> QED
    BY <1>11, <2>1, <2>2, <2>3, <2>4 DEF Mutex!Environment
<1>12. CASE UNCHANGED Mutex!vars
  BY <1>12 DEF Mutex!vars
<1> QED
  BY <1>1, <1>2, <1>3, <1>4, <1>5, <1>6, <1>7, <1>8, <1>9, <1>10, <1>11, <1>12
     DEF Mutex!Next, Mutex!Running, Mutex!Relocking, Mutex!Guest, mtx
-----------------------------------------------------------------------------
(* The sleep state of a thread *)

\* Nobody but its thread waits on a sleep state.
OnlySleeperWaits == \A t \in Threads : pc[t] \in WaitPCs => t = sleeper

\* A thread that is about to block has seen no wakeup, and none can come
\* before it has.
NoneBeforePark == \A t \in Threads : pc[t] = "park" => wakeupCount = 0

SleepInv ==
    /\ Sleep!TypeOK
    /\ HolderPlace
    /\ OnlySleeperWaits /\ NoneBeforePark
    /\ Sleep!WakeupsConserved /\ Sleep!NoLostWakeup

\* A step of the sleep state keeps its invariant.
LEMMA SleepStep == SleepInv /\ [Sleep!Next]_(Sleep!vars) => SleepInv'
<1> SUFFICES ASSUME SleepInv, [Sleep!Next]_(Sleep!vars) PROVE SleepInv'
  OBVIOUS
<1> USE HleAssumption
    DEF SleepInv, Sleep!TypeOK, Sleep!HleTypeOK, Sleep!HlePCs,
        HolderPlace, HoldsMutex, WaitPCs, OnlySleeperWaits, NoneBeforePark,
        Sleep!WakeupsConserved, Sleep!NoLostWakeup, Sleep!Asleep,
        Sleep!Goto, Sleep!slp, Sleep!hle
<1>1. ASSUME NEW t \in Threads, Sleep!CommitSleep(t) PROVE SleepInv'
  BY <1>1 DEF Sleep!CommitSleep, Sleep!EndWait
<1>2. ASSUME NEW t \in Threads, Sleep!WakeupNotifies(t) PROVE SleepInv'
  BY <1>2 DEF Sleep!WakeupNotifies, Sleep!NotifyOne
<1>3. ASSUME NEW t \in Threads, Sleep!Evaluate(t, Sleep!Available), UNCHANGED slp PROVE SleepInv'
  BY <1>3 DEF Sleep!Evaluate, Sleep!Available, slp
<1>4. ASSUME NEW t \in Threads, Sleep!Park(t), UNCHANGED slp PROVE SleepInv'
  BY <1>4 DEF Sleep!Park, slp
<1>5. ASSUME NEW t \in Threads, Sleep!Relock(t), UNCHANGED slp PROVE SleepInv'
  BY <1>5 DEF Sleep!Relock, slp
<1>6. ASSUME NEW t \in Threads, Sleep!SleepThread(t) PROVE SleepInv'
  BY <1>6 DEF Sleep!SleepThread, Sleep!WithoutCpu
<1>7. ASSUME NEW t \in Threads, Sleep!WakeupThread(t) PROVE SleepInv'
  BY <1>7 DEF Sleep!WakeupThread, Sleep!LockedCall, Sleep!Call
<1>8. ASSUME NEW t \in Threads, Sleep!CancelWakeupThread(t) PROVE SleepInv'
  BY <1>8 DEF Sleep!CancelWakeupThread, Sleep!LockedCall, Sleep!Call
<1>9. ASSUME NEW t \in Threads, Sleep!CpuStep(t), UNCHANGED slp PROVE SleepInv'
  BY <1>9 DEF Sleep!CpuStep, Sleep!TakeCpu, Sleep!Yield, Sleep!Finish, Sleep!WithoutCpu, slp
<1>10. ASSUME Sleep!Environment, UNCHANGED slp PROVE SleepInv'
  <2>1. ASSUME NEW t \in Threads, Sleep!SpuriousWakeup(t) PROVE SleepInv'
    BY <1>10, <2>1 DEF Sleep!SpuriousWakeup, slp
  <2>2. ASSUME NEW t \in Threads, Sleep!Expire(t) PROVE SleepInv'
    BY <1>10, <2>2 DEF Sleep!Expire, slp
  <2>3. CASE Sleep!ExitFlag
    BY <1>10, <2>3 DEF Sleep!ExitFlag, slp
  <2>4. CASE Sleep!ExitNotify
    BY <1>10, <2>4 DEF Sleep!ExitNotify, Sleep!NotifyAll, slp
  <2> QED
    BY <1>10, <2>1, <2>2, <2>3, <2>4 DEF Sleep!Environment
<1>11. CASE UNCHANGED Sleep!vars
  BY <1>11 DEF Sleep!vars
<1> QED
  BY <1>1, <1>2, <1>3, <1>4, <1>5, <1>6, <1>7, <1>8, <1>9, <1>10, <1>11
     DEF Sleep!Next, Sleep!Running, Sleep!Relocking, Sleep!Guest, slp
-----------------------------------------------------------------------------
(* The event flag *)

\* What a thread waits for: a pattern and how it is matched and cleared.
FlagWaits == [pattern : Flag!Patterns, mode : Flag!Modes]

FlagTypeOK ==
    /\ Flag!HleTypeOK
    /\ bits \subseteq Bits
    /\ waiting \in Nat
    /\ wait \in [Threads -> FlagWaits \cup {NoWait}]

\* A wait in progress has a pattern.
FlagAsked == \A t \in Threads : pc[t] \in WaitPCs => wait[t] \in FlagWaits

\* The bits a waiter has seen are there when it takes them.
FlagReady == \A t \in Threads : pc[t] = "commit" => Flag!Satisfied(t) \/ exit

\* A thread that is about to block has not seen its bits, and they cannot be
\* set before it has blocked.
UnmatchedBeforePark ==
    \A t \in Threads : pc[t] = "park" => ~Flag!Satisfied(t) \/ exit

FlagWaiters == {t \in Threads : pc[t] \in WaitPCs}

FlagInv ==
    /\ FlagTypeOK
    /\ HolderPlace
    /\ FlagAsked /\ FlagReady /\ UnmatchedBeforePark
    /\ IsFiniteSet(FlagWaiters) /\ waiting = Cardinality(FlagWaiters)
    /\ Flag!NoLostWakeup

\* The waiters are the same before and after a step.
FlagSameWaiters == \A t \in Threads : pc'[t] \in WaitPCs <=> pc[t] \in WaitPCs

\* A step that neither begins nor ends a wait keeps the count exact.
LEMMA FlagCountKept ==
    ASSUME FlagInv, FlagSameWaiters, UNCHANGED waiting
    PROVE  IsFiniteSet(FlagWaiters)' /\ (waiting = Cardinality(FlagWaiters))'
<1>1. FlagWaiters' = FlagWaiters
  BY DEF FlagSameWaiters, FlagWaiters
<1> QED
  BY <1>1 DEF FlagInv

\* A step of the event flag keeps its invariant.
LEMMA FlagStep == FlagInv /\ [Flag!Next]_(Flag!vars) => FlagInv'
<1> SUFFICES ASSUME FlagInv, [Flag!Next]_(Flag!vars) PROVE FlagInv'
  OBVIOUS
<1> DEFINE Rest ==
      /\ FlagTypeOK /\ HolderPlace /\ FlagAsked /\ FlagReady /\ UnmatchedBeforePark
      /\ Flag!NoLostWakeup
<1>inv. Rest
  BY DEF FlagInv
<1>kept. ASSUME Rest', FlagSameWaiters, UNCHANGED waiting PROVE FlagInv'
  BY <1>kept, FlagCountKept DEF FlagInv
<1> USE HleAssumption, <1>inv
    DEF FlagTypeOK, Flag!HleTypeOK, Flag!HlePCs,
        HolderPlace, HoldsMutex, WaitPCs, FlagAsked, FlagReady, UnmatchedBeforePark,
        Flag!NoLostWakeup, Flag!Asleep, Flag!Satisfied, FlagSameWaiters,
        Flag!Goto, Flag!flag, Flag!hle
<1>1. ASSUME NEW t \in Threads, Flag!CommitWait(t) PROVE FlagInv'
  <2>0. /\ pc[t] = "commit" /\ pc' = [pc EXCEPT ![t] = "resume"]
        /\ mutex = t /\ mutex' = NoThread
        /\ bits' = Flag!Cleared(wait[t].pattern, wait[t].mode)
        /\ wait' = [wait EXCEPT ![t] = NoWait]
        /\ timed' = [timed EXCEPT ![t] = FALSE]
        /\ UNCHANGED <<cpu, exit, host, calls, alive>>
    BY <1>1 DEF Flag!CommitWait, Flag!EndWait
  <2>types. bits' \subseteq Bits /\ wait' \in [Threads -> FlagWaits \cup {NoWait}]
    BY <2>0 DEF Flag!Cleared
  <2>count. waiting' \in Nat
    <3>1. t \in FlagWaiters
      BY <2>0 DEF FlagWaiters
    <3>2. Cardinality(FlagWaiters) # 0
      BY <3>1, FS_EmptySet DEF FlagInv
    <3> QED
      BY <1>1, <3>2 DEF Flag!CommitWait, FlagInv
  <2>place. Flag!HleTypeOK' /\ HolderPlace' /\ FlagAsked'
    BY <2>0
  <2>ready. FlagReady' /\ UnmatchedBeforePark' /\ Flag!NoLostWakeup'
    <3>1. \A u \in Threads : pc[u] \notin {"park"} /\ (u # t => pc[u] # "commit")
      BY <2>0
    <3>2. \A u \in Threads : Flag!Satisfied(u)' /\ pc'[u] = "parked" => Flag!Satisfied(u)
      BY <2>0 DEF Flag!Matched, Flag!Cleared
    <3> QED
      BY <2>0, <3>1, <3>2
  <2>1. Rest'
    BY <2>types, <2>count, <2>place, <2>ready
  <2>2. t \in FlagWaiters /\ FlagWaiters' = FlagWaiters \ {t} /\ waiting' = waiting - 1
    BY <1>1 DEF Flag!CommitWait, Flag!EndWait, FlagWaiters
  <2>3. IsFiniteSet(FlagWaiters)' /\ (waiting = Cardinality(FlagWaiters))'
    BY <2>2, FS_RemoveElement DEF FlagInv
  <2> QED
    BY <2>1, <2>3 DEF FlagInv
<1>2. ASSUME NEW t \in Threads, Flag!SetNotifies(t) \/ Flag!ClearNotifies(t) PROVE FlagInv'
  <2>1. PICK p \in {"return", "guest"} : Flag!NotifyAll(t, p)
    BY <1>2 DEF Flag!SetNotifies, Flag!ClearNotifies, Flag!Quietly
  <2>2. pc[t] \in {"signal", "announce"} /\ UNCHANGED <<cpu, exit, host, calls, mutex, alive, timed, flag>>
    BY <1>2 DEF Flag!SetNotifies, Flag!ClearNotifies, flag
  <2>3. /\ pc' \in [Threads -> Flag!HlePCs] /\ pc'[t] = p
        /\ \A u \in Threads \ {t} : pc'[u] = IF pc[u] = "parked" THEN "woken" ELSE pc[u]
    BY <2>1 DEF Flag!NotifyAll
  <2>4. FlagTypeOK' /\ HolderPlace' /\ FlagAsked' /\ FlagSameWaiters
    BY <2>2, <2>3 DEF flag
  <2>5. FlagReady' /\ UnmatchedBeforePark' /\ Flag!NoLostWakeup'
    BY <2>2, <2>3 DEF flag, Flag!Matched
  <2> QED
    BY <2>2, <2>4, <2>5, <1>kept DEF flag
<1>3. ASSUME NEW t \in Threads, Flag!Evaluate(t, Flag!Available(t)), UNCHANGED flag PROVE FlagInv'
  <2>1. Rest' /\ FlagSameWaiters /\ UNCHANGED waiting
    BY <1>3 DEF Flag!Evaluate, Flag!Available, Flag!Matched, flag
  <2> QED
    BY <2>1, <1>kept
<1>4. ASSUME NEW t \in Threads, Flag!Park(t), UNCHANGED flag PROVE FlagInv'
  <2>1. Rest' /\ FlagSameWaiters /\ UNCHANGED waiting
    BY <1>4 DEF Flag!Park, Flag!Matched, flag
  <2> QED
    BY <2>1, <1>kept
<1>5. ASSUME NEW t \in Threads, Flag!Relock(t), UNCHANGED flag PROVE FlagInv'
  <2>1. Rest' /\ FlagSameWaiters /\ UNCHANGED waiting
    BY <1>5 DEF Flag!Relock, Flag!Matched, flag
  <2> QED
    BY <2>1, <1>kept
<1>6. ASSUME NEW t \in Threads, NEW p \in Flag!Patterns,
             Flag!SetEventFlag(t, p) \/ Flag!ClearEventFlag(t, Bits \ p)
      PROVE  FlagInv'
  <2>1. Rest' /\ FlagSameWaiters /\ UNCHANGED waiting
    BY <1>6 DEF Flag!SetEventFlag, Flag!ClearEventFlag, Flag!Patterns, Flag!LockedCall, Flag!Call, Flag!Matched
  <2> QED
    BY <2>1, <1>kept
<1>7. ASSUME NEW t \in Threads, NEW p \in Flag!Patterns, NEW m \in Flag!Modes,
             Flag!PollEventFlag(t, p, m)
      PROVE  FlagInv'
  <2>1. Rest' /\ FlagSameWaiters /\ UNCHANGED waiting
    BY <1>7 DEF Flag!PollEventFlag, Flag!Quietly, Flag!Cleared, Flag!LockedCall, Flag!Call, Flag!Matched
  <2> QED
    BY <2>1, <1>kept
<1>8. ASSUME NEW t \in Threads, NEW p \in Flag!Patterns, NEW m \in Flag!Modes,
             Flag!WaitEventFlag(t, p, m)
      PROVE  FlagInv'
  <2>1. Rest'
    BY <1>8 DEF Flag!WaitEventFlag, Flag!BeginWait, Flag!WithoutCpu, FlagWaits, Flag!Matched
  <2>2. t \notin FlagWaiters /\ FlagWaiters' = FlagWaiters \cup {t} /\ waiting' = waiting + 1
    BY <1>8 DEF Flag!WaitEventFlag, Flag!BeginWait, FlagWaiters
  <2>3. IsFiniteSet(FlagWaiters)' /\ (waiting = Cardinality(FlagWaiters))'
    BY <2>2, FS_AddElement DEF FlagInv
  <2> QED
    BY <2>1, <2>3 DEF FlagInv
<1>9. ASSUME NEW t \in Threads, Flag!DeleteEventFlag(t) \/ Flag!UnknownEvent(t) PROVE FlagInv'
  <2>1. Flag!Call(t, "return") /\ UNCHANGED flag /\ alive' \in BOOLEAN
    BY <1>9 DEF Flag!DeleteEventFlag, Flag!UnknownEvent, flag
  <2>2. Rest' /\ FlagSameWaiters /\ UNCHANGED waiting
    BY <2>1 DEF Flag!Call, Flag!Matched, flag
  <2> QED
    BY <2>2, <1>kept
<1>10. ASSUME NEW t \in Threads, Flag!CpuStep(t), UNCHANGED flag PROVE FlagInv'
  <2>1. Rest' /\ FlagSameWaiters /\ UNCHANGED waiting
    BY <1>10 DEF Flag!CpuStep, Flag!TakeCpu, Flag!Yield, Flag!Finish, Flag!WithoutCpu, Flag!Matched, flag
  <2> QED
    BY <2>1, <1>kept
<1>11. ASSUME NEW t \in Threads, Flag!SpuriousWakeup(t) \/ Flag!Expire(t), UNCHANGED flag PROVE FlagInv'
  <2>1. Rest' /\ FlagSameWaiters /\ UNCHANGED waiting
    BY <1>11 DEF Flag!SpuriousWakeup, Flag!Expire, Flag!Matched, flag
  <2> QED
    BY <2>1, <1>kept
<1>12. ASSUME Flag!ExitFlag \/ Flag!ExitNotify, UNCHANGED flag PROVE FlagInv'
  <2>1. CASE Flag!ExitFlag
    <3>1. Rest' /\ FlagSameWaiters /\ UNCHANGED waiting
      BY <1>12, <2>1 DEF Flag!ExitFlag, Flag!Matched, flag
    <3> QED
      BY <3>1, <1>kept
  <2>2. CASE Flag!ExitNotify
    <3>1. /\ pc' \in [Threads -> Flag!HlePCs]
          /\ \A u \in Threads : pc'[u] = pc[u] \/ (pc[u] = "parked" /\ pc'[u] = "woken")
      BY <2>2 DEF Flag!ExitNotify, Flag!NotifyAll
    <3>2. UNCHANGED <<cpu, exit, calls, mutex, alive, timed>> /\ host' = "notified"
      BY <2>2 DEF Flag!ExitNotify
    <3>3. Rest' /\ FlagSameWaiters /\ UNCHANGED waiting
      BY <1>12, <3>1, <3>2 DEF Flag!Matched, flag
    <3> QED
      BY <3>3, <1>kept
  <2> QED
    BY <1>12, <2>1, <2>2
<1>13. CASE UNCHANGED Flag!vars
  <2>1. Rest' /\ FlagSameWaiters /\ UNCHANGED waiting
    BY <1>13 DEF Flag!vars, Flag!Matched
  <2> QED
    BY <2>1, <1>kept
<1> QED
  BY <1>1, <1>2, <1>3, <1>4, <1>5, <1>6, <1>7, <1>8, <1>9, <1>10, <1>11, <1>12, <1>13
     DEF Flag!Next, Flag!Running, Flag!Relocking, Flag!Guest, Flag!Environment, flag
-----------------------------------------------------------------------------
(* Sequences: one element taken out *)

LEMMA RemoveAtProperties ==
  ASSUME NEW S, NEW s \in Seq(S), NEW i \in 1..Len(s)
  PROVE  LET r == Sema!RemoveAt(s, i)
         IN  /\ r \in Seq(S) /\ Len(r) = Len(s) - 1
             /\ \A j \in 1..(Len(s) - 1) : r[j] = IF j < i THEN s[j] ELSE s[j + 1]
<1> DEFINE a == SubSeq(s, 1, i - 1)
           b == SubSeq(s, i + 1, Len(s))
<1>1. a \in Seq(S) /\ Len(a) = i - 1 /\ \A j \in 1..(i - 1) : a[j] = s[j]
  BY SubSeqProperties
<1>2. b \in Seq(S) /\ Len(b) = Len(s) - i /\ \A j \in 1..(Len(s) - i) : b[j] = s[i + j]
  BY SubSeqProperties
<1>3. Sema!RemoveAt(s, i) = a \o b
  BY DEF Sema!RemoveAt
<1> HIDE DEF a, b
<1>4. a \o b \in Seq(S) /\ Len(a \o b) = Len(s) - 1
  <2>1. a \o b \in Seq(S) /\ Len(a \o b) = Len(a) + Len(b)
    BY <1>1, <1>2, ConcatProperties
  <2> QED
    BY <1>1, <1>2, <2>1
<1>5. ASSUME NEW j \in 1..(Len(s) - 1)
      PROVE  (a \o b)[j] = IF j < i THEN s[j] ELSE s[j + 1]
  <2>1. CASE j < i
    BY <2>1, <1>1, <1>2
  <2>2. CASE ~(j < i)
    <3>1. (a \o b)[j] = b[j - (i - 1)]
      BY <2>2, <1>1, <1>2
    <3>2. j - (i - 1) \in 1..(Len(s) - i) /\ i + (j - (i - 1)) = j + 1
      BY <2>2
    <3> QED
      BY <3>1, <3>2, <1>2, <2>2
  <2> QED
    BY <2>1, <2>2
<1> QED
  BY <1>3, <1>4, <1>5

\* In a sequence without repetition the first occurrence is the only one.
LEMMA RemoveFirstIsRemoveAt ==
  ASSUME NEW S, NEW s \in Seq(S), Sema!IsInjective(s), NEW i \in 1..Len(s)
  PROVE  Sema!RemoveFirst(s, s[i]) = Sema!RemoveAt(s, i)
<1>1. {j \in 1..Len(s) : s[j] = s[i]} = {i}
  BY DEF Sema!IsInjective
<1>2. Sema!SelectInSeq(s, LAMBDA v : v = s[i]) = Sema!Min({j \in 1..Len(s) : s[j] = s[i]})
  BY <1>1 DEF Sema!SelectInSeq
<1>3. Sema!Min({i}) = i
  BY DEF Sema!Min
<1> QED
  BY <1>1, <1>2, <1>3 DEF Sema!RemoveFirst

LEMMA RemoveFirstAbsent ==
  ASSUME NEW S, NEW s \in Seq(S), NEW e, e \notin Sema!Range(s)
  PROVE  Sema!RemoveFirst(s, e) = s
  BY DEF Sema!RemoveFirst, Sema!Range

\* What is left of a queue without repetition when one member has gone.
LEMMA RemoveFirstPresent ==
  ASSUME NEW S, NEW s \in Seq(S), Sema!IsInjective(s), NEW e \in Sema!Range(s)
  PROVE  LET r == Sema!RemoveFirst(s, e)
         IN  /\ r \in Seq(S) /\ Sema!IsInjective(r)
             /\ Sema!Range(r) = Sema!Range(s) \ {e}
             /\ e = Head(s) => r = Tail(s)
             /\ e # Head(s) => r # <<>> /\ Head(r) = Head(s)
<1>1. PICK i \in 1..Len(s) : s[i] = e
  BY DEF Sema!Range
<1> DEFINE r == Sema!RemoveAt(s, i)
<1>2. Sema!RemoveFirst(s, e) = r
  BY <1>1, RemoveFirstIsRemoveAt
<1>3. /\ r \in Seq(S) /\ Len(r) = Len(s) - 1
      /\ \A j \in 1..(Len(s) - 1) : r[j] = IF j < i THEN s[j] ELSE s[j + 1]
  BY RemoveAtProperties
<1> HIDE DEF r
<1>once. \A j, k \in 1..Len(s) : s[j] = s[k] => j = k
  BY DEF Sema!IsInjective
<1>4. Sema!IsInjective(r)
  <2>1. DOMAIN r = 1..(Len(s) - 1)
    BY <1>3
  <2>2. ASSUME NEW j \in 1..(Len(s) - 1), NEW k \in 1..(Len(s) - 1), r[j] = r[k]
        PROVE  j = k
    <3>1. /\ r[j] = IF j < i THEN s[j] ELSE s[j + 1]
          /\ r[k] = IF k < i THEN s[k] ELSE s[k + 1]
      BY <1>3
    <3>2. j + 1 \in 1..Len(s) /\ k + 1 \in 1..Len(s) /\ j \in 1..Len(s) /\ k \in 1..Len(s)
      OBVIOUS
    <3>3. CASE j < i /\ k < i
      BY <1>once, <2>2, <3>1, <3>2, <3>3
    <3>4. CASE j < i /\ ~(k < i)
      <4>1. s[j] = s[k + 1]
        BY <2>2, <3>1, <3>4
      <4>2. j = k + 1
        BY <1>once, <3>2, <4>1
      <4> QED
        BY <3>4, <4>2
    <3>5. CASE ~(j < i) /\ k < i
      <4>1. s[j + 1] = s[k]
        BY <2>2, <3>1, <3>5
      <4>2. j + 1 = k
        BY <1>once, <3>2, <4>1
      <4> QED
        BY <3>5, <4>2
    <3>6. CASE ~(j < i) /\ ~(k < i)
      <4>1. s[j + 1] = s[k + 1]
        BY <2>2, <3>1, <3>6
      <4>2. j + 1 = k + 1
        BY <1>once, <3>2, <4>1
      <4> QED
        BY <4>2
    <3> QED
      BY <3>3, <3>4, <3>5, <3>6
  <2> QED
    BY <2>1, <2>2 DEF Sema!IsInjective
<1>5. Sema!Range(r) = Sema!Range(s) \ {e}
  <2>1. ASSUME NEW j \in 1..(Len(s) - 1) PROVE r[j] \in Sema!Range(s) \ {e}
    <3>1. PICK k \in 1..Len(s) : r[j] = s[k] /\ k # i
      <4>1. CASE j < i
        BY <1>3, <4>1
      <4>2. CASE ~(j < i)
        <5>1. j + 1 \in 1..Len(s) /\ j + 1 # i /\ r[j] = s[j + 1]
          BY <1>3, <4>2
        <5> QED
          BY <5>1
      <4> QED
        BY <4>1, <4>2
    <3> QED
      BY <1>1, <1>once, <3>1 DEF Sema!Range
  <2>2. ASSUME NEW x \in Sema!Range(s) \ {e} PROVE x \in Sema!Range(r)
    <3>1. PICK k \in 1..Len(s) : s[k] = x
      BY DEF Sema!Range
    <3>2. CASE k < i
      BY <1>3, <3>1, <3>2 DEF Sema!Range
    <3>3. CASE k > i
      <4>1. k - 1 \in 1..(Len(s) - 1) /\ r[k - 1] = x
        BY <1>3, <3>1, <3>3
      <4> QED
        BY <1>3, <4>1 DEF Sema!Range
    <3> QED
      BY <1>1, <2>2, <3>1, <3>2, <3>3
  <2>3. Sema!Range(r) \subseteq Sema!Range(s) \ {e}
    BY <1>3, <2>1 DEF Sema!Range
  <2> QED
    BY <2>2, <2>3
<1>6. ASSUME e = Head(s) PROVE r = Tail(s)
  <2>1. i = 1
    BY <1>1, <1>6 DEF Sema!IsInjective
  <2>2. Tail(s) \in Seq(S) /\ Len(Tail(s)) = Len(s) - 1 /\ \A j \in 1..(Len(s) - 1) : Tail(s)[j] = s[j + 1]
    BY HeadTailProperties, <2>1
  <2> QED
    BY <1>3, <2>1, <2>2, SeqEqual
<1>7. ASSUME e # Head(s) PROVE r # <<>> /\ Head(r) = Head(s)
  <2>1. i > 1 /\ Len(s) > 1
    BY <1>1, <1>7
  <2>2. r[1] = s[1] /\ Len(r) > 0
    BY <1>3, <2>1
  <2> QED
    BY <1>3, <2>2
<1> QED
  BY <1>2, <1>3, <1>4, <1>5, <1>6, <1>7

\* A new member at the end of a queue without repetition.
LEMMA AppendInjects ==
  ASSUME NEW S, NEW s \in Seq(S), NEW e \in S
  PROVE  /\ Append(s, e) \in Seq(S)
         /\ Sema!Range(Append(s, e)) = Sema!Range(s) \cup {e}
         /\ Sema!IsInjective(s) /\ e \notin Sema!Range(s) => Sema!IsInjective(Append(s, e))
<1> DEFINE r == Append(s, e)
<1>1. /\ r \in Seq(S) /\ Len(r) = Len(s) + 1
      /\ \A j \in 1..Len(s) : r[j] = s[j]
      /\ r[Len(s) + 1] = e
  BY AppendProperties
<1> HIDE DEF r
<1>2. DOMAIN r = 1..(Len(s) + 1) /\ DOMAIN s = 1..Len(s)
  BY <1>1
<1>3. Sema!Range(r) = Sema!Range(s) \cup {e}
  <2>1. ASSUME NEW j \in 1..(Len(s) + 1) PROVE r[j] \in Sema!Range(s) \cup {e}
    BY <1>1, <1>2 DEF Sema!Range
  <2>2. e \in Sema!Range(r)
    BY <1>1, <1>2 DEF Sema!Range
  <2>3. ASSUME NEW j \in 1..Len(s) PROVE s[j] \in Sema!Range(r)
    BY <1>1, <1>2 DEF Sema!Range
  <2> QED
    BY <1>2, <2>1, <2>2, <2>3 DEF Sema!Range
<1>4. ASSUME Sema!IsInjective(s), e \notin Sema!Range(s) PROVE Sema!IsInjective(r)
  <2>1. \A j \in 1..Len(s) : s[j] # e
    BY <1>4, <1>2 DEF Sema!Range
  <2>2. \A j, k \in 1..Len(s) : s[j] = s[k] => j = k
    BY <1>4, <1>2 DEF Sema!IsInjective
  <2>3. ASSUME NEW j \in 1..(Len(s) + 1), NEW k \in 1..(Len(s) + 1), r[j] = r[k]
        PROVE  j = k
    <3>1. CASE j = Len(s) + 1
      BY <1>1, <2>1, <2>3, <3>1
    <3>2. CASE k = Len(s) + 1
      BY <1>1, <2>1, <2>3, <3>2
    <3>3. CASE j \in 1..Len(s) /\ k \in 1..Len(s)
      BY <1>1, <2>2, <2>3, <3>3
    <3> QED
      BY <3>1, <3>2, <3>3
  <2> QED
    BY <1>2, <2>3 DEF Sema!IsInjective
<1> QED
  BY <1>1, <1>3, <1>4 DEF r

-----------------------------------------------------------------------------
(* The semaphore *)

\* A wait that did not queue goes through in one go, before anything changes.
UnqueuedServed ==
    \A t \in Threads : pc[t] \in WaitPCs /\ ~queued[t] =>
      pc[t] \in {"eval", "commit"} /\ tickets = <<>> /\ count >= amount[t]

\* What the first waiter has seen is there when it takes it.
SemaReady ==
    \A t \in Threads : pc[t] = "commit" /\ queued[t] /\ ~exit =>
      tickets # <<>> /\ Head(tickets) = t /\ count >= amount[t]

\* A thread that is about to block is not to be served, and that cannot change
\* before it has blocked.
UnservedBeforePark ==
    \A t \in Threads : pc[t] = "park" /\ ~exit /\ tickets # <<>> /\ Head(tickets) = t =>
      count < amount[t]

SemaInv ==
    /\ Sema!TypeOK
    /\ HolderPlace
    /\ UnqueuedServed /\ SemaReady /\ UnservedBeforePark
    /\ Sema!QueueIsExact /\ Sema!NoLostWakeup

LEMMA SemaAmountsPositive ==
    Maximum \in Nat /\ Initial \in 0..Maximum /\ SemaAmounts \subseteq Nat \ {0}
  BY ObjectsAssumption DEF Sema!SemaAssumption

\* A wait that leaves the queue leaves it exact.
LEMMA SemaLeaves ==
  ASSUME SemaInv, NEW t \in Threads, pc[t] \in {"commit", "timeout"},
         Sema!RemoveWaiter(t), pc' = [pc EXCEPT ![t] = pc'[t]], pc'[t] \notin WaitPCs,
         queued' = [queued EXCEPT ![t] = FALSE]
  PROVE  /\ tickets' \in Seq(Threads)
         /\ Sema!QueueIsExact'
         /\ ~queued[t] => tickets' = tickets
         /\ queued[t] => tickets # <<>>
         /\ queued[t] /\ t = Head(tickets) => tickets' = Tail(tickets)
         /\ queued[t] /\ t # Head(tickets) => tickets' # <<>> /\ Head(tickets') = Head(tickets)
<1> USE DEF SemaInv, Sema!TypeOK, Sema!HleTypeOK, Sema!QueueIsExact, Sema!Queues, Sema!Waits,
            Sema!WaitPCs, WaitPCs
<1>1. CASE queued[t]
  <2>1. t \in Sema!Range(tickets)
    BY <1>1
  <2>2. /\ tickets' \in Seq(Threads) /\ Sema!IsInjective(tickets')
        /\ Sema!Range(tickets') = Sema!Range(tickets) \ {t}
        /\ t = Head(tickets) => tickets' = Tail(tickets)
        /\ t # Head(tickets) => tickets' # <<>> /\ Head(tickets') = Head(tickets)
    <3>1. tickets \in Seq(Threads) /\ Sema!IsInjective(tickets)
      OBVIOUS
    <3>2. tickets' = Sema!RemoveFirst(tickets, t)
      BY DEF Sema!RemoveWaiter
    <3> HIDE DEF SemaInv
    <3> QED
      BY <2>1, <3>1, <3>2, RemoveFirstPresent
  <2>3. tickets # <<>>
    BY <2>1 DEF Sema!Range
  <2>4. \A u \in Threads : Sema!Queues(u)' <=> Sema!Queues(u) /\ u # t
    OBVIOUS
  <2> QED
    BY <1>1, <2>2, <2>3, <2>4
<1>2. CASE ~queued[t]
  <2>1. tickets' = tickets
    BY <1>2, RemoveFirstAbsent DEF Sema!RemoveWaiter
  <2>2. \A u \in Threads : Sema!Queues(u)' <=> Sema!Queues(u)
    BY <1>2
  <2> QED
    BY <1>2, <2>1, <2>2
<1> QED
  BY <1>1, <1>2
\* A step of the semaphore keeps its invariant.
LEMMA SemaStep == SemaInv /\ [Sema!Next]_(Sema!vars) => SemaInv'
<1> SUFFICES ASSUME SemaInv, [Sema!Next]_(Sema!vars) PROVE SemaInv'
  OBVIOUS
<1> USE HleAssumption, SemaAmountsPositive
    DEF SemaInv, Sema!TypeOK, Sema!HleTypeOK, Sema!HlePCs, HolderPlace, HoldsMutex,
        WaitPCs, Sema!WaitPCs, Sema!Waits, Sema!Queues, Sema!Asleep,
        UnqueuedServed, SemaReady, UnservedBeforePark,
        Sema!QueueIsExact, Sema!NoLostWakeup, Sema!Goto, Sema!sema, Sema!hle
<1> DEFINE Quiet(u) ==
      \/ pc'[u] = pc[u]
      \/ pc[u] = "parked" /\ pc'[u] \in {"woken", "expired"}
      \/ pc[u] \notin WaitPCs /\ pc'[u] \notin WaitPCs
<1>quiet. ASSUME UNCHANGED <<tickets, queued, amount>>, exit => exit',
                 Sema!HleTypeOK', HolderPlace', \A u \in Threads : Quiet(u)
          PROVE  /\ Sema!QueueIsExact' /\ (Sema!TypeOK' <=> count' \in 0..Maximum)
                 /\ count' \in Nat /\ count' >= count => UnqueuedServed' /\ SemaReady'
                 /\ count' \in Nat /\ (count' <= count \/ \A u \in Threads : pc[u] # "park") => UnservedBeforePark'
  <2>1. \A u \in Threads : Sema!Queues(u)' <=> Sema!Queues(u)
    BY <1>quiet
  <2>2. Sema!QueueIsExact'
    BY <1>quiet, <2>1
  <2>3. Sema!TypeOK' <=> count' \in 0..Maximum
    BY <1>quiet
  <2>4. ASSUME count' >= count, count' \in Nat PROVE UnqueuedServed' /\ SemaReady'
    <3>1. \A u \in Threads : pc'[u] \in {"eval", "commit"} <=> pc[u] \in {"eval", "commit"}
      BY <1>quiet
    <3>2. \A u \in Threads : pc'[u] = "commit" => pc[u] = "commit"
      BY <1>quiet
    <3>3. \A u \in Threads : count >= amount[u] => count' >= amount[u]
      BY <1>quiet, <2>4
    <3>4. UnqueuedServed'
      BY <1>quiet, <2>1, <3>1, <3>3
    <3>5. SemaReady'
      BY <1>quiet, <3>2, <3>3
    <3> QED
      BY <3>4, <3>5
  <2>5. ASSUME count' \in Nat, count' <= count \/ \A u \in Threads : pc[u] # "park"
        PROVE  UnservedBeforePark'
    <3>1. \A u \in Threads : pc'[u] = "park" => pc[u] = "park"
      BY <1>quiet
    <3>2. \A u \in Threads : amount[u] \in Nat
      OBVIOUS
    <3> QED
      BY <1>quiet, <2>5, <3>1, <3>2
  <2> QED
    BY <2>2, <2>3, <2>4, <2>5
<1>still. ASSUME UNCHANGED <<count, tickets, queued, amount>>, exit => exit', Sema!HleTypeOK', HolderPlace',
                 \A u \in Threads : Quiet(u), Sema!NoLostWakeup'
          PROVE  SemaInv'
  <2>1. count' \in 0..Maximum /\ count' \in Nat /\ count' >= count /\ count' <= count
    BY <1>still
  <2> HIDE DEF UnqueuedServed, SemaReady, UnservedBeforePark, Sema!QueueIsExact, Sema!NoLostWakeup,
               Sema!TypeOK, Sema!HleTypeOK, HolderPlace
  <2> QED
    BY <1>quiet, <1>still, <2>1
<1>notified. ASSUME NEW t, NEW p \in {"return", "resume", "finished"}, t \in Threads => pc[t] \notin WaitPCs,
                    Sema!NotifyAll(t, p), exit => exit',
                    UNCHANGED <<cpu, calls, mutex, alive, timed, sema>>, host' \in {"run", "flag", "notified"},
                    exit' \in BOOLEAN
             PROVE  SemaInv'
  <2>1. pc' \in [Threads -> Sema!HlePCs]
    BY <1>notified DEF Sema!NotifyAll
  <2>2. \A u \in Threads : u # t => pc'[u] = IF pc[u] = "parked" THEN "woken" ELSE pc[u]
    BY <1>notified DEF Sema!NotifyAll
  <2>3. t \in Threads => pc'[t] = p
    BY <1>notified DEF Sema!NotifyAll
  <2>4. UNCHANGED <<tickets, queued, amount, count>>
    BY <1>notified DEF sema
  <2>5. Sema!HleTypeOK' /\ HolderPlace' /\ \A u \in Threads : Quiet(u)
    <3>1. \A u \in Threads : Quiet(u)
      BY <1>notified, <2>2, <2>3
    <3>2. Sema!HleTypeOK'
      BY <1>notified, <2>1
    <3>3. HolderPlace'
      BY <1>notified, <3>1
    <3> QED
      BY <3>1, <3>2, <3>3
  <2>6. Sema!NoLostWakeup'
    <3>1. \A u \in Threads : Sema!Asleep(u)' => pc[u] = "park"
      BY <1>notified, <2>2, <2>3
    <3>2. UnservedBeforePark /\ (exit => exit')
      BY <1>notified
    <3>3. tickets # <<>> => Head(tickets) \in Threads
      OBVIOUS
    <3>4. tickets # <<>> => count \in Nat /\ amount[Head(tickets)] \in Nat
      BY <3>3
    <3> QED
      BY <2>4, <3>1, <3>2, <3>3, <3>4
  <2> HIDE DEF SemaInv, Sema!HleTypeOK, HolderPlace, Sema!NoLostWakeup
  <2> QED
    BY <1>still, <1>notified, <2>4, <2>5, <2>6
<1>1. ASSUME NEW t \in Threads, Sema!CommitWait(t) PROVE SemaInv'
  <2>1. /\ pc[t] = "commit" /\ pc' = [pc EXCEPT ![t] = IF queued[t] THEN "notify" ELSE "resume"]
        /\ mutex = t /\ mutex' = NoThread
        /\ count' = IF exit THEN count ELSE count - amount[t]
        /\ queued' = [queued EXCEPT ![t] = FALSE] /\ amount' = [amount EXCEPT ![t] = 0]
        /\ timed' = [timed EXCEPT ![t] = FALSE]
        /\ UNCHANGED <<cpu, exit, host, calls, alive>>
    BY <1>1 DEF Sema!CommitWait, Sema!EndWait
  <2>2. /\ tickets' \in Seq(Threads)
        /\ Sema!QueueIsExact'
        /\ ~queued[t] => tickets' = tickets
        /\ queued[t] => tickets # <<>>
        /\ queued[t] /\ t = Head(tickets) => tickets' = Tail(tickets)
        /\ queued[t] /\ t # Head(tickets) => tickets' # <<>> /\ Head(tickets') = Head(tickets)
    <3>1. pc' = [pc EXCEPT ![t] = pc'[t]] /\ pc'[t] \notin WaitPCs
      BY <2>1
    <3>2. Sema!RemoveWaiter(t)
      BY <1>1 DEF Sema!CommitWait
    <3> HIDE DEF SemaInv, WaitPCs, Sema!QueueIsExact
    <3> QED
      BY <2>1, <3>1, <3>2, SemaLeaves
  <2>3. Sema!HleTypeOK' /\ HolderPlace'
    BY <2>1
  <2>4. ~exit => count >= amount[t]
    BY <2>1
  <2>5. count' \in 0..Maximum
    BY <2>1, <2>4
  <2>6. queued' \in [Threads -> BOOLEAN] /\ amount' \in [Threads -> Nat]
    BY <2>1
  <2>7. UnqueuedServed' /\ SemaReady' /\ UnservedBeforePark'
    <3>1. UnqueuedServed'
      BY <2>1, <2>2
    <3>2. SemaReady' /\ UnservedBeforePark'
      BY <2>1, <2>2
    <3> QED
      BY <3>1, <3>2
  <2>8. Sema!NoLostWakeup'
    BY <2>1, <2>2
  <2> QED
    BY <2>2, <2>3, <2>5, <2>6, <2>7, <2>8
<1>2. ASSUME NEW t \in Threads, Sema!WaitTimesOut(t) PROVE SemaInv'
  <2>1. /\ pc[t] = "timeout" /\ pc' = [pc EXCEPT ![t] = "notify"]
        /\ mutex = t /\ mutex' = NoThread /\ queued[t]
        /\ queued' = [queued EXCEPT ![t] = FALSE] /\ amount' = [amount EXCEPT ![t] = 0]
        /\ timed' = [timed EXCEPT ![t] = FALSE]
        /\ UNCHANGED <<cpu, exit, host, calls, alive, count>>
    BY <1>2 DEF Sema!WaitTimesOut, Sema!EndWait
  <2>2. tickets' \in Seq(Threads) /\ Sema!QueueIsExact'
    <3>1. pc' = [pc EXCEPT ![t] = pc'[t]] /\ pc'[t] \notin WaitPCs
      BY <2>1
    <3>2. Sema!RemoveWaiter(t)
      BY <1>2 DEF Sema!WaitTimesOut
    <3> HIDE DEF SemaInv, WaitPCs, Sema!QueueIsExact
    <3> QED
      BY <2>1, <3>1, <3>2, SemaLeaves
  <2>3. Sema!HleTypeOK' /\ HolderPlace'
    BY <2>1
  <2>4. queued' \in [Threads -> BOOLEAN] /\ amount' \in [Threads -> Nat]
    BY <2>1
  <2>5. UnqueuedServed' /\ SemaReady' /\ UnservedBeforePark' /\ Sema!NoLostWakeup'
    BY <2>1, <2>2
  <2> QED
    BY <2>1, <2>2, <2>3, <2>4, <2>5
<1>3. ASSUME NEW t \in Threads, Sema!SignalNotifies(t) PROVE SemaInv'
  BY <1>3, <1>notified DEF Sema!SignalNotifies, sema
<1>4. ASSUME NEW t \in Threads, Sema!Evaluate(t, Sema!Available(t)), UNCHANGED sema PROVE SemaInv'
  BY <1>4 DEF Sema!Evaluate, Sema!Available, sema
<1>5. ASSUME NEW t \in Threads, Sema!Park(t), UNCHANGED sema PROVE SemaInv'
  BY <1>5 DEF Sema!Park, sema
<1>6. ASSUME NEW t \in Threads, Sema!WaiterNotifies(t), UNCHANGED sema PROVE SemaInv'
  BY <1>6, <1>notified DEF Sema!WaiterNotifies, sema
<1>7. ASSUME NEW t \in Threads, Sema!Relock(t), UNCHANGED sema PROVE SemaInv'
  BY <1>7 DEF Sema!Relock, sema
<1>8. ASSUME NEW t \in Threads, Sema!RelockExpired(t, Sema!Available(t)), UNCHANGED sema PROVE SemaInv'
  <2>1. /\ pc[t] = "expired" /\ mutex = NoThread /\ mutex' = t
        /\ pc' = [pc EXCEPT ![t] = IF Sema!Available(t) THEN "commit" ELSE "timeout"]
        /\ UNCHANGED <<cpu, exit, host, calls, alive, timed, count, tickets, queued, amount>>
    BY <1>8 DEF Sema!RelockExpired, sema
  <2>2. Sema!TypeOK' /\ HolderPlace'
    BY <2>1
  <2>3. Sema!QueueIsExact'
    <3>1. \A u \in Threads : Sema!Queues(u)' <=> Sema!Queues(u)
      BY <2>1
    <3> QED
      BY <2>1, <3>1
  <2>4. UnqueuedServed' /\ UnservedBeforePark'
    BY <2>1
  <2>5. SemaReady'
    BY <2>1 DEF Sema!Available
  <2>6. Sema!NoLostWakeup'
    BY <2>1
  <2> QED
    BY <2>2, <2>3, <2>4, <2>5, <2>6
<1>9. ASSUME NEW t \in Threads, NEW n \in SemaAmounts, Sema!SignalSema(t, n) PROVE SemaInv'
  <2>1. /\ pc[t] = "guest" /\ pc' = [pc EXCEPT ![t] = "signal"]
        /\ mutex = NoThread /\ count' \in 0..Maximum /\ count' >= count
        /\ UNCHANGED <<exit, tickets, queued, amount>>
    <3>1. count' = IF count + n < Maximum THEN count + n ELSE Maximum
      BY <1>9 DEF Sema!SignalSema
    <3>2. count \in 0..Maximum /\ n \in Nat
      OBVIOUS
    <3>3. count' \in 0..Maximum /\ count' >= count
      BY <3>1, <3>2, SemaAmountsPositive
    <3> QED
      BY <1>9, <3>3 DEF Sema!SignalSema, Sema!LockedCall, Sema!Call
  <2>2. Sema!HleTypeOK' /\ HolderPlace' /\ \A u \in Threads : Quiet(u)
    <3>1. /\ calls' = [calls EXCEPT ![t] = @ - 1] /\ calls[t] > 0
          /\ UNCHANGED <<cpu, exit, host, mutex, timed, alive>>
      BY <1>9 DEF Sema!SignalSema, Sema!LockedCall, Sema!Call
    <3>2. calls' \in [Threads -> Nat] /\ pc' \in [Threads -> Sema!HlePCs]
      <4>1. calls' \in [Threads -> Nat]
        BY <3>1
      <4>2. pc' \in [Threads -> Sema!HlePCs]
        BY <2>1
      <4> QED
        BY <4>1, <4>2
    <3>3. \A u \in Threads : Quiet(u)
      BY <2>1
    <3>4. HolderPlace'
      BY <2>1, <3>1
    <3> QED
      BY <3>1, <3>2, <3>3, <3>4
  <2>3. \A u \in Threads : pc[u] # "park"
    BY <2>1
  <2>4. Sema!NoLostWakeup'
    BY <2>1
  <2>5. UNCHANGED <<tickets, queued, amount>> /\ (exit => exit') /\ count' \in Nat /\ count' \in 0..Maximum
    BY <2>1
  <2> HIDE DEF UnqueuedServed, SemaReady, UnservedBeforePark, Sema!QueueIsExact, Sema!NoLostWakeup,
               Sema!TypeOK, Sema!HleTypeOK, HolderPlace
  <2> QED
    BY <1>quiet, <2>1, <2>2, <2>3, <2>4, <2>5
<1>10. ASSUME NEW t \in Threads, NEW n \in SemaAmounts, Sema!PollSema(t, n) PROVE SemaInv'
  BY <1>10 DEF Sema!PollSema, Sema!Quietly, Sema!LockedCall, Sema!Call
<1>11. ASSUME NEW t \in Threads, NEW n \in SemaAmounts, NEW w \in Timeouts, Sema!WaitSema(t, n, w)
       PROVE  SemaInv'
  <2>1. /\ pc[t] = "guest" /\ pc' = [pc EXCEPT ![t] = "eval"]
        /\ mutex = NoThread /\ mutex' = t /\ n <= Maximum
        /\ amount' = [amount EXCEPT ![t] = n]
        /\ UNCHANGED <<exit, host, alive, count>>
    BY <1>11 DEF Sema!WaitSema, Sema!BeginWait
  <2>2. Sema!HleTypeOK' /\ HolderPlace' /\ amount' \in [Threads -> Nat]
    <3>1. /\ calls' = [calls EXCEPT ![t] = @ - 1] /\ calls[t] > 0
          /\ cpu' \in {NoThread, cpu} /\ timed' = [timed EXCEPT ![t] = w] /\ w \in BOOLEAN
      BY <1>11 DEF Sema!WaitSema, Sema!BeginWait, Sema!WithoutCpu
    <3>2. calls' \in [Threads -> Nat] /\ timed' \in [Threads -> BOOLEAN]
      BY <3>1
    <3>3. Sema!HleTypeOK'
      BY <2>1, <3>1, <3>2
    <3>4. HolderPlace' /\ amount' \in [Threads -> Nat]
      BY <2>1
    <3> QED
      BY <3>3, <3>4
  <2>3. CASE count < n \/ tickets # <<>>
    <3>1. queued' = [queued EXCEPT ![t] = TRUE] /\ tickets' = Append(tickets, t)
      BY <1>11, <2>3 DEF Sema!WaitSema
    <3>2. t \notin Sema!Range(tickets)
      BY <2>1
    <3>3. tickets' \in Seq(Threads) /\ Sema!IsInjective(tickets')
      BY <3>1, <3>2, AppendInjects
    <3>queue. Sema!QueueIsExact'
      <4>1. Sema!Range(tickets') = Sema!Range(tickets) \cup {t}
        BY <3>1, AppendInjects
      <4>2. \A u \in Threads : Sema!Queues(u)' <=> Sema!Queues(u) \/ u = t
        BY <2>1, <3>1
      <4> QED
        BY <3>3, <4>1, <4>2
    <3>4. UnqueuedServed' /\ SemaReady' /\ UnservedBeforePark'
      BY <2>1, <3>1
    <3>5. Sema!NoLostWakeup'
      BY <2>1, <3>1
    <3> QED
      BY <2>1, <2>2, <3>1, <3>3, <3>queue, <3>4, <3>5
  <2>4. CASE ~(count < n \/ tickets # <<>>)
    <3>1. queued' = [queued EXCEPT ![t] = FALSE] /\ tickets' = tickets
      BY <1>11, <2>4 DEF Sema!WaitSema
    <3> QED
      BY <2>1, <2>2, <2>4, <3>1
  <2> QED
    BY <2>3, <2>4
<1>12. ASSUME NEW t \in Threads, Sema!DeleteSema(t) \/ Sema!Refused(t) PROVE SemaInv'
  <2>1. Sema!Call(t, "return") /\ UNCHANGED sema /\ alive' \in BOOLEAN
    BY <1>12 DEF Sema!DeleteSema, Sema!Refused, sema
  <2> QED
    <3>1. /\ pc[t] = "guest" /\ pc' = [pc EXCEPT ![t] = "return"]
          /\ UNCHANGED <<exit, tickets, queued, amount, count>>
      BY <2>1 DEF Sema!Call, sema
    <3>2. Sema!HleTypeOK' /\ HolderPlace' /\ \A u \in Threads : Quiet(u)
      <4>1. /\ calls' = [calls EXCEPT ![t] = @ - 1] /\ calls[t] > 0
            /\ UNCHANGED <<cpu, exit, host, mutex, timed>>
        BY <2>1 DEF Sema!Call
      <4>2. calls' \in [Threads -> Nat]
        BY <4>1
      <4>3. Sema!HleTypeOK'
        BY <2>1, <3>1, <4>1, <4>2
      <4>4. HolderPlace' /\ \A u \in Threads : Quiet(u)
        BY <3>1, <4>1
      <4> QED
        BY <4>3, <4>4
    <3>3. Sema!NoLostWakeup'
      BY <3>1
    <3>4. exit => exit'
      BY <3>1
    <3> HIDE DEF SemaInv, Sema!HleTypeOK, HolderPlace, Sema!NoLostWakeup
    <3> QED
      BY <1>still, <3>1, <3>2, <3>3, <3>4
<1>13. ASSUME NEW t \in Threads, Sema!CpuStep(t), UNCHANGED sema PROVE SemaInv'
  <2>1. PICK p \in {"return", "guest", "finished", "yield"} :
          pc[t] \in {"resume", "yield", "return", "guest"} /\ pc' = [pc EXCEPT ![t] = p]
    BY <1>13 DEF Sema!CpuStep, Sema!TakeCpu, Sema!Yield, Sema!Finish
  <2>2. cpu' \in Threads \cup {NoThread} /\ UNCHANGED <<exit, host, calls, mutex, alive, timed, sema>>
    BY <1>13 DEF Sema!CpuStep, Sema!TakeCpu, Sema!Yield, Sema!Finish, Sema!WithoutCpu
  <2>3. Sema!HleTypeOK' /\ HolderPlace' /\ \A u \in Threads : Quiet(u)
    BY <2>1, <2>2
  <2>4. Sema!NoLostWakeup'
    BY <2>1, <2>2 DEF sema
  <2>5. UNCHANGED <<count, tickets, queued, amount, exit>>
    BY <2>2 DEF sema
  <2> HIDE DEF SemaInv, Sema!HleTypeOK, HolderPlace, Sema!NoLostWakeup
  <2> QED
    BY <1>still, <2>3, <2>4, <2>5
<1>14. ASSUME NEW t \in Threads, Sema!SpuriousWakeup(t) \/ Sema!Expire(t), UNCHANGED sema PROVE SemaInv'
  <2>1. PICK p \in {"woken", "expired"} : pc[t] = "parked" /\ pc' = [pc EXCEPT ![t] = p]
    BY <1>14 DEF Sema!SpuriousWakeup, Sema!Expire
  <2>2. UNCHANGED <<cpu, exit, host, calls, mutex, alive, timed, sema>>
    BY <1>14 DEF Sema!SpuriousWakeup, Sema!Expire
  <2>3. Sema!HleTypeOK' /\ HolderPlace' /\ \A u \in Threads : Quiet(u)
    BY <2>1, <2>2
  <2>4. Sema!NoLostWakeup'
    BY <2>1, <2>2 DEF sema
  <2>5. UNCHANGED <<count, tickets, queued, amount, exit>>
    BY <2>2 DEF sema
  <2> HIDE DEF SemaInv, Sema!HleTypeOK, HolderPlace, Sema!NoLostWakeup
  <2> QED
    BY <1>still, <2>3, <2>4, <2>5
<1>15. ASSUME Sema!ExitFlag \/ Sema!ExitNotify, UNCHANGED sema PROVE SemaInv'
  <2>1. CASE Sema!ExitFlag
    BY <1>15, <2>1 DEF Sema!ExitFlag, sema
  <2>2. CASE Sema!ExitNotify
    BY <1>15, <2>2, <1>notified DEF Sema!ExitNotify, sema
  <2> QED
    BY <1>15, <2>1, <2>2
<1>16. CASE UNCHANGED Sema!vars
  BY <1>16 DEF Sema!vars
<1> HIDE DEF SemaInv
<1> QED
  BY <1>1, <1>2, <1>3, <1>4, <1>5, <1>6, <1>7, <1>8, <1>9, <1>10, <1>11, <1>12, <1>13, <1>14, <1>15, <1>16
     DEF Sema!Next, Sema!Step, Sema!Running, Sema!Relocking, Sema!Guest, Sema!Environment, sema

-----------------------------------------------------------------------------
(* Threads that look at a mailbox or at a fixed pool again *)

\* Awake waiters, and threads that have yet to notify one.
Awake == {t \in Threads : \/ pc[t] \in WaitPCs \ {"park", "parked"}
                          \/ pc[t] = "signal"}

\* A set that grows or stays: no smaller.
LEMMA AwakeGrows ==
  ASSUME IsFiniteSet(Awake), NEW t, Awake' = Awake \cup {t}
  PROVE  /\ IsFiniteSet(Awake') /\ Cardinality(Awake') \in Nat
         /\ Cardinality(Awake') = IF t \in Awake THEN Cardinality(Awake) ELSE Cardinality(Awake) + 1
  BY FS_AddElement, FS_CardinalityType

LEMMA AwakeShrinks ==
  ASSUME IsFiniteSet(Awake), NEW t, Awake' = Awake \ {t}
  PROVE  /\ IsFiniteSet(Awake') /\ Cardinality(Awake') \in Nat
         /\ Cardinality(Awake') = IF t \in Awake THEN Cardinality(Awake) - 1 ELSE Cardinality(Awake)
  BY FS_RemoveElement, FS_CardinalityType

\* The notification passes from the thread that sends it to the one it wakes.
LEMMA AwakeHandedOver ==
  ASSUME IsFiniteSet(Awake), NEW t \in Awake, NEW w, w \notin Awake,
         Awake' = (Awake \ {t}) \cup {w}
  PROVE  IsFiniteSet(Awake') /\ Cardinality(Awake') = Cardinality(Awake)
<1>1. IsFiniteSet(Awake \ {t}) /\ Cardinality(Awake \ {t}) = Cardinality(Awake) - 1
  BY FS_RemoveElement
<1>2. Cardinality(Awake') = Cardinality(Awake \ {t}) + 1 /\ IsFiniteSet(Awake')
  BY <1>1, FS_AddElement
<1> QED
  BY <1>1, <1>2, FS_CardinalityType

-----------------------------------------------------------------------------
(* The fixed pool *)

\* A waiter that has seen a free block finds one when it takes it.
FplReady == \A t \in Threads : pc[t] = "commit" => free # <<>> \/ exit

\* A thread that is about to block has seen none, and none can come before it
\* has blocked.
NoneFreeBeforePark == \A t \in Threads : pc[t] = "park" => free = <<>> \/ exit

FplTypeOK ==
    /\ Fpl!HleTypeOK
    /\ free \in Seq(Blocks)
    /\ given \in [Threads -> SUBSET Blocks]

\* BlocksConserved, written without the library's operators.
BlocksDivided ==
    /\ \A i, j \in 1..Len(free) : free[i] = free[j] => i = j
    /\ \A b \in Blocks : (\E i \in 1..Len(free) : free[i] = b) \/ (\E t \in Threads : b \in given[t])
    /\ \A t, u \in Threads : t # u => given[t] \cap given[u] = {}
    /\ \A t \in Threads, i \in 1..Len(free) : free[i] \notin given[t]

FplInv ==
    /\ FplTypeOK
    /\ HolderPlace /\ FlagBeforeNotify
    /\ FplReady /\ NoneFreeBeforePark
    /\ BlocksDivided
    /\ ~exit => IsFiniteSet(Awake)
    /\ Fpl!EnoughAwake

LEMMA BlocksDividedConserved == FplTypeOK => (BlocksDivided <=> Fpl!BlocksConserved)
<1> SUFFICES ASSUME FplTypeOK PROVE BlocksDivided <=> Fpl!BlocksConserved
  OBVIOUS
<1>1. DOMAIN free = 1..Len(free) /\ DOMAIN given = Threads
  BY DEF FplTypeOK
<1>2. Fpl!IsInjective(free) <=> \A i, j \in 1..Len(free) : free[i] = free[j] => i = j
  BY <1>1 DEF Fpl!IsInjective
<1>3. Fpl!Range(free) = {free[i] : i \in 1..Len(free)} /\ Fpl!Range(free) \subseteq Blocks
  BY <1>1 DEF Fpl!Range, FplTypeOK
<1>4. UNION Fpl!Range(given) = UNION {given[t] : t \in Threads} /\ UNION Fpl!Range(given) \subseteq Blocks
  BY <1>1 DEF Fpl!Range, FplTypeOK
<1>5. Fpl!Range(free) \cup UNION Fpl!Range(given) = Blocks
        <=> \A b \in Blocks : (\E i \in 1..Len(free) : free[i] = b) \/ (\E t \in Threads : b \in given[t])
  BY <1>3, <1>4
<1>6. (\A t \in Threads : given[t] \cap Fpl!Range(free) = {})
        <=> \A t \in Threads, i \in 1..Len(free) : free[i] \notin given[t]
  BY <1>3
<1> QED
  BY <1>2, <1>5, <1>6 DEF BlocksDivided, Fpl!BlocksConserved

LEMMA FplCardinality == \A S : Fpl!Cardinality(S) = Cardinality(S)
  BY Zenon DEF Fpl!Cardinality, Cardinality

\* At the start the list has every block once.
LEMMA AllBlocksFree ==
  ASSUME IsFiniteSet(Blocks)
  PROVE  /\ Fpl!SetToSeq(Blocks) \in Seq(Blocks)
         /\ Fpl!IsInjective(Fpl!SetToSeq(Blocks))
         /\ \A b \in Blocks : \E i \in 1..Len(Fpl!SetToSeq(Blocks)) : Fpl!SetToSeq(Blocks)[i] = b
<1> DEFINE n == Cardinality(Blocks)
           s == Fpl!SetToSeq(Blocks)
<1>1. n \in Nat /\ ExistsBijection(1..n, Blocks)
  BY FS_CardinalityType
<1>2. \E f \in [1..n -> Blocks] : Fpl!IsInjective(f)
  BY <1>1 DEF ExistsBijection, Bijection, Injection, IsInjective, Fpl!IsInjective
<1>3. s \in [1..n -> Blocks] /\ Fpl!IsInjective(s)
  <2>1. s = CHOOSE f \in [1..n -> Blocks] : Fpl!IsInjective(f)
    BY FplCardinality DEF Fpl!SetToSeq
  <2> HIDE DEF n, s
  <2> QED
    BY <1>2, <2>1, Zenon
<1> HIDE DEF n, s
<1>4. s \in Injection(1..n, Blocks)
  BY <1>3 DEF Injection, IsInjective, Fpl!IsInjective
<1>5. Cardinality(1..n) = Cardinality(Blocks)
  BY <1>1, FS_Interval DEF n
<1>6. s \in Surjection(1..n, Blocks)
  BY <1>4, <1>5, FS_Injection
<1>7. s \in Seq(Blocks) /\ Len(s) = n
  BY <1>1, <1>3
<1> QED
  BY <1>3, <1>6, <1>7 DEF Surjection, s

\* The last block of the list, and the list without it.
LEMMA TakeLast ==
  ASSUME NEW s \in Seq(Blocks), s # <<>>
  PROVE  /\ Fpl!Front(s) \in Seq(Blocks) /\ Len(Fpl!Front(s)) = Len(s) - 1
         /\ \A i \in 1..(Len(s) - 1) : Fpl!Front(s)[i] = s[i]
         /\ Fpl!Last(s) = s[Len(s)] /\ Len(s) \in 1..Len(s)
<1>1. Len(s) \in Nat /\ Len(s) > 0
  BY EmptySeq
<1>2. \A i \in 1..(Len(s) - 1) : s[i] \in Blocks
  BY ElementOfSeq
<1>3. Fpl!Front(s) = SubSeq(s, 1, Len(s) - 1)
  BY DEF Fpl!Front
<1>4. /\ Fpl!Front(s) \in Seq(Blocks) /\ Len(Fpl!Front(s)) = Len(s) - 1
      /\ \A i \in 1..(Len(s) - 1) : Fpl!Front(s)[i] = s[i]
  <2> DEFINE n == Len(s) - 1
  <2>1. n \in Nat /\ \A i \in 1..n : s[i] \in Blocks
    BY <1>1, <1>2
  <2> HIDE DEF n
  <2>2. /\ SubSeq(s, 1, n) \in Seq(Blocks)
        /\ Len(SubSeq(s, 1, n)) = IF 1 <= n THEN n - 1 + 1 ELSE 0
        /\ \A i \in 1..(n - 1 + 1) : SubSeq(s, 1, n)[i] = s[1 + i - 1]
    BY <2>1, SubSeqProperties
  <2>3. n - 1 + 1 = n /\ \A i \in 1..n : 1 + i - 1 = i
    BY <2>1
  <2> QED
    BY <1>3, <2>1, <2>2, <2>3 DEF n
<1> QED
  BY <1>1, <1>4 DEF Fpl!Last

\* A thread that takes a block takes it from the list.
LEMMA TakeDivides ==
  ASSUME FplTypeOK, BlocksDivided, NEW t \in Threads, Fpl!TakeIfAny(t)
  PROVE  /\ free' \in Seq(Blocks) /\ given' \in [Threads -> SUBSET Blocks]
         /\ BlocksDivided'
         /\ free = <<>> => free' = <<>>
         /\ Len(free') = IF free = <<>> THEN 0 ELSE Len(free) - 1
<1>1. CASE free = <<>>
  <2>1. UNCHANGED <<free, given>>
    BY <1>1 DEF Fpl!TakeIfAny, Fpl!fpl
  <2> QED
    BY <1>1, <2>1 DEF FplTypeOK, BlocksDivided
<1>2. CASE free # <<>>
  <2>1. free' = Fpl!Front(free) /\ given' = [given EXCEPT ![t] = @ \cup {Fpl!Last(free)}]
    BY <1>2 DEF Fpl!TakeIfAny, Fpl!Take
  <2> DEFINE n == Len(free)
             b == free[n]
  <2>2. /\ n \in Nat /\ n > 0 /\ n \in 1..n
        /\ free' \in Seq(Blocks) /\ Len(free') = n - 1 /\ \A i \in 1..(n - 1) : free'[i] = free[i]
        /\ b \in Blocks /\ given' = [given EXCEPT ![t] = @ \cup {b}]
    <3>1. free \in Seq(Blocks) /\ n \in Nat /\ n > 0 /\ n \in 1..n
      BY <1>2, EmptySeq DEF FplTypeOK
    <3>2. b \in Blocks
      BY <3>1, ElementOfSeq
    <3>3. /\ free' \in Seq(Blocks) /\ Len(free') = n - 1 /\ Fpl!Last(free) = b
          /\ \A i \in 1..(n - 1) : free'[i] = free[i]
      BY <1>2, <2>1, <3>1, TakeLast
    <3> QED
      BY <2>1, <3>1, <3>2, <3>3
  <2> HIDE DEF n, b
  <2>3. given' \in [Threads -> SUBSET Blocks]
    BY <2>2 DEF FplTypeOK
  <2>4. \A i, j \in 1..Len(free)' : free'[i] = free'[j] => i = j
    BY <2>2 DEF BlocksDivided, n
  <2>5. ASSUME NEW c \in Blocks
        PROVE  (\E i \in 1..Len(free)' : free'[i] = c) \/ (\E u \in Threads : c \in given'[u])
    <3>1. CASE c = b
      BY <2>2, <3>1 DEF FplTypeOK
    <3>2. CASE c # b /\ \E i \in 1..n : free[i] = c
      <4>1. PICK i \in 1..n : free[i] = c
        BY <3>2
      <4>2. i \in 1..(n - 1)
        BY <2>2, <3>2, <4>1 DEF b
      <4> QED
        BY <2>2, <4>1, <4>2
    <3>3. CASE \E u \in Threads : c \in given[u]
      BY <2>2, <3>3 DEF FplTypeOK
    <3> QED
      BY <3>1, <3>2, <3>3 DEF BlocksDivided, n
  <2>6. \A u \in Threads : b \notin given[u]
    BY <2>2 DEF BlocksDivided, n, b
  <2>7. \A u, v \in Threads : u # v => given'[u] \cap given'[v] = {}
    BY <2>2, <2>6 DEF BlocksDivided, FplTypeOK
  <2>8. \A u \in Threads, i \in 1..Len(free)' : free'[i] \notin given'[u]
    <3>1. \A i \in 1..(n - 1) : free[i] # b
      BY <2>2 DEF BlocksDivided, n, b
    <3> QED
      BY <2>2, <3>1 DEF BlocksDivided, FplTypeOK, n
  <2> QED
    BY <1>2, <2>2, <2>3, <2>4, <2>5, <2>7, <2>8 DEF BlocksDivided, n
<1> QED
  BY <1>1, <1>2

\* A step of the fixed pool keeps its invariant.
LEMMA FplStep == FplInv /\ [Fpl!Next]_(Fpl!vars) => FplInv'
<1> SUFFICES ASSUME FplInv, [Fpl!Next]_(Fpl!vars) PROVE FplInv'
  OBVIOUS
<1> DEFINE Divided == free \in Seq(Blocks) /\ given \in [Threads -> SUBSET Blocks] /\ BlocksDivided
           Places  == Fpl!HleTypeOK /\ HolderPlace /\ FlagBeforeNotify /\ FplReady /\ NoneFreeBeforePark
           Sleepers == \E u \in Threads : pc[u] \in {"park", "parked"}
           Enough  == ~exit => /\ IsFiniteSet(Awake)
                               /\ Sleepers => Len(free) <= Cardinality(Awake)
<1>inv. FplInv <=> Divided /\ Places /\ Enough
  <2>1. Awake = {t \in Threads : (Fpl!Waits(t) /\ ~Fpl!Asleep(t)) \/ pc[t] = "signal"}
    BY DEF Awake, Fpl!Waits, Fpl!Asleep, Fpl!WaitPCs, WaitPCs
  <2> QED
    BY <2>1, FplCardinality DEF FplInv, Fpl!EnoughAwake, Fpl!Asleep, FplTypeOK
<1>inv2. Divided' /\ Places' /\ Enough' => FplInv'
  <2>1. Awake' = {t \in Threads : (Fpl!Waits(t)' /\ ~Fpl!Asleep(t)') \/ pc'[t] = "signal"}
    BY DEF Awake, Fpl!Waits, Fpl!Asleep, Fpl!WaitPCs, WaitPCs
  <2> QED
    BY <2>1, FplCardinality DEF FplInv, Fpl!EnoughAwake, Fpl!Asleep, FplTypeOK
<1>0. Divided /\ Places /\ Enough
  BY <1>inv
<1>same. ASSUME UNCHANGED <<free, given>> PROVE Divided'
  BY <1>0, <1>same DEF BlocksDivided
<1>len. Len(free) \in Nat /\ (free = <<>> <=> Len(free) = 0)
  BY <1>0, EmptySeq
<1> USE HleAssumption DEF Fpl!HleTypeOK, Fpl!HlePCs, HolderPlace, HoldsMutex, FlagBeforeNotify,
        FplReady, NoneFreeBeforePark, Fpl!Goto, Fpl!hle
<1>1. ASSUME NEW t \in Threads, Fpl!CommitAllocate(t) PROVE FplInv'
  <2>1. /\ pc[t] = "commit" /\ pc' = [pc EXCEPT ![t] = "resume"]
        /\ mutex = t /\ mutex' = NoThread
        /\ timed' = [timed EXCEPT ![t] = FALSE]
        /\ UNCHANGED <<cpu, exit, host, calls, alive>>
    BY <1>0, <1>1 DEF Fpl!CommitAllocate, Fpl!EndWait
  <2>2. Divided' /\ (free = <<>> => free' = <<>>) /\ Len(free') = IF free = <<>> THEN 0 ELSE Len(free) - 1
    BY <1>0, <1>1, TakeDivides DEF Fpl!CommitAllocate, FplTypeOK
  <2>3. Places'
    BY <1>0, <2>1, <2>2
  <2>4. Enough'
    <3> SUFFICES ASSUME ~exit' PROVE IsFiniteSet(Awake)' /\ (Sleepers' => Len(free') <= Cardinality(Awake'))
      OBVIOUS
    <3>1. t \in Awake /\ Awake' = Awake \ {t}
      BY <1>0, <2>1 DEF Awake, WaitPCs
    <3>2. Sleepers' => Sleepers
      BY <1>0, <2>1
    <3>3. free # <<>>
      BY <1>0, <2>1
    <3>4. IsFiniteSet(Awake') /\ Cardinality(Awake') = Cardinality(Awake) - 1 /\ Cardinality(Awake) \in Nat
      BY <1>0, <2>1, <3>1, AwakeShrinks, FS_CardinalityType
    <3> QED
      BY <1>0, <1>len, <2>1, <2>2, <3>2, <3>3, <3>4
  <2> QED
    BY <1>inv2, <2>2, <2>3, <2>4
<1>2. ASSUME NEW t \in Threads, Fpl!FreeNotifies(t) PROVE FplInv'
  <2>1. /\ pc[t] = "signal" /\ Fpl!NotifyOne(t, "return")
        /\ UNCHANGED <<cpu, exit, host, calls, mutex, alive, timed, free, given>>
    BY <1>2 DEF Fpl!FreeNotifies, Fpl!fpl
  <2>2. CASE \E w \in Threads : pc[w] = "parked" /\ pc' = [pc EXCEPT ![t] = "return", ![w] = "woken"]
    <3>1. PICK w \in Threads : pc[w] = "parked" /\ pc' = [pc EXCEPT ![t] = "return", ![w] = "woken"]
      BY <2>2
    <3>2. Places'
      BY <1>0, <2>1, <3>1
    <3>3. t \in Awake /\ w \notin Awake /\ Awake' = (Awake \ {t}) \cup {w}
      BY <1>0, <2>1, <3>1 DEF Awake, WaitPCs
    <3>4. Sleepers' => Sleepers
      BY <1>0, <2>1, <3>1
    <3>5. ~exit => IsFiniteSet(Awake') /\ Cardinality(Awake') = Cardinality(Awake)
      BY <1>0, <3>3, AwakeHandedOver
    <3>6. Enough'
      BY <1>0, <2>1, <3>4, <3>5
    <3> QED
      BY <1>inv2, <1>same, <2>1, <3>2, <3>6
  <2>3. CASE (\A w \in Threads : pc[w] # "parked") /\ pc' = [pc EXCEPT ![t] = "return"]
    <3>1. Places'
      BY <1>0, <2>1, <2>3
    <3>2. Awake' = Awake \ {t}
      BY <1>0, <2>1, <2>3 DEF Awake, WaitPCs
    <3>3. Sleepers' /\ ~exit => free = <<>>
      BY <1>0, <2>1, <2>3
    <3>4. ~exit => IsFiniteSet(Awake') /\ Cardinality(Awake') \in Nat
      BY <1>0, <3>2, AwakeShrinks
    <3>5. Enough'
      BY <1>len, <2>1, <3>3, <3>4
    <3> QED
      BY <1>inv2, <1>same, <2>1, <3>1, <3>5
  <2> QED
    BY <2>1, <2>2, <2>3 DEF Fpl!NotifyOne
<1>3. ASSUME NEW t \in Threads, Fpl!Evaluate(t, Fpl!Available), UNCHANGED fpl PROVE FplInv'
  <2>1. /\ pc[t] = "eval" /\ UNCHANGED <<cpu, exit, host, calls, mutex, alive, timed, free, given>>
        /\ pc' = [pc EXCEPT ![t] = IF free # <<>> \/ exit THEN "commit" ELSE "park"]
    BY <1>3 DEF Fpl!Evaluate, Fpl!Available, fpl
  <2>2. Places'
    BY <1>0, <2>1
  <2>3. Enough'
    <3>1. CASE free # <<>> \/ exit
      <4>1. Awake' = Awake /\ (Sleepers' => Sleepers)
        BY <1>0, <2>1, <3>1 DEF Awake, WaitPCs
      <4> QED
        BY <1>0, <2>1, <4>1
    <3>2. CASE ~(free # <<>> \/ exit)
      <4>1. Awake' = Awake \ {t}
        BY <1>0, <2>1, <3>2 DEF Awake, WaitPCs
      <4>2. IsFiniteSet(Awake') /\ Cardinality(Awake') \in Nat
        BY <1>0, <3>2, <4>1, AwakeShrinks
      <4> QED
        BY <1>len, <2>1, <3>2, <4>2
    <3> QED
      BY <3>1, <3>2
  <2> QED
    BY <1>inv2, <1>same, <2>1, <2>2, <2>3
<1>4. ASSUME NEW t \in Threads, Fpl!Park(t), UNCHANGED fpl PROVE FplInv'
  <2>1. /\ pc[t] = "park" /\ pc' = [pc EXCEPT ![t] = "parked"] /\ mutex' = NoThread
        /\ UNCHANGED <<cpu, exit, host, calls, alive, timed, free, given>>
    BY <1>4 DEF Fpl!Park, fpl
  <2>2. Places'
    BY <1>0, <2>1
  <2>3. Awake' = Awake /\ Sleepers
    BY <1>0, <2>1 DEF Awake, WaitPCs
  <2> QED
    BY <1>0, <1>inv2, <1>same, <2>1, <2>2, <2>3
<1>5. ASSUME NEW t \in Threads, NEW p, pc' = [pc EXCEPT ![t] = p],
             pc[t] \notin {"park", "signal"}, Awake' = Awake \cup {t} \/ Awake' = Awake,
             p \notin {"park", "parked"}, UNCHANGED <<exit, free, given>>, Places'
      PROVE  FplInv'
  <2>1. Sleepers' => Sleepers
    BY <1>0, <1>5
  <2>2. ~exit => IsFiniteSet(Awake') /\ Cardinality(Awake') >= Cardinality(Awake)
    <3>1. CASE Awake' = Awake
      BY <1>0, <1>5, <3>1, FS_CardinalityType
    <3>2. CASE Awake' = Awake \cup {t}
      <4>1. ASSUME ~exit PROVE IsFiniteSet(Awake)
        BY <1>0, <4>1
      <4>2. ASSUME ~exit
            PROVE  /\ IsFiniteSet(Awake') /\ Cardinality(Awake) \in Nat
                   /\ Cardinality(Awake') = IF t \in Awake THEN Cardinality(Awake) ELSE Cardinality(Awake) + 1
        BY <3>2, <4>1, <4>2, AwakeGrows, FS_CardinalityType
      <4> QED
        BY <4>2
    <3> QED
      BY <1>5, <3>1, <3>2
  <2>3. Enough'
    BY <1>0, <1>len, <1>5, <2>1, <2>2, FS_CardinalityType
  <2> QED
    BY <1>inv2, <1>same, <1>5, <2>3
<1>6. ASSUME NEW t \in Threads, Fpl!Relock(t), UNCHANGED fpl PROVE FplInv'
  <2>1. Places' /\ Awake' = Awake
    BY <1>0, <1>6 DEF Fpl!Relock, fpl, Awake, WaitPCs
  <2> QED
    BY <1>5, <1>6, <2>1 DEF Fpl!Relock, fpl
<1>7. ASSUME NEW t \in Threads, Fpl!AllocateFpl(t) PROVE FplInv'
  <2>1. Places' /\ Awake' = Awake \cup {t}
    BY <1>0, <1>7 DEF Fpl!AllocateFpl, Fpl!BeginWait, Fpl!WithoutCpu, Fpl!fpl, Awake, WaitPCs
  <2> QED
    BY <1>5, <1>7, <2>1 DEF Fpl!AllocateFpl, Fpl!BeginWait, Fpl!fpl
<1>8. ASSUME NEW t \in Threads, Fpl!TryAllocateFpl(t) PROVE FplInv'
  <2>1. /\ pc[t] = "guest" /\ pc' = [pc EXCEPT ![t] = Fpl!Quietly]
        /\ mutex = NoThread /\ UNCHANGED <<cpu, exit, host, mutex, alive, timed>>
        /\ calls' = [calls EXCEPT ![t] = @ - 1] /\ calls[t] > 0 /\ Fpl!Quietly \in {"return", "guest"}
    BY <1>8 DEF Fpl!TryAllocateFpl, Fpl!LockedCall, Fpl!Call, Fpl!Quietly
  <2>2. Divided' /\ (free = <<>> => free' = <<>>) /\ Len(free') = IF free = <<>> THEN 0 ELSE Len(free) - 1
    BY <1>0, <1>8, TakeDivides DEF Fpl!TryAllocateFpl, FplTypeOK
  <2>3. Places'
    BY <1>0, <2>1, <2>2
  <2>4. Awake' = Awake /\ (Sleepers' => Sleepers)
    BY <1>0, <2>1 DEF Awake, WaitPCs
  <2>5. Enough'
    BY <1>0, <1>len, <2>1, <2>2, <2>4, FS_CardinalityType
  <2> QED
    BY <1>inv2, <2>2, <2>3, <2>5
<1>9. ASSUME NEW t \in Threads, NEW b \in Blocks, Fpl!FreeFpl(t, b) PROVE FplInv'
  <2>1. /\ pc[t] = "guest" /\ pc' = [pc EXCEPT ![t] = "signal"]
        /\ mutex = NoThread /\ UNCHANGED <<cpu, exit, host, mutex, alive, timed>>
        /\ calls' = [calls EXCEPT ![t] = @ - 1] /\ calls[t] > 0
        /\ b \in given[t] /\ free' = Append(free, b) /\ given' = [given EXCEPT ![t] = @ \ {b}]
    BY <1>9 DEF Fpl!FreeFpl, Fpl!LockedCall, Fpl!Call
  <2> DEFINE n == Len(free)
  <2>2. /\ free' \in Seq(Blocks) /\ Len(free') = n + 1 /\ n \in Nat
        /\ \A i \in 1..n : free'[i] = free[i]
        /\ free'[n + 1] = b
    BY <1>0, <1>len, <2>1, AppendProperties
  <2> HIDE DEF n
  <2>3. Divided'
    <3>1. given' \in [Threads -> SUBSET Blocks]
      BY <1>0, <2>1
    <3>2. \A i \in 1..n : free[i] # b
      BY <1>0, <2>1 DEF BlocksDivided, n
    <3>3. \A i, j \in 1..(n + 1) : free'[i] = free'[j] => i = j
      <4>1. \A i, j \in 1..n : free[i] = free[j] => i = j
        BY <1>0 DEF BlocksDivided, n
      <4>2. \A i \in 1..(n + 1) : i \in 1..n \/ i = n + 1
        BY <2>2
      <4> QED
        BY <2>2, <3>2, <4>1, <4>2
    <3>4. \A c \in Blocks : (\E i \in 1..(n + 1) : free'[i] = c) \/ (\E u \in Threads : c \in given'[u])
      <4> TAKE c \in Blocks
      <4>1. CASE c = b
        BY <2>2, <4>1
      <4>2. CASE \E i \in 1..n : free[i] = c
        BY <2>2, <4>2
      <4>3. CASE c # b /\ \E u \in Threads : c \in given[u]
        BY <1>0, <2>1, <4>3
      <4> QED
        BY <1>0, <4>1, <4>2, <4>3 DEF BlocksDivided, n
    <3>5. \A u, v \in Threads : u # v => given'[u] \cap given'[v] = {}
      BY <1>0, <2>1 DEF BlocksDivided
    <3>6. \A u \in Threads, i \in 1..(n + 1) : free'[i] \notin given'[u]
      <4> TAKE u \in Threads, i \in 1..(n + 1)
      <4>1. CASE i = n + 1
        BY <1>0, <2>1, <2>2, <4>1 DEF BlocksDivided
      <4>2. CASE i \in 1..n
        BY <1>0, <2>1, <2>2, <4>2 DEF BlocksDivided, n
      <4> QED
        BY <2>2, <4>1, <4>2
    <3> QED
      BY <2>2, <3>1, <3>3, <3>4, <3>5, <3>6 DEF BlocksDivided
  <2>4. Places'
    BY <1>0, <2>1
  <2>5. Enough'
    <3>1. Awake' = Awake \cup {t} /\ t \notin Awake /\ (Sleepers' => Sleepers)
      BY <1>0, <2>1 DEF Awake, WaitPCs
    <3>2. ~exit => IsFiniteSet(Awake') /\ Cardinality(Awake') = Cardinality(Awake) + 1
                   /\ Cardinality(Awake) \in Nat
      BY <1>0, <3>1, AwakeGrows, FS_CardinalityType
    <3> QED
      BY <1>0, <2>1, <2>2, <3>1, <3>2 DEF n
  <2> QED
    BY <1>inv2, <2>3, <2>4, <2>5
<1>10. ASSUME NEW t \in Threads, Fpl!DeleteFpl(t) \/ Fpl!UnknownFpl(t) PROVE FplInv'
  <2>1. Fpl!Call(t, "return") /\ UNCHANGED <<free, given>> /\ alive' \in BOOLEAN
    BY <1>0, <1>10 DEF Fpl!DeleteFpl, Fpl!UnknownFpl, Fpl!fpl
  <2>2. Places' /\ Awake' = Awake
    BY <1>0, <2>1 DEF Fpl!Call, Awake, WaitPCs
  <2> QED
    BY <1>5, <2>1, <2>2 DEF Fpl!Call
<1>11. ASSUME NEW t \in Threads, Fpl!CpuStep(t), UNCHANGED fpl PROVE FplInv'
  <2>1. PICK p \in {"return", "guest", "finished", "yield"} :
          pc[t] \in {"resume", "yield", "return", "guest"} /\ pc' = [pc EXCEPT ![t] = p]
    BY <1>11 DEF Fpl!CpuStep, Fpl!TakeCpu, Fpl!Yield, Fpl!Finish
  <2>2. cpu' \in Threads \cup {NoThread} /\ UNCHANGED <<exit, host, calls, mutex, alive, timed, free, given>>
    BY <1>0, <1>11 DEF Fpl!CpuStep, Fpl!TakeCpu, Fpl!Yield, Fpl!Finish, Fpl!WithoutCpu, fpl
  <2>3. Places' /\ Awake' = Awake
    BY <1>0, <2>1, <2>2 DEF Awake, WaitPCs
  <2> QED
    BY <1>5, <2>1, <2>2, <2>3
<1>12. ASSUME NEW t \in Threads, Fpl!SpuriousWakeup(t) \/ Fpl!Expire(t), UNCHANGED fpl PROVE FplInv'
  <2>1. PICK p \in {"woken", "expired"} : pc[t] = "parked" /\ pc' = [pc EXCEPT ![t] = p]
    BY <1>12 DEF Fpl!SpuriousWakeup, Fpl!Expire
  <2>2. UNCHANGED <<cpu, exit, host, calls, mutex, alive, timed, free, given>>
    BY <1>12 DEF Fpl!SpuriousWakeup, Fpl!Expire, fpl
  <2>3. Places' /\ Awake' = Awake \cup {t}
    BY <1>0, <2>1, <2>2 DEF Awake, WaitPCs
  <2> QED
    BY <1>5, <2>1, <2>2, <2>3
<1>13. ASSUME Fpl!ExitFlag \/ Fpl!ExitNotify, UNCHANGED fpl PROVE FplInv'
  <2>1. CASE Fpl!ExitFlag
    BY <1>0, <1>13, <1>inv2, <1>same, <2>1 DEF Fpl!ExitFlag, fpl
  <2>2. CASE Fpl!ExitNotify
    <3>1. exit' /\ UNCHANGED <<cpu, exit, calls, mutex, alive, timed, free, given>> /\ host' = "notified"
      BY <1>0, <1>13, <2>2 DEF Fpl!ExitNotify, fpl
    <3>2. /\ pc' \in [Threads -> Fpl!HlePCs]
          /\ \A u \in Threads : pc'[u] = pc[u] \/ (pc[u] = "parked" /\ pc'[u] = "woken")
      BY <1>0, <2>2 DEF Fpl!ExitNotify, Fpl!NotifyAll
    <3>3. Places'
      BY <1>0, <3>1, <3>2
    <3> QED
      BY <1>inv2, <1>same, <3>1, <3>3
  <2> QED
    BY <1>13, <2>1, <2>2
<1>14. CASE UNCHANGED Fpl!vars
  <2>1. UNCHANGED <<cpu, exit, host, pc, calls, mutex, alive, timed, free, given>>
    BY <1>14 DEF Fpl!vars, Fpl!fpl
  <2>2. Places' /\ Awake' = Awake
    BY <1>0, <2>1 DEF Awake
  <2> QED
    BY <1>0, <1>inv2, <1>same, <2>1, <2>2
<1> QED
  BY <1>1, <1>2, <1>3, <1>4, <1>6, <1>7, <1>8, <1>9, <1>10, <1>11, <1>12, <1>13, <1>14
     DEF Fpl!Next, Fpl!Running, Fpl!Relocking, Fpl!Guest, Fpl!Environment, Fpl!fpl, fpl
=============================================================================
