--------------------------- MODULE AudioRingProofs ---------------------------
(***************************************************************************)
(* Proofs about one channel of the host mixer, AudioRing, for any number   *)
(* of guest threads, any capacity, callback period and counter width       *)
(* AudioAssumption allows, and any number of calls.                        *)
(*                                                                         *)
(* PlaysEachFrame is not inductive: that the callback mixes the next       *)
(* frames depends on the room the submitter found before it copied, on the *)
(* frames copied before they are published, and on what the callback       *)
(* loaded being still true when it is used.  RingInv states all of these,  *)
(* together with the account of queued_frames_: between a publication and  *)
(* its count, or a consumption and its count, the unsigned counter is off  *)
(* by what is pending, and may have wrapped below zero.                    *)
(***************************************************************************)
EXTENDS AudioRing, TLAPS

-----------------------------------------------------------------------------
(* Remainders of integers *)

\* A remainder is below the divisor, and a multiple of it away.
LEMMA ModQuotient ==
  ASSUME NEW c \in Nat \ {0}, NEW x \in Int
  PROVE  /\ x % c \in 0..(c - 1)
         /\ \E k \in Int : x = (k * c) + (x % c)
<1>1. x % c \in 0..(c - 1)
  OBVIOUS
<1>2. x \div c \in Int /\ x = ((x \div c) * c) + (x % c)
  OBVIOUS
<1> QED
  BY <1>1, <1>2

\* A positive multiple is at least the divisor.
LEMMA MultipleAtLeast ==
  ASSUME NEW c \in Nat \ {0}, NEW d \in Int, d >= 1
  PROVE  d * c >= c
  OBVIOUS

\* There is one remainder.
LEMMA ModUnique ==
  ASSUME NEW c \in Nat \ {0}, NEW x \in Int, NEW k \in Int, NEW r \in 0..(c - 1), x = (k * c) + r
  PROVE  x % c = r
<1>1. PICK q \in Int : x = (q * c) + (x % c)
  BY ModQuotient
<1>2. x % c \in 0..(c - 1)
  BY ModQuotient
<1>3. ~(k - q >= 1)
  <2>1. (k - q) * c = (x % c) - r
    BY <1>1, <1>2
  <2> QED
    BY <2>1, <1>2, MultipleAtLeast
<1>4. ~(q - k >= 1)
  <2>1. (q - k) * c = r - (x % c)
    BY <1>1, <1>2
  <2> QED
    BY <2>1, <1>2, MultipleAtLeast
<1>5. k = q
  BY <1>3, <1>4
<1> QED
  BY <1>1, <1>2, <1>5

\* Remainders at most one divisor away need no division.
LEMMA ModNear ==
  ASSUME NEW c \in Nat \ {0}, NEW x \in Int
  PROVE  /\ 0 <= x /\ x < c => x % c = x
         /\ c <= x /\ x < 2 * c => x % c = x - c
         /\ -c <= x /\ x < 0 => x % c = x + c
<1>1. ASSUME 0 <= x, x < c PROVE x % c = x
  <2>1. x = (0 * c) + x /\ x \in 0..(c - 1)
    BY <1>1
  <2> QED
    BY <2>1, ModUnique
<1>2. ASSUME c <= x, x < 2 * c PROVE x % c = x - c
  <2>1. x = (1 * c) + (x - c) /\ x - c \in 0..(c - 1)
    BY <1>2
  <2> QED
    BY <2>1, ModUnique
<1>3. ASSUME -c <= x, x < 0 PROVE x % c = x + c
  <2>1. x = ((-1) * c) + (x + c) /\ x + c \in 0..(c - 1)
    BY <1>3
  <2> QED
    BY <2>1, ModUnique
<1> QED
  BY <1>1, <1>2, <1>3

\* A slot and the frame in it are the same distance from an index.
LEMMA ModOfDifference ==
  ASSUME NEW c \in Nat \ {0}, NEW f \in Int, NEW w \in Int
  PROVE  ((f % c) - w) % c = (f - w) % c
<1>1. PICK k \in Int : f = (k * c) + (f % c)
  BY ModQuotient
<1>2. f % c \in 0..(c - 1) /\ f - w \in Int /\ (f % c) - w \in Int
  BY ModQuotient
<1>3. PICK q \in Int : f - w = (q * c) + ((f - w) % c)
  BY <1>2, ModQuotient
<1>4. (f - w) % c \in 0..(c - 1)
  BY <1>2, ModQuotient
<1>5. PICK m \in Int : m = q - k
  OBVIOUS
<1>6. PICK r \in 0..(c - 1) : r = (f - w) % c
  BY <1>4
<1>7. PICK d \in Int : d = (f % c) - w
  BY <1>2
<1>8. PICK a \in Int : a = q * c
  OBVIOUS
<1>9. PICK b \in Int : b = k * c
  OBVIOUS
<1>10. f - w = a + r
  BY <1>3, <1>6, <1>8
<1>11. f = b + (d + w)
  <2>1. f % c = d + w
    BY <1>2, <1>7
  <2> QED
    BY <1>1, <1>9, <2>1
<1>12. d = (a - b) + r
  <2>1. a \in Int /\ b \in Int /\ d \in Int /\ r \in Int
    BY <1>6, <1>7, <1>8, <1>9
  <2> QED
    BY <2>1, <1>10, <1>11
<1>13. a - b = m * c
  BY <1>5, <1>8, <1>9
<1>14. d % c = r
  BY <1>6, <1>7, <1>12, <1>13, ModUnique
<1> QED
  BY <1>6, <1>7, <1>14

-----------------------------------------------------------------------------
(* The inductive invariant *)

\* Where an actor holds submit_mutex.
MutexPCs == {"room", "copy", "publish", "account", "drain", "discard"}

MutexPlace ==
    /\ \A a \in Actors : mutex = a <=> pc[a] \in MutexPCs
    /\ pc[Host] \in {"run", "reset", "discard", "stop", "join", "ended"}

\* Between the indices every slot holds its frame, and there are never more
\* frames than slots.
FramesThere ==
    /\ read <= write /\ write <= read + Cap
    /\ \A f \in read..(write - 1) : samples[f % Cap] = f

\* What was found when there was room stays: the indices come no closer.
RoomKept ==
    \A t \in Threads : pc[t] \in {"copy", "publish"} => write + local[t].length <= read + Cap

\* The frames of a submission are there before its index is.
CopiedThere ==
    \A t \in Threads :
      pc[t] = "publish" =>
        /\ local[t].at = write
        /\ \A f \in write..(write + local[t].length - 1) : samples[f % Cap] = f

\* What the callback has loaded is still true of the ring.
CallbackPlace ==
    /\ cpc = "load" => read <= cwrite /\ cwrite <= write
    /\ cpc \in {"mix", "store"} => cread = read /\ cread + take <= write

\* Published and not yet counted; consumed and not yet counted.
Unaccounted == IF mutex \in Threads /\ pc[mutex] = "account" THEN local[mutex].length ELSE 0
Uncounted == IF cpc = "account" THEN take ELSE 0

\* What queued_frames_ would be, were it not unsigned: it may be below zero.
Balance == (write - read) - Unaccounted + Uncounted
Counted == queued = IF Balance < 0 THEN Balance + Word ELSE Balance

\* The frames the callback has mixed or passed.
Passed == IF cpc = "store" THEN cread + take ELSE read
PassedOnce == played \cap dropped = {} /\ played \cup dropped = 0..(Passed - 1)

RingKept ==
    FramesThere /\ RoomKept /\ CopiedThere /\ CallbackPlace /\ Counted /\ PassedOnce

RingInv == TypeOK /\ MutexPlace /\ (clean => RingKept)

-----------------------------------------------------------------------------
(* Types *)

\* What the proofs use of the constants.
LEMMA Constants ==
  /\ Cap \in Nat \ {0} /\ Period \in 1..Cap /\ Lengths \subseteq 1..Cap
  /\ Word \in Nat \ {0} /\ Word > Period + Cap
  /\ Host \notin Threads /\ NoThread \notin Actors /\ Calls \in Nat
  BY AudioAssumption DEF Actors

\* The difference of two counters is a counter.
LEMMA MinusTyped == \A a, b \in Int : Minus(a, b) \in 0..(Word - 1)
<1> SUFFICES ASSUME NEW a \in Int, NEW b \in Int PROVE (a - b) % Word \in 0..(Word - 1)
  BY DEF Minus
<1> QED
  BY Constants, ModQuotient, a - b \in Int

\* The locals of one submission.
LEMMA SubmitTyped ==
  ASSUME TypeOK, NEW t \in Threads
  PROVE  /\ local[t].length \in 0..Cap /\ local[t].blocking \in BOOLEAN
         /\ local[t].before \in 0..(Word - 1) /\ local[t].at \in Nat
<1>1. local[t] \in Locals
  BY DEF TypeOK
<1> QED
  BY <1>1 DEF Locals

\* The locals of a submission keep their types.
LEMMA LocalsStep == TypeOK /\ [Next]_vars => local' \in [Threads -> Locals]
<1> SUFFICES ASSUME TypeOK, [Next]_vars PROVE local' \in [Threads -> Locals]
  OBVIOUS
<1>1. local \in [Threads -> Locals] /\ write \in Nat /\ read \in Nat
  BY DEF TypeOK
<1>2. NoLocals \in Locals
  BY Constants DEF NoLocals, Locals
<1>3. \A t \in Threads : Return(t) => local' \in [Threads -> Locals]
  BY <1>1, <1>2 DEF Return
<1>4. ASSUME NEW t \in Threads, NEW n \in Lengths, NEW wait \in BOOLEAN, Output(t, n, wait)
      PROVE  local' \in [Threads -> Locals]
  <2>1. n \in 0..Cap
    BY Constants
  <2>2. [local[t] EXCEPT !.length = n, !.blocking = wait] \in Locals
    BY <1>1, <2>1 DEF Locals
  <2> QED
    BY <1>1, <1>4, <2>2 DEF Output
<1>5. ASSUME NEW t \in Threads, Submit(t) PROVE local' \in [Threads -> Locals]
  <2>1. [local[t] EXCEPT !.before = Queued] \in Locals
    BY <1>1, MinusTyped DEF Locals, Queued
  <2> QED
    BY <1>1, <1>3, <1>5, <2>1 DEF Submit
<1>6. ASSUME NEW t \in Threads, Copy(t) PROVE local' \in [Threads -> Locals]
  <2>1. [local[t] EXCEPT !.at = write] \in Locals
    BY <1>1 DEF Locals
  <2> QED
    BY <1>1, <1>6, <2>1 DEF Copy
<1>7. ASSUME NEW t \in Threads, Account(t) \/ Drain(t) \/ NoRoom(t) \/ ConfigureFails(t)
      PROVE  local' \in [Threads -> Locals]
  BY <1>1, <1>3, <1>7 DEF Account, Drain, NoRoom, ConfigureFails
<1>8. ASSUME NEW t \in Threads,
             Configure(t) \/ Room(t) \/ AwaitRoom(t) \/ Publish(t) \/ Wake(t) \/ Reserve(t)
      PROVE  local' \in [Threads -> Locals]
  BY <1>1, <1>8 DEF Configure, Room, AwaitRoom, Publish, Wake, Reserve, locals
<1>9. ASSUME NEW a \in Actors, ResetLoad(a) \/ ResetStore(a) PROVE local' \in [Threads -> Locals]
  BY <1>1, <1>9 DEF ResetLoad, ResetStore
<1>10. CASE LoadWrite \/ Consuming \/ DeviceFails
  BY <1>1, <1>10 DEF LoadWrite, Consuming, LoadRead, Mix, StoreRead, AccountRead, DeviceFails,
                     guests, locals
<1>11. CASE Shutdown \/ StopDevice \/ Joined \/ UNCHANGED vars
  BY <1>1, <1>11 DEF Shutdown, StopDevice, Joined, vars, guests, locals
<1> QED
  BY <1>4, <1>5, <1>6, <1>7, <1>8, <1>9, <1>10, <1>11
     DEF Next, Local, Locking, Guest, HostSteps, Ended, Actors

\* Where the actors, the callback and the device are.
PlacesTyped ==
    /\ pc \in [Actors -> {"idle", "configure", "submit", "room", "full", "copy", "publish", "account",
                          "drain", "asleep", "reset", "discard", "run", "stop", "join", "ended"}]
    /\ cpc \in {"idle", "load", "mix", "store", "account"}
    /\ device \in {"running", "failed", "stopped"} /\ mutex \in Actors \cup {NoThread}
    /\ reserved \in BOOLEAN /\ calls \in 0..Calls

\* The counters and the callback's locals.
CountersTyped ==
    /\ saw \in [Actors -> Nat] /\ write \in Nat /\ read \in Nat /\ queued \in 0..(Word - 1)
    /\ cwrite \in Nat /\ cread \in Nat /\ take \in 0..Period

\* The slots and the history.
FramesTyped ==
    /\ samples \in [0..(Cap - 1) -> Nat \cup {NoFrame}]
    /\ played \subseteq Nat \cup {NoFrame} /\ dropped \subseteq Nat /\ clean \in BOOLEAN

\* Every step keeps the places.
LEMMA PlacesStep == TypeOK /\ [Next]_vars => PlacesTyped'
<1> SUFFICES ASSUME TypeOK, [Next]_vars PROVE PlacesTyped'
  OBVIOUS
<1>0. PlacesTyped /\ local \in [Threads -> Locals] /\ write \in Nat
  BY DEF TypeOK, PlacesTyped
<1> USE DEF PlacesTyped, Goto, Return, guests, locals, ring, dev, call, hist, Actors
<1>1. ASSUME NEW t \in Threads, Configure(t) PROVE PlacesTyped'
  BY <1>0, <1>1 DEF Configure, ShuttingDown, Discard
<1>2. ASSUME NEW t \in Threads, ConfigureFails(t) PROVE PlacesTyped'
  BY <1>0, <1>2 DEF ConfigureFails, Discard
<1>3. ASSUME NEW t \in Threads, Room(t) PROVE PlacesTyped'
  BY <1>0, <1>3 DEF Room
<1>4. ASSUME NEW t \in Threads, NoRoom(t) PROVE PlacesTyped'
  BY <1>0, <1>4 DEF NoRoom
<1>5. ASSUME NEW t \in Threads, AwaitRoom(t) PROVE PlacesTyped'
  BY <1>0, <1>5 DEF AwaitRoom
<1>6. ASSUME NEW t \in Threads, Copy(t) PROVE PlacesTyped'
  BY <1>0, <1>6 DEF Copy
<1>7. ASSUME NEW t \in Threads, Publish(t) PROVE PlacesTyped'
  BY <1>0, <1>7 DEF Publish
<1>8. ASSUME NEW t \in Threads, Account(t) PROVE PlacesTyped'
  BY <1>0, <1>8 DEF Account
<1>9. ASSUME NEW t \in Threads, Drain(t) PROVE PlacesTyped'
  BY <1>0, <1>9 DEF Drain
<1>10. ASSUME NEW t \in Threads, Submit(t) PROVE PlacesTyped'
  BY <1>0, <1>10 DEF Submit
<1>11. ASSUME NEW t \in Threads, Wake(t) PROVE PlacesTyped'
  BY <1>0, <1>11 DEF Wake
<1>12. ASSUME NEW t \in Threads, Reserve(t) PROVE PlacesTyped'
  <2>1. calls' \in 0..Calls /\ pc' = [pc EXCEPT ![t] = "reset"]
    BY <1>0, <1>12, Constants DEF Reserve, Enter
  <2>2. reserved' \in BOOLEAN
    BY <1>12 DEF Reserve
  <2> QED
    BY <1>0, <1>12, <2>1, <2>2 DEF Reserve
<1>13. ASSUME NEW t \in Threads, NEW n \in Lengths, NEW wait \in BOOLEAN, Output(t, n, wait) PROVE PlacesTyped'
  <2>1. calls' \in 0..Calls /\ pc' = [pc EXCEPT ![t] = "configure"]
    BY <1>0, <1>13, Constants DEF Output, Enter
  <2> QED
    BY <1>0, <1>13, <2>1 DEF Output
<1>14. ASSUME NEW a \in Actors, ResetLoad(a) PROVE PlacesTyped'
  BY <1>0, <1>14 DEF ResetLoad, Overlap
<1>15. ASSUME NEW a \in Actors, ResetStore(a) PROVE PlacesTyped'
  BY <1>0, <1>15 DEF ResetStore, Overlap, Discard
<1>16. CASE LoadWrite
  BY <1>0, <1>16 DEF LoadWrite
<1>17. CASE LoadRead
  BY <1>0, <1>17 DEF LoadRead
<1>18. CASE Mix
  BY <1>0, <1>18 DEF Mix
<1>19. CASE StoreRead
  BY <1>0, <1>19 DEF StoreRead
<1>20. CASE AccountRead
  BY <1>0, <1>20 DEF AccountRead
<1>21. CASE DeviceFails
  BY <1>0, <1>21 DEF DeviceFails
<1>22. CASE Shutdown
  BY <1>0, <1>22 DEF Shutdown
<1>23. CASE StopDevice
  BY <1>0, <1>23 DEF StopDevice
<1>24. CASE Joined
  BY <1>0, <1>24 DEF Joined
<1>25. CASE UNCHANGED vars
  BY <1>0, <1>25 DEF vars
<1> QED
  BY <1>1, <1>2, <1>3, <1>4, <1>5, <1>6, <1>7, <1>8, <1>9, <1>10, <1>11, <1>12, <1>13, <1>14, <1>15, <1>16, <1>17, <1>18, <1>19, <1>20, <1>21, <1>22, <1>23, <1>24, <1>25
     DEF Next, Local, Locking, Guest, HostSteps, Consuming, Ended

\* A reset leaves counters.
LEMMA DiscardTyped ==
  ASSUME TypeOK, NEW r \in Nat, NEW still, Discard(r, still)
  PROVE  /\ read' \in Nat /\ queued' \in 0..(Word - 1)
         /\ dropped' \subseteq Nat
<1>1. write \in Nat /\ read \in Nat /\ queued \in Nat /\ dropped \subseteq Nat
  BY Constants DEF TypeOK
<1>2. Minus(write, r) \in 0..(Word - 1)
  <2>1. write \in Int /\ r \in Int
    BY <1>1
  <2> QED
    BY <2>1, MinusTyped, Zenon
<1>3. queued' \in 0..(Word - 1)
  BY <1>1, <1>2, MinusTyped DEF Discard
<1>4. (r..(write - 1)) \ played \subseteq Nat
  BY <1>1
<1> QED
  BY <1>1, <1>3, <1>4 DEF Discard

\* Every step keeps the counters.
LEMMA CountersStep == TypeOK /\ [Next]_vars => CountersTyped'
<1> SUFFICES ASSUME TypeOK, [Next]_vars PROVE CountersTyped'
  OBVIOUS
<1>0. CountersTyped /\ local \in [Threads -> Locals]
  BY DEF TypeOK, CountersTyped
<1> USE DEF CountersTyped, guests, locals, ring, dev, call
<1>1. ASSUME NEW t \in Threads, Configure(t) \/ ConfigureFails(t) PROVE CountersTyped'
  <2>1. Discard(read, clean) \/ UNCHANGED <<read, queued>>
    BY <1>1 DEF Configure, ConfigureFails
  <2>2. read' \in Nat /\ queued' \in 0..(Word - 1)
    BY <1>0, <2>1, DiscardTyped
  <2> QED
    BY <1>0, <1>1, <2>2 DEF Configure, ConfigureFails
<1>2. ASSUME NEW a \in Actors, ResetStore(a) PROVE CountersTyped'
  <2>1. saw[a] \in Nat
    BY <1>0, <1>2
  <2>2. read' \in Nat /\ queued' \in 0..(Word - 1)
    BY <1>2, <2>1, DiscardTyped DEF ResetStore
  <2> QED
    BY <1>0, <1>2, <2>2 DEF ResetStore
<1>3. ASSUME NEW a \in Actors, ResetLoad(a) PROVE CountersTyped'
  BY <1>0, <1>3 DEF ResetLoad
<1>4. ASSUME NEW t \in Threads, Publish(t) PROVE CountersTyped'
  <2>1. write' \in Nat
    BY <1>4, SubmitTyped DEF Publish
  <2> QED
    BY <1>0, <1>4, <2>1 DEF Publish
<1>5. ASSUME NEW t \in Threads, Account(t) PROVE CountersTyped'
  <2>1. queued + local[t].length \in Int
    BY <1>0, SubmitTyped, Constants
  <2>2. queued' \in 0..(Word - 1)
    BY <1>5, <2>1, Constants, ModQuotient DEF Account
  <2> QED
    BY <1>0, <1>5, <2>2 DEF Account
<1>6. ASSUME NEW t \in Threads,
             \/ Room(t) \/ NoRoom(t) \/ AwaitRoom(t) \/ Copy(t) \/ Drain(t) \/ Submit(t) \/ Wake(t)
             \/ Guest(t)
      PROVE  CountersTyped'
  BY <1>0, <1>6 DEF Room, NoRoom, AwaitRoom, Copy, Drain, Submit, Wake, Guest, Reserve, Output
<1>7. CASE LoadWrite
  BY <1>0, <1>7 DEF LoadWrite
<1>8. CASE LoadRead
  <2>1. Minus(cwrite, read) \in 0..(Word - 1)
    <3>1. cwrite \in Int /\ read \in Int
      BY <1>0
    <3> QED
      BY <3>1, MinusTyped, Zenon
  <2>2. Consumed(Minus(cwrite, read)) \in 0..Period
    BY <2>1, Constants DEF Consumed
  <2> QED
    BY <1>0, <1>8, <2>2 DEF LoadRead
<1>9. CASE StoreRead
  <2>1. cread + take \in Nat
    BY <1>0, Constants
  <2> QED
    BY <1>0, <1>9, <2>1 DEF StoreRead
<1>10. CASE AccountRead
  <2>1. queued' \in 0..(Word - 1)
    BY <1>0, <1>10, MinusTyped, Constants DEF AccountRead
  <2> QED
    BY <1>0, <1>10, <2>1, Constants DEF AccountRead
<1>11. CASE Mix \/ DeviceFails \/ Shutdown \/ StopDevice \/ Joined \/ UNCHANGED vars
  BY <1>0, <1>11 DEF Mix, DeviceFails, Shutdown, StopDevice, Joined, vars
<1> QED
  BY <1>1, <1>2, <1>3, <1>4, <1>5, <1>6, <1>7, <1>8, <1>9, <1>10, <1>11
     DEF Next, Local, Locking, HostSteps, Consuming, Ended, Actors

\* Every step keeps slots and history.
LEMMA FramesStep == TypeOK /\ [Next]_vars => FramesTyped'
<1> SUFFICES ASSUME TypeOK, [Next]_vars PROVE FramesTyped'
  OBVIOUS
<1>0. FramesTyped /\ write \in Nat /\ read \in Nat
  BY DEF TypeOK, FramesTyped
<1> USE DEF FramesTyped, guests, locals, ring, dev, call, hist
<1>1. ASSUME NEW t \in Threads, Configure(t) \/ ConfigureFails(t) PROVE FramesTyped'
  <2>1. Discard(read, clean) \/ UNCHANGED dropped
    BY <1>1 DEF Configure, ConfigureFails
  <2>2. dropped' \subseteq Nat
    BY <1>0, <2>1, DiscardTyped
  <2>3. UNCHANGED <<samples, played, clean>>
    BY <1>1 DEF Configure, ConfigureFails
  <2> QED
    BY <1>0, <2>2, <2>3
<1>2. ASSUME NEW a \in Actors, ResetLoad(a) \/ ResetStore(a) PROVE FramesTyped'
  <2>1. dropped' \subseteq Nat
    <3>1. CASE ResetLoad(a)
      BY <1>0, <3>1 DEF ResetLoad
    <3>2. CASE ResetStore(a)
      <4>1. saw[a] \in Nat
        BY DEF TypeOK
      <4> QED
        BY <3>2, <4>1, DiscardTyped DEF ResetStore
    <3> QED
      BY <1>2, <3>1, <3>2
  <2>2. UNCHANGED samples /\ played' \subseteq Nat \cup {NoFrame}
    BY <1>0, <1>2 DEF ResetLoad, ResetStore, Overlap
  <2>3. clean' \in BOOLEAN
    BY <1>2 DEF ResetLoad, ResetStore, Overlap
  <2> QED
    BY <1>0, <2>1, <2>2, <2>3
<1>3. ASSUME NEW t \in Threads, Copy(t) PROVE FramesTyped'
  <2>1. \A i \in Int : i % Cap \in 0..(Cap - 1)
    BY Constants, ModQuotient
  <2>2. samples' \in [0..(Cap - 1) -> Nat \cup {NoFrame}]
    <3>1. \A j \in 0..(Cap - 1) : (j - write) % Cap \in Nat
      BY <1>0, <2>1, Constants
    <3> QED
      BY <1>0, <1>3, <3>1 DEF Copy
  <2> QED
    BY <1>0, <1>3, <2>2 DEF Copy
<1>4. ASSUME NEW t \in Threads,
             \/ Room(t) \/ NoRoom(t) \/ AwaitRoom(t) \/ Publish(t) \/ Account(t) \/ Drain(t)
             \/ Submit(t) \/ Wake(t) \/ Guest(t)
      PROVE  FramesTyped'
  BY <1>0, <1>4 DEF Room, NoRoom, AwaitRoom, Publish, Account, Drain, Submit, Wake, Guest, Reserve,
                    Output
<1>5. CASE Mix
  <2>1. \A i \in 0..(take - 1) : (cread + i) % Cap \in 0..(Cap - 1)
    BY Constants, ModQuotient DEF TypeOK
  <2>2. Mixing \subseteq Nat \cup {NoFrame}
    BY <1>0, <2>1 DEF Mixing
  <2>3. played' \subseteq Nat \cup {NoFrame} /\ UNCHANGED <<samples, dropped, clean>>
    BY <1>0, <1>5, <2>2 DEF Mix
  <2> QED
    BY <1>0, <2>3
<1>6. CASE \/ LoadWrite \/ LoadRead \/ StoreRead \/ AccountRead \/ DeviceFails
           \/ Shutdown \/ StopDevice \/ Joined \/ UNCHANGED vars
  BY <1>0, <1>6 DEF LoadWrite, LoadRead, StoreRead, AccountRead, DeviceFails, Shutdown, StopDevice,
                    Joined, vars
<1> QED
  BY <1>1, <1>2, <1>3, <1>4, <1>5, <1>6
     DEF Next, Local, Locking, HostSteps, Consuming, Ended, Actors

\* Every step keeps the types.
LEMMA TypeStep == TypeOK /\ [Next]_vars => TypeOK'
<1> SUFFICES ASSUME TypeOK, [Next]_vars PROVE TypeOK'
  OBVIOUS
<1>1. /\ local' \in [Threads -> Locals]
      /\ PlacesTyped' /\ CountersTyped' /\ FramesTyped'
  BY LocalsStep, PlacesStep, CountersStep, FramesStep
<1> QED
  BY <1>1 DEF TypeOK, PlacesTyped, CountersTyped, FramesTyped

-----------------------------------------------------------------------------
(* The ring *)

\* Every step keeps submit_mutex where it belongs.
LEMMA MutexStep == TypeOK /\ MutexPlace /\ [Next]_vars => MutexPlace'
<1> SUFFICES ASSUME TypeOK, MutexPlace, [Next]_vars PROVE MutexPlace'
  OBVIOUS
<1>0. DOMAIN pc = Actors /\ Host \in Actors /\ Threads \subseteq Actors
  BY DEF TypeOK, Actors
<1> USE Constants DEF MutexPlace, MutexPCs, Goto, Return, guests, locals, ring, dev, call
<1>1. ASSUME NEW t \in Threads, Configure(t) \/ ConfigureFails(t) PROVE MutexPlace'
  BY <1>0, <1>1 DEF Configure, ConfigureFails
<1>2. ASSUME NEW t \in Threads, Room(t) \/ Copy(t) \/ Publish(t) PROVE MutexPlace'
  BY <1>0, <1>2 DEF Room, Copy, Publish
<1>3. ASSUME NEW t \in Threads, NoRoom(t) \/ AwaitRoom(t) PROVE MutexPlace'
  BY <1>0, <1>3 DEF NoRoom, AwaitRoom
<1>4. ASSUME NEW t \in Threads, Account(t) PROVE MutexPlace'
  BY <1>0, <1>4 DEF Account
<1>5. ASSUME NEW t \in Threads, Drain(t) PROVE MutexPlace'
  BY <1>0, <1>5 DEF Drain
<1>6. ASSUME NEW t \in Threads, Submit(t) PROVE MutexPlace'
  BY <1>0, <1>6 DEF Submit
<1>7. ASSUME NEW t \in Threads, Wake(t) PROVE MutexPlace'
  BY <1>0, <1>7 DEF Wake
<1>8. ASSUME NEW t \in Threads, Guest(t) PROVE MutexPlace'
  BY <1>0, <1>8 DEF Guest, Reserve, Output, Enter
<1>9. ASSUME NEW a \in Actors, ResetLoad(a) PROVE MutexPlace'
  BY <1>0, <1>9 DEF ResetLoad
<1>10. ASSUME NEW a \in Actors, ResetStore(a) PROVE MutexPlace'
  BY <1>0, <1>10 DEF ResetStore
<1>11. CASE Shutdown \/ StopDevice \/ Joined
  BY <1>0, <1>11 DEF Shutdown, StopDevice, Joined
<1>12. CASE LoadWrite \/ Consuming \/ DeviceFails \/ UNCHANGED vars
  BY <1>12 DEF LoadWrite, Consuming, LoadRead, Mix, StoreRead, AccountRead, DeviceFails, vars
<1> QED
  BY <1>1, <1>2, <1>3, <1>4, <1>5, <1>6, <1>7, <1>8, <1>9, <1>10, <1>11, <1>12
     DEF Next, Local, Locking, HostSteps, Ended, Actors

\* Nobody but the holder is in a submission.
LEMMA OneSubmits ==
  ASSUME MutexPlace, NEW t \in Threads, pc[t] \in MutexPCs
  PROVE  mutex = t /\ \A u \in Actors : pc[u] \in MutexPCs => u = t
  BY DEF MutexPlace, Actors

\* The distance of the indices is what submit computes.
LEMMA QueuedExact ==
  ASSUME TypeOK, FramesThere
  PROVE  /\ Queued = write - read /\ Minus(write, read) = write - read
         /\ write \in Nat /\ read \in Nat
<1>1. write \in Nat /\ read \in Nat /\ write - read \in 0..Cap
  BY Constants DEF TypeOK, FramesThere
<1>2. PICK d \in Int : d = write - read
  BY <1>1
<1>3. 0 <= d /\ d < Word
  BY <1>1, <1>2, Constants
<1>4. d % Word = d
  BY <1>3, Constants, ModNear
<1> QED
  BY <1>1, <1>2, <1>4 DEF Queued, Minus

\* The copy of a submission that has room writes over no frame that is
\* still to be played (audio_engine.cpp:71).
LEMMA CopyPlaces ==
  ASSUME TypeOK, FramesThere, NEW t \in Threads, Copy(t), write + local[t].length <= read + Cap
  PROVE  \A f \in read..(write + local[t].length - 1) : samples'[f % Cap] = f
<1> DEFINE length == local[t].length
<1>1. write \in Nat /\ read \in Nat /\ length \in 0..Cap /\ read <= write /\ Cap \in Nat \ {0}
  BY SubmitTyped, Constants DEF TypeOK, FramesThere
<1> SUFFICES ASSUME NEW f \in read..(write + length - 1) PROVE samples'[f % Cap] = f
  OBVIOUS
<1>2. f \in Int /\ f % Cap \in 0..(Cap - 1)
  <2>1. f \in Int
    BY <1>1
  <2> QED
    BY <1>1, <2>1, ModQuotient
<1>3. ((f % Cap) - write) % Cap = (f - write) % Cap
  <2>1. f \in Int /\ write \in Int /\ Cap \in Nat \ {0}
    BY <1>1, <1>2
  <2> QED
    BY <2>1, ModOfDifference, Zenon
<1>4. samples'[f % Cap] =
        LET i == ((f % Cap) - write) % Cap IN IF i < length THEN write + i ELSE samples[f % Cap]
  <2>1. f % Cap \in DOMAIN samples
    BY <1>2 DEF TypeOK
  <2> QED
    BY <2>1 DEF Copy
<1>5. CASE f < write
  <2>1. f - write \in Int /\ -Cap <= f - write /\ f - write < 0
    BY <1>1, <1>5
  <2>2. (f - write) % Cap = f - write + Cap
    BY <1>1, <2>1, ModNear
  <2>3. ~((f - write) % Cap < length)
    BY <1>1, <2>2
  <2>4. samples[f % Cap] = f
    BY <1>1, <1>5 DEF FramesThere
  <2> QED
    BY <1>3, <1>4, <2>3, <2>4
<1>6. CASE ~(f < write)
  <2>1. f - write \in Int /\ 0 <= f - write /\ f - write < Cap
    BY <1>1, <1>6
  <2>2. (f - write) % Cap = f - write
    BY <1>1, <2>1, ModNear
  <2>3. f - write < length /\ write + (f - write) = f
    BY <1>1, <1>6
  <2> QED
    BY <1>3, <1>4, <2>2, <2>3
<1> QED
  BY <1>5, <1>6

\* A step inside of no submission.
SubmitPCs == {"copy", "publish", "account"}
SubmissionsKept ==
    \A t \in Threads :
      pc[t] \in SubmitPCs \/ pc'[t] \in SubmitPCs => pc'[t] = pc[t] /\ local'[t] = local[t]

\* Such a step leaves what is published and not counted.
LEMMA UnaccountedKept ==
  ASSUME MutexPlace, MutexPlace', SubmissionsKept
  PROVE  Unaccounted' = Unaccounted
<1>1. \A t \in Threads : (mutex = t /\ pc[t] = "account") <=> (mutex' = t /\ pc'[t] = "account")
  BY DEF MutexPlace, MutexPCs, SubmissionsKept, SubmitPCs, Actors
<1>2. \A t \in Threads : pc[t] = "account" => local'[t] = local[t]
  BY DEF SubmissionsKept, SubmitPCs
<1>3. CASE mutex \in Threads /\ pc[mutex] = "account"
  <2>1. mutex' = mutex /\ pc'[mutex] = "account" /\ local'[mutex] = local[mutex]
    BY <1>1, <1>2, <1>3
  <2> QED
    BY <1>3, <2>1 DEF Unaccounted
<1>4. CASE ~(mutex \in Threads /\ pc[mutex] = "account")
  <2>1. ~(mutex' \in Threads /\ pc'[mutex'] = "account")
    BY <1>1, <1>4
  <2> QED
    BY <1>4, <2>1 DEF Unaccounted
<1> QED
  BY <1>3, <1>4

\* Nor does it disturb a submission, if it leaves indices and slots.
LEMMA SubmissionsUndisturbed ==
  ASSUME RingKept, SubmissionsKept, UNCHANGED <<write, read, samples>>
  PROVE  FramesThere' /\ RoomKept' /\ CopiedThere'
<1>1. FramesThere'
  BY DEF RingKept, FramesThere
<1>2. RoomKept'
  BY DEF RingKept, RoomKept, SubmissionsKept, SubmitPCs
<1>3. CopiedThere'
  BY DEF RingKept, CopiedThere, SubmissionsKept, SubmitPCs
<1> QED
  BY <1>1, <1>2, <1>3

\* A step that touches neither a submission, an index, a slot nor a counter.
LEMMA QuietStep ==
  ASSUME MutexPlace, MutexPlace', RingKept, SubmissionsKept,
         UNCHANGED <<write, read, samples, queued, cpc, cwrite, cread, take, played, dropped>>
  PROVE  RingKept'
<1>1. FramesThere' /\ RoomKept' /\ CopiedThere'
  BY SubmissionsUndisturbed
<1>2. CallbackPlace'
  BY DEF RingKept, CallbackPlace
<1>3. Counted'
  BY UnaccountedKept DEF RingKept, Counted, Balance, Uncounted
<1>4. PassedOnce'
  BY DEF RingKept, PassedOnce, Passed
<1> QED
  BY <1>1, <1>2, <1>3, <1>4 DEF RingKept

\* Nothing is being submitted when the mutex is free or another's.
LEMMA NoSubmission ==
  ASSUME MutexPlace, mutex \notin Threads \/ pc[mutex] \notin SubmitPCs
  PROVE  Unaccounted = 0 /\ \A t \in Threads : pc[t] \notin SubmitPCs
  BY DEF Unaccounted, SubmitPCs, MutexPlace, MutexPCs, Actors

\* A reset that overlaps neither a submission nor a callback.
LEMMA DiscardStep ==
  ASSUME TypeOK, RingKept, Discard(read, TRUE), cpc = "idle", cpc' = "idle",
         Unaccounted = 0, Unaccounted' = 0, \A t \in Threads : pc'[t] \notin SubmitPCs,
         UNCHANGED <<write, samples, played>>
  PROVE  RingKept'
<1>1. /\ Minus(write, read) = write - read /\ write \in Nat /\ read \in Nat
      /\ read <= write /\ write <= read + Cap
  BY QueuedExact DEF RingKept, FramesThere
<1>2. read' = write /\ write' = write
  BY <1>1 DEF Discard
<1>3. FramesThere' /\ RoomKept' /\ CopiedThere' /\ CallbackPlace'
  BY <1>1, <1>2, Constants DEF FramesThere, RoomKept, CopiedThere, CallbackPlace, SubmitPCs
<1>4. queued = write - read
  BY <1>1 DEF RingKept, Counted, Balance, Uncounted
<1>5. queued' = 0
  <2>1. queued' = Minus(write - read, write - read)
    BY <1>1, <1>4 DEF Discard
  <2>2. Minus(write - read, write - read) = 0 % Word
    BY <1>1 DEF Minus
  <2>3. 0 % Word = 0
    BY Constants, ModNear
  <2> QED
    BY <2>1, <2>2, <2>3
<1>6. Counted'
  BY <1>1, <1>2, <1>5 DEF Counted, Balance, Uncounted
<1>7. PassedOnce'
  <2>1. dropped' = dropped \cup ((read..(write - 1)) \ played)
    BY DEF Discard
  <2>2. played \cap dropped = {} /\ played \cup dropped = 0..(read - 1)
    BY DEF RingKept, PassedOnce, Passed
  <2>3. 0..(write - 1) = (0..(read - 1)) \cup (read..(write - 1))
    BY <1>1
  <2>4. played' \cap dropped' = {} /\ played' \cup dropped' = 0..(write - 1)
    BY <2>1, <2>2, <2>3
  <2> QED
    BY <1>2, <2>4 DEF PassedOnce, Passed
<1> QED
  BY <1>3, <1>6, <1>7 DEF RingKept

-----------------------------------------------------------------------------
(* The steps of submit *)

\* The numbers of a clean state.
LEMMA RingNumbers ==
  ASSUME TypeOK, RingKept
  PROVE  /\ write \in Nat /\ read \in Nat /\ read <= write /\ write <= read + Cap
         /\ Cap \in Nat \ {0} /\ take \in Nat /\ take <= Period
         /\ Unaccounted \in Nat /\ Unaccounted <= Cap
         /\ Word \in Nat \ {0} /\ Period \in Nat /\ Word > Period + Cap /\ queued \in Nat /\ queued < Word
<1>1. Unaccounted \in 0..Cap
  BY SubmitTyped, Constants DEF Unaccounted
<1>2. /\ write \in Nat /\ read \in Nat /\ take \in 0..Period
      /\ queued \in 0..(Word - 1)
  BY DEF TypeOK
<1> QED
  BY <1>1, <1>2, Constants DEF RingKept, FramesThere

\* The queued frames leave room: they will still when these are published.
LEMMA RoomStep ==
  ASSUME TypeOK, MutexPlace, MutexPlace', RingKept, NEW t \in Threads, Room(t)
  PROVE  RingKept'
<1>0. DOMAIN pc = Actors /\ t \in Actors
  BY DEF TypeOK, Actors
<1>1. /\ UNCHANGED <<local, write, read, samples, mutex, queued, cpc, cwrite, cread, take, played, dropped>>
      /\ pc' = [pc EXCEPT ![t] = "copy"] /\ pc[t] = "room"
  BY DEF Room, Goto, locals, ring, call, hist
<1>2. \A u \in Threads : u # t => pc'[u] = pc[u]
  BY <1>0, <1>1
<1>3. \A u \in Threads : u # t => pc[u] \notin MutexPCs
  BY <1>1, OneSubmits DEF MutexPCs, Actors
<1>4. FramesThere' /\ CallbackPlace' /\ PassedOnce'
  BY <1>1 DEF RingKept, FramesThere, CallbackPlace, PassedOnce, Passed
<1>5. write + local[t].length <= read + Cap
  BY QueuedExact, SubmitTyped, Constants DEF Room, HasCapacity, RingKept
<1>6. RoomKept' /\ CopiedThere'
  BY <1>0, <1>1, <1>2, <1>3, <1>5 DEF RoomKept, CopiedThere, MutexPCs
<1>7. Unaccounted' = Unaccounted
  BY <1>0, <1>1 DEF Unaccounted, MutexPlace, MutexPCs
<1>8. Counted'
  BY <1>1, <1>7 DEF RingKept, Counted, Balance, Uncounted
<1> QED
  BY <1>4, <1>6, <1>8 DEF RingKept

\* The frames are copied before the index is published.
LEMMA CopyStep ==
  ASSUME TypeOK, MutexPlace, MutexPlace', RingKept, NEW t \in Threads, Copy(t)
  PROVE  RingKept'
<1>0. DOMAIN pc = Actors /\ t \in Actors /\ local \in [Threads -> Locals]
  BY DEF TypeOK, Actors
<1>1. /\ UNCHANGED <<write, read, mutex, queued, cpc, cwrite, cread, take, played, dropped>>
      /\ pc' = [pc EXCEPT ![t] = "publish"] /\ pc[t] = "copy"
      /\ local' = [local EXCEPT ![t].at = write]
  BY DEF Copy, Goto, call, hist
<1>2. \A u \in Threads : u # t => pc'[u] = pc[u] /\ local'[u] = local[u]
  BY <1>0, <1>1
<1>3. \A u \in Threads : u # t => pc[u] \notin MutexPCs
  BY <1>1, OneSubmits DEF MutexPCs, Actors
<1>4. local'[t].length = local[t].length /\ local'[t].at = write
  BY <1>0, <1>1 DEF Locals
<1>5. write + local[t].length <= read + Cap
  BY <1>1 DEF RingKept, RoomKept
<1>6. \A f \in read..(write + local[t].length - 1) : samples'[f % Cap] = f
  BY <1>5, CopyPlaces DEF RingKept
<1>7. /\ \A f \in read..(write - 1) : samples'[f % Cap] = f
      /\ \A f \in write..(write + local[t].length - 1) : samples'[f % Cap] = f
  <2>1. write \in Nat /\ read \in Nat /\ read <= write /\ local[t].length \in Nat
    BY RingNumbers, SubmitTyped
  <2> QED
    BY <1>6, <2>1
<1>8. FramesThere'
  BY <1>1, <1>7 DEF RingKept, FramesThere
<1>9. RoomKept'
  BY <1>0, <1>1, <1>2, <1>3, <1>4, <1>5 DEF RoomKept, MutexPCs
<1>10. CopiedThere'
  BY <1>0, <1>1, <1>2, <1>3, <1>4, <1>7 DEF CopiedThere, MutexPCs
<1>11. CallbackPlace' /\ PassedOnce'
  BY <1>1 DEF RingKept, CallbackPlace, PassedOnce, Passed
<1>12. Unaccounted' = Unaccounted
  BY <1>0, <1>1 DEF Unaccounted, MutexPlace, MutexPCs
<1>13. Counted'
  BY <1>1, <1>12 DEF RingKept, Counted, Balance, Uncounted
<1> QED
  BY <1>8, <1>9, <1>10, <1>11, <1>13 DEF RingKept

\* What is published is there, and no more than the ring holds.
LEMMA PublishStep ==
  ASSUME TypeOK, MutexPlace, MutexPlace', RingKept, NEW t \in Threads, Publish(t)
  PROVE  RingKept'
<1> DEFINE length == local[t].length
<1>0. DOMAIN pc = Actors /\ t \in Actors
  BY DEF TypeOK, Actors
<1>1. /\ UNCHANGED <<local, read, samples, mutex, queued, cpc, cwrite, cread, take, played, dropped>>
      /\ pc' = [pc EXCEPT ![t] = "account"] /\ pc[t] = "publish"
      /\ write' = local[t].at + length
  BY DEF Publish, Goto, locals, call, hist
<1>2. \A u \in Threads : pc'[u] \notin {"copy", "publish"}
  BY <1>0, <1>1, OneSubmits DEF MutexPCs, Actors
<1>3. mutex = t /\ mutex' = t /\ pc'[t] = "account"
  BY <1>0, <1>1 DEF MutexPlace, MutexPCs
<1>4. /\ local[t].at = write /\ write + length <= read + Cap
      /\ \A f \in write..(write + length - 1) : samples[f % Cap] = f
  BY <1>1 DEF RingKept, RoomKept, CopiedThere
<1>5. length \in Nat /\ write' = write + length
  BY <1>1, <1>4, SubmitTyped, Constants
<1>6. FramesThere'
  <2>1. read <= write' /\ write' <= read + Cap
    BY <1>4, <1>5, RingNumbers
  <2>2. \A f \in read..(write + length - 1) : f \in read..(write - 1) \/ f \in write..(write + length - 1)
    BY <1>5, RingNumbers
  <2>3. \A f \in read..(write + length - 1) : samples[f % Cap] = f
    BY <1>4, <2>2 DEF RingKept, FramesThere
  <2>4. PICK w \in Int : w = write + length
    BY <1>5, RingNumbers
  <2>5. \A f \in read..(w - 1) : samples[f % Cap] = f
    BY <1>5, <2>3, <2>4, RingNumbers
  <2>6. read' = read /\ samples' = samples /\ write' = w
    BY <1>1, <1>5, <2>4
  <2>7. \A f \in read'..(write' - 1) : samples'[f % Cap] = f
    BY <2>5, <2>6, Zenon
  <2> QED
    BY <1>1, <2>1, <2>7 DEF FramesThere
<1>7. RoomKept' /\ CopiedThere'
  BY <1>2 DEF RoomKept, CopiedThere
<1>8. CallbackPlace'
  <2>1. cwrite \in Nat /\ cread \in Nat /\ take \in Nat /\ write \in Nat
    BY RingNumbers DEF TypeOK
  <2>2. write <= write' /\ write' \in Nat
    BY <1>5, <2>1
  <2> QED
    BY <1>1, <2>1, <2>2 DEF RingKept, CallbackPlace
<1>9. Unaccounted = 0 /\ Unaccounted' = length
  BY <1>1, <1>3 DEF Unaccounted
<1>10. Counted'
  <2>1. Uncounted' = Uncounted /\ Uncounted \in Nat
    BY <1>1, RingNumbers DEF Uncounted
  <2>2. Balance = (write - read) - 0 + Uncounted /\ Balance' = (write' - read) - length + Uncounted
    BY <1>1, <1>9, <2>1 DEF Balance
  <2>3. Balance' = Balance
    BY <1>5, <2>1, <2>2, RingNumbers
  <2> QED
    BY <1>1, <2>3 DEF RingKept, Counted
<1>11. PassedOnce'
  BY <1>1 DEF RingKept, PassedOnce, Passed
<1> QED
  BY <1>6, <1>7, <1>8, <1>10, <1>11 DEF RingKept

\* Counting what was published, perhaps after it was played.
LEMMA AccountStep ==
  ASSUME TypeOK, MutexPlace, MutexPlace', RingKept, NEW t \in Threads, Account(t)
  PROVE  RingKept'
<1> DEFINE length == local[t].length
<1>0. DOMAIN pc = Actors /\ t \in Actors
  BY DEF TypeOK, Actors
<1>1. /\ UNCHANGED <<write, read, samples, cpc, cwrite, cread, take, played, dropped>>
      /\ pc[t] = "account" /\ queued' = (queued + length) % Word
      /\ \E p \in {"drain", "idle"} : pc' = [pc EXCEPT ![t] = p]
  BY DEF Account, Goto, Return, call, hist
<1>2. \A u \in Threads : pc'[u] \notin SubmitPCs
  BY <1>0, <1>1, OneSubmits DEF MutexPCs, SubmitPCs, Actors
<1>3. mutex = t
  BY <1>0, <1>1 DEF MutexPlace, MutexPCs
<1>4. FramesThere' /\ RoomKept' /\ CopiedThere' /\ CallbackPlace' /\ PassedOnce'
  BY <1>1, <1>2 DEF RingKept, FramesThere, RoomKept, CopiedThere, CallbackPlace, PassedOnce, Passed,
                    SubmitPCs
<1>5. Unaccounted = length /\ Unaccounted' = 0
  BY <1>1, <1>2, <1>3 DEF Unaccounted, SubmitPCs
<1>6. Counted'
  <2>1. /\ Uncounted' = Uncounted /\ Uncounted \in Nat /\ Uncounted <= Period
        /\ length \in Nat /\ length <= Cap
    BY <1>1, <1>5, RingNumbers DEF Uncounted
  <2>2. PICK b \in Int : b = (write - read) + Uncounted
    BY <2>1, RingNumbers
  <2>3. Balance = b - length /\ Balance' = b
    <3>1. Balance = (write - read) - length + Uncounted /\ Balance' = (write - read) - 0 + Uncounted
      BY <1>1, <1>5, <2>1 DEF Balance
    <3> QED
      BY <2>1, <2>2, <3>1, RingNumbers
  <2>4. 0 <= b /\ b < Word
    BY <2>1, <2>2, RingNumbers
  <2>5. queued = IF b - length < 0 THEN (b - length) + Word ELSE b - length
    BY <2>3 DEF RingKept, Counted
  <2>6. PICK q \in Int : q = queued + length
    BY <2>1, RingNumbers
  <2>7. q = b \/ q = b + Word
    BY <2>1, <2>5, <2>6, RingNumbers
  <2>8. q % Word = b
    BY <2>4, <2>7, RingNumbers, ModNear
  <2>9. queued' = b
    BY <1>1, <2>6, <2>8
  <2> QED
    BY <2>3, <2>4, <2>9 DEF Counted
<1> QED
  BY <1>4, <1>6 DEF RingKept

-----------------------------------------------------------------------------
(* The steps of consume *)

\* The callback changes nothing of the submissions.
LEMMA CallbackQuiet ==
  ASSUME UNCHANGED guests
  PROVE  SubmissionsKept
  BY DEF guests, locals, SubmissionsKept

\* The write index the callback loads can only grow after.
LEMMA LoadWriteStep ==
  ASSUME TypeOK, MutexPlace, MutexPlace', RingKept, LoadWrite
  PROVE  RingKept'
<1>1. /\ UNCHANGED <<write, read, samples, mutex, queued, cread, take, played, dropped>>
      /\ cpc = "idle" /\ cpc' = "load" /\ cwrite' = write /\ SubmissionsKept
  BY CallbackQuiet DEF LoadWrite, ring, hist
<1>2. FramesThere' /\ RoomKept' /\ CopiedThere'
  BY <1>1, SubmissionsUndisturbed
<1>3. CallbackPlace'
  BY <1>1, RingNumbers DEF CallbackPlace
<1>4. Counted' /\ PassedOnce'
  BY <1>1, UnaccountedKept DEF RingKept, Counted, Balance, Uncounted, PassedOnce, Passed
<1> QED
  BY <1>2, <1>3, <1>4 DEF RingKept

\* consume takes no more than there is (audio_engine.cpp:128).
LEMMA LoadReadStep ==
  ASSUME TypeOK, MutexPlace, MutexPlace', RingKept, LoadRead
  PROVE  RingKept'
<1>1. /\ UNCHANGED <<write, read, samples, mutex, queued, played, dropped>>
      /\ cpc = "load" /\ cpc' \in {"idle", "mix"} /\ SubmissionsKept
  BY CallbackQuiet DEF LoadRead, ring, hist
<1>2. FramesThere' /\ RoomKept' /\ CopiedThere'
  BY <1>1, SubmissionsUndisturbed
<1>3. CallbackPlace'
  <2>1. CASE cwrite = read
    BY <2>1 DEF LoadRead, CallbackPlace
  <2>2. CASE cwrite # read
    <3>1. /\ cread' = read /\ cpc' = "mix"
          /\ take' = Consumed(Minus(cwrite, read))
      BY <2>2 DEF LoadRead
    <3>2. cwrite \in Nat /\ read <= cwrite /\ cwrite <= write
      BY <1>1 DEF RingKept, CallbackPlace, TypeOK
    <3>3. PICK d \in Int : d = cwrite - read
      BY <3>2, RingNumbers
    <3>4. 0 <= d /\ d < Word
      BY <3>2, <3>3, RingNumbers
    <3>5. d % Word = d
      BY <3>4, RingNumbers, ModNear
    <3>6. take' = Consumed(d)
      BY <3>1, <3>3, <3>5 DEF Minus
    <3>7. take' \in Int /\ take' <= d
      BY <3>3, <3>6, RingNumbers DEF Consumed
    <3>8. cread' + take' <= write
      BY <3>1, <3>2, <3>3, <3>7, RingNumbers
    <3> QED
      BY <1>1, <3>1, <3>8 DEF CallbackPlace
  <2> QED
    BY <2>1, <2>2
<1>4. Uncounted = 0 /\ Uncounted' = 0 /\ Passed = read /\ Passed' = read
  BY <1>1 DEF Uncounted, Passed
<1>5. Counted' /\ PassedOnce'
  BY <1>1, <1>4, UnaccountedKept DEF RingKept, Counted, Balance, PassedOnce
<1> QED
  BY <1>2, <1>3, <1>5 DEF RingKept

\* The callback reads the frames from the read index on, in order: what the
\* first property asks.
LEMMA MixesInOrder ==
  ASSUME TypeOK, RingKept, cpc = "mix"
  PROVE  cread = read /\ Mixing = read..(read + take - 1)
<1>1. cread = read /\ read + take <= write
  BY DEF RingKept, CallbackPlace
<1>2. \A i \in 0..(take - 1) : samples[(read + i) % Cap] = read + i
  <2>1. \A i \in 0..(take - 1) : read + i \in read..(write - 1)
    BY <1>1, RingNumbers
  <2> QED
    BY <2>1 DEF RingKept, FramesThere
<1>3. Mixing = {read + i : i \in 0..(take - 1)}
  BY <1>1, <1>2 DEF Mixing
<1>4. {read + i : i \in 0..(take - 1)} = read..(read + take - 1)
  <2>1. ASSUME NEW f \in read..(read + take - 1)
        PROVE  \E i \in 0..(take - 1) : f = read + i
    <3>1. f - read \in 0..(take - 1) /\ f = read + (f - read)
      BY RingNumbers
    <3> QED
      BY <3>1
  <2>2. \A i \in 0..(take - 1) : read + i \in read..(read + take - 1)
    BY RingNumbers
  <2> QED
    BY <2>1, <2>2
<1> QED
  BY <1>1, <1>3, <1>4

\* Mixing plays the next frames, for the first time.
LEMMA MixStep ==
  ASSUME TypeOK, MutexPlace, MutexPlace', RingKept, clean, Mix
  PROVE  RingKept'
<1>1. /\ UNCHANGED <<write, read, samples, mutex, queued, cwrite, cread, take, dropped>>
      /\ cpc = "mix" /\ cpc' = "store" /\ SubmissionsKept
      /\ played' = played \cup Mixing
  BY CallbackQuiet DEF Mix, ring
<1>2. FramesThere' /\ RoomKept' /\ CopiedThere'
  BY <1>1, SubmissionsUndisturbed
<1>3. CallbackPlace'
  BY <1>1 DEF RingKept, CallbackPlace
<1>4. Counted'
  BY <1>1, UnaccountedKept DEF RingKept, Counted, Balance, Uncounted
<1>5. PassedOnce'
  <2>1. played \cap dropped = {} /\ played \cup dropped = 0..(read - 1)
    BY <1>1 DEF RingKept, PassedOnce, Passed
  <2>2. cread = read /\ Mixing = read..(read + take - 1)
    BY <1>1, MixesInOrder
  <2>3. PICK m \in Int : m = read + take
    BY RingNumbers
  <2>4. /\ 0..(m - 1) = (0..(read - 1)) \cup (read..(m - 1))
        /\ (0..(read - 1)) \cap (read..(m - 1)) = {}
    BY <2>3, RingNumbers
  <2>5. played' \cap dropped' = {} /\ played' \cup dropped' = 0..(m - 1)
    <3>1. PICK older : older = 0..(read - 1)
      OBVIOUS
    <3>2. PICK newer : newer = read..(m - 1)
      OBVIOUS
    <3>3. Mixing = newer
      BY RingNumbers, <2>2, <2>3, <3>2
    <3>4. older \cap newer = {} /\ played \cap dropped = {} /\ played \cup dropped = older
      BY <2>1, <2>4, <3>1, <3>2
    <3>5. played' = played \cup newer /\ dropped' = dropped
      BY <1>1, <3>3
    <3>6. played' \cap dropped' = {} /\ played' \cup dropped' = older \cup newer
      BY <3>4, <3>5
    <3> QED
      BY <2>4, <3>1, <3>2, <3>6
  <2>6. Passed' = m
    BY <1>1, <2>2, <2>3 DEF Passed
  <2> QED
    BY <2>5, <2>6 DEF PassedOnce
<1> QED
  BY <1>2, <1>3, <1>4, <1>5 DEF RingKept

\* The read index passes exactly the frames mixed.
LEMMA StoreReadStep ==
  ASSUME TypeOK, MutexPlace, MutexPlace', RingKept, StoreRead
  PROVE  RingKept'
<1>1. /\ UNCHANGED <<write, samples, mutex, queued, local, cwrite, cread, take, played, dropped>>
      /\ cpc = "store" /\ cpc' = "account" /\ UNCHANGED pc
      /\ read' = cread + take
  BY DEF StoreRead, hist, guests, locals
<1>2. /\ cread = read /\ read' = read + take
      /\ read + take <= write
  BY <1>1 DEF RingKept, CallbackPlace
<1>3. read' \in Nat /\ read <= read' /\ read' <= write
  BY <1>2, RingNumbers
<1>4. FramesThere'
  BY <1>1, <1>3, RingNumbers DEF RingKept, FramesThere
<1>5. RoomKept'
  <2> SUFFICES ASSUME NEW t \in Threads, pc[t] \in {"copy", "publish"}
               PROVE  write + local[t].length <= read' + Cap
    BY <1>1 DEF RoomKept
  <2>1. write + local[t].length <= read + Cap /\ local[t].length \in Nat
    BY SubmitTyped, Constants DEF RingKept, RoomKept
  <2> QED
    BY <1>3, <2>1, RingNumbers
<1>6. CopiedThere'
  BY <1>1 DEF RingKept, CopiedThere
<1>7. CallbackPlace'
  BY <1>1 DEF CallbackPlace
<1>8. Counted'
  <2>1. Unaccounted' = Unaccounted /\ Uncounted = 0 /\ Uncounted' = take
    BY <1>1 DEF Unaccounted, Uncounted
  <2>2. Balance = (write - read) - Unaccounted + 0 /\ Balance' = (write - (read + take)) - Unaccounted + take
    BY <1>1, <1>2, <2>1 DEF Balance
  <2>3. Balance' = Balance
    BY <2>2, RingNumbers
  <2> QED
    BY <1>1, <2>3 DEF RingKept, Counted
<1>9. PassedOnce'
  BY <1>1 DEF RingKept, PassedOnce, Passed
<1> QED
  BY <1>4, <1>5, <1>6, <1>7, <1>8, <1>9 DEF RingKept

\* Counting what was consumed, perhaps before it was counted as queued.
LEMMA AccountReadStep ==
  ASSUME TypeOK, MutexPlace, MutexPlace', RingKept, AccountRead
  PROVE  RingKept'
<1>1. /\ UNCHANGED <<write, read, samples, mutex, cwrite, played, dropped>>
      /\ cpc = "account" /\ cpc' = "idle" /\ SubmissionsKept
      /\ queued' = Minus(queued, take)
  BY CallbackQuiet DEF AccountRead, hist
<1>2. FramesThere' /\ RoomKept' /\ CopiedThere'
  BY <1>1, SubmissionsUndisturbed
<1>3. CallbackPlace' /\ PassedOnce'
  BY <1>1 DEF CallbackPlace, RingKept, PassedOnce, Passed
<1>4. Counted'
  <2>1. Unaccounted' = Unaccounted /\ Uncounted = take /\ Uncounted' = 0
    BY <1>1, UnaccountedKept DEF Uncounted
  <2>2. PICK b \in Int : b = (write - read) - Unaccounted
    BY RingNumbers
  <2>3. Balance = b + take /\ Balance' = b
    <3>1. Balance = (write - read) - Unaccounted + take /\ Balance' = (write - read) - Unaccounted + 0
      BY <1>1, <2>1 DEF Balance
    <3> QED
      BY <2>2, <3>1, RingNumbers
  <2>4. -Word < b /\ b < Word
    BY <2>2, RingNumbers
  <2>5. queued = IF b + take < 0 THEN (b + take) + Word ELSE b + take
    BY <2>3 DEF RingKept, Counted
  <2>6. PICK q \in Int : q = queued - take
    BY RingNumbers
  <2>7. q = b \/ q = b + Word
    BY <2>5, <2>6, RingNumbers
  <2>8. CASE b < 0
    <3>1. q % Word = b + Word
      BY <2>4, <2>7, <2>8, RingNumbers, ModNear
    <3> QED
      BY <1>1, <2>3, <2>6, <2>8, <3>1 DEF Counted, Minus
  <2>9. CASE ~(b < 0)
    <3>1. q % Word = b
      BY <2>4, <2>7, <2>9, RingNumbers, ModNear
    <3> QED
      BY <1>1, <2>3, <2>6, <2>9, <3>1 DEF Counted, Minus
  <2> QED
    BY <2>8, <2>9
<1> QED
  BY <1>2, <1>3, <1>4 DEF RingKept

-----------------------------------------------------------------------------
(* Resets, and the induction *)

\* A device is reconfigured with nobody in a submission or a callback.
LEMMA ConfigureStep ==
  ASSUME TypeOK, MutexPlace, MutexPlace', RingKept, clean, NEW t \in Threads,
         Configure(t) \/ ConfigureFails(t)
  PROVE  RingKept'
<1>0. DOMAIN pc = Actors /\ t \in Actors /\ DOMAIN local = Threads
  BY DEF TypeOK, Actors
<1>1. /\ UNCHANGED <<write, samples, mutex, cpc, cwrite, cread, take, played>>
      /\ \E p \in {"submit", "idle"} : pc' = [pc EXCEPT ![t] = p]
      /\ pc[t] = "configure" /\ \A u \in Threads : u # t => local'[u] = local[u]
  BY <1>0 DEF Configure, ConfigureFails, Goto, Return, call, locals
<1>2. SubmissionsKept
  BY <1>0, <1>1 DEF SubmissionsKept, SubmitPCs, Actors
<1>3. CASE device # "failed"
  <2>1. UNCHANGED <<read, queued, dropped>>
    BY <1>3 DEF Configure, ConfigureFails
  <2> QED
    BY <1>1, <1>2, <2>1, QuietStep
<1>4. CASE device = "failed"
  <2>1. Discard(read, TRUE) /\ mutex = NoThread /\ cpc = "idle"
    BY <1>4 DEF Configure, ConfigureFails, Discard
  <2>2. mutex \notin Threads /\ mutex' \notin Threads
    BY <1>1, <2>1, Constants DEF Actors
  <2>3. Unaccounted = 0 /\ \A u \in Threads : pc[u] \notin SubmitPCs
    BY <2>2, NoSubmission
  <2>4. Unaccounted' = 0 /\ \A u \in Threads : pc'[u] \notin SubmitPCs
    BY <1>2, <2>2, <2>3 DEF Unaccounted, SubmissionsKept
  <2> QED
    BY <1>1, <2>1, <2>3, <2>4, DiscardStep
<1> QED
  BY <1>3, <1>4

\* A clean reset starts with the callback idle.
LEMMA ResetLoadStep ==
  ASSUME TypeOK, MutexPlace, MutexPlace', RingKept, clean', NEW a \in Actors, ResetLoad(a)
  PROVE  RingKept'
<1>0. DOMAIN pc = Actors
  BY DEF TypeOK
<1>1. /\ UNCHANGED <<local, write, read, samples, queued, cpc, cwrite, cread, take>>
      /\ pc[a] = "reset" /\ pc' = [pc EXCEPT ![a] = "discard"]
      /\ UNCHANGED <<played, dropped>>
  BY DEF ResetLoad, Goto, call, Overlap
<1>2. SubmissionsKept
  BY <1>0, <1>1 DEF SubmissionsKept, SubmitPCs, Actors
<1> QED
  BY <1>1, <1>2, QuietStep

\* A clean reset discards from the index it read (audio_engine.cpp:187).
LEMMA ResetStoreStep ==
  ASSUME TypeOK, MutexPlace, MutexPlace', RingKept, clean', NEW a \in Actors, ResetStore(a)
  PROVE  RingKept'
<1>0. DOMAIN pc = Actors
  BY DEF TypeOK
<1>1. /\ UNCHANGED <<local, write, samples, cpc, cwrite, cread, take>>
      /\ pc[a] = "discard" /\ pc' = [pc EXCEPT ![a] = IF a = Host THEN "stop" ELSE "idle"]
      /\ mutex' = NoThread
  BY DEF ResetStore, Goto, call
<1>2. clean' = (clean /\ ~(cpc # "idle" \/ saw[a] # read))
  BY DEF ResetStore, Overlap
<1>3. cpc = "idle" /\ saw[a] = read
  BY <1>2
<1>4. UNCHANGED played
  BY DEF ResetStore, Overlap
<1>5. Discard(read, clean')
  BY <1>3 DEF ResetStore
<1>6. Discard(read, TRUE)
  BY <1>5 DEF Discard
<1>7. \A t \in Threads : pc[t] \notin SubmitPCs
  <2>1. mutex = a
    BY <1>1 DEF MutexPlace, MutexPCs
  <2> QED
    BY <1>1, <2>1 DEF MutexPlace, MutexPCs, SubmitPCs, Actors
<1>8. Unaccounted = 0
  BY <1>7 DEF Unaccounted, SubmitPCs
<1>9. \A t \in Threads : pc'[t] \notin SubmitPCs
  BY <1>0, <1>1, <1>7 DEF SubmitPCs, Actors
<1>10. Unaccounted' = 0
  BY <1>9 DEF Unaccounted, SubmitPCs
<1> QED
  BY <1>1, <1>3, <1>4, <1>6, <1>8, <1>9, <1>10, DiscardStep

\* The steps of a guest thread that touch neither index, slot nor counter.
LEMMA GuestQuietStep ==
  ASSUME TypeOK, MutexPlace, MutexPlace', RingKept, NEW t \in Threads,
         \/ NoRoom(t) \/ AwaitRoom(t) \/ Drain(t) \/ Submit(t) \/ Wake(t) \/ Guest(t)
  PROVE  RingKept'
<1>0. DOMAIN pc = Actors /\ t \in Actors /\ DOMAIN local = Threads
  BY DEF TypeOK, Actors
<1>1. /\ UNCHANGED <<write, read, samples, queued, cpc, cwrite, cread, take, played, dropped>>
      /\ pc[t] \notin SubmitPCs
      /\ \E p : p \notin SubmitPCs /\ pc' = [pc EXCEPT ![t] = p]
      /\ \A u \in Threads : u # t => local'[u] = local[u]
  BY <1>0 DEF NoRoom, AwaitRoom, Drain, Submit, Wake, Guest, Reserve, Output, Enter, Goto, Return,
              locals, ring, call, hist, SubmitPCs
<1>2. SubmissionsKept
  BY <1>0, <1>1 DEF SubmissionsKept, Actors
<1> QED
  BY <1>1, <1>2, QuietStep

\* The device failing, the host's own steps, and steps that change nothing.
LEMMA HostQuietStep ==
  ASSUME TypeOK, MutexPlace, MutexPlace', RingKept,
         DeviceFails \/ Shutdown \/ StopDevice \/ Joined \/ UNCHANGED vars
  PROVE  RingKept'
<1>0. DOMAIN pc = Actors /\ Host \in Actors
  BY DEF TypeOK, Actors
<1>1. /\ UNCHANGED <<write, read, samples, queued, cpc, cwrite, cread, take, played, dropped, local>>
      /\ \A t \in Threads : pc'[t] = pc[t]
  BY <1>0, Constants DEF DeviceFails, Shutdown, StopDevice, Joined, vars, Goto, guests, locals, ring, call,
                         hist, Actors
<1>2. SubmissionsKept
  BY <1>1 DEF SubmissionsKept
<1> QED
  BY <1>1, <1>2, QuietStep

\* Once a reset has overlapped a callback it stays so.
LEMMA CleanBefore == TypeOK /\ [Next]_vars /\ clean' => clean
<1> SUFFICES ASSUME TypeOK, [Next]_vars, clean' PROVE clean
  OBVIOUS
<1>1. ASSUME NEW a \in Actors, ResetLoad(a) \/ ResetStore(a) PROVE clean
  BY <1>1 DEF ResetLoad, ResetStore, Overlap
<1>2. ASSUME NEW t \in Threads, Local(t) \/ Locking(t) \/ Guest(t) PROVE clean
  BY <1>1, <1>2 DEF Local, Locking, Guest, Configure, ConfigureFails, Room, NoRoom, AwaitRoom, Copy,
                    Publish, Account, Drain, Submit, Wake, Reserve, Output, hist, Actors
<1>3. CASE LoadWrite \/ Consuming \/ DeviceFails \/ Shutdown \/ StopDevice \/ Joined \/ UNCHANGED vars
  BY <1>3 DEF LoadWrite, Consuming, LoadRead, Mix, StoreRead, AccountRead, DeviceFails, Shutdown,
              StopDevice, Joined, vars, hist
<1> QED
  BY <1>1, <1>2, <1>3 DEF Next, HostSteps, Ended, Actors

\* The induction step.
LEMMA RingStep == RingInv /\ [Next]_vars => RingInv'
<1> SUFFICES ASSUME RingInv, [Next]_vars PROVE RingInv'
  OBVIOUS
<1>1. TypeOK /\ MutexPlace /\ TypeOK' /\ MutexPlace'
  BY TypeStep, MutexStep DEF RingInv
<1>2. SUFFICES ASSUME clean' PROVE RingKept'
  BY <1>1 DEF RingInv
<1>3. clean /\ RingKept
  BY <1>1, <1>2, CleanBefore DEF RingInv
<1>4. ASSUME NEW t \in Threads, Local(t) \/ Locking(t) \/ Guest(t) PROVE RingKept'
  <2>1. t \in Actors
    BY DEF Actors
  <2> QED
    BY <1>1, <1>2, <1>3, <1>4, <2>1, ConfigureStep, RoomStep, CopyStep, PublishStep, AccountStep,
       ResetStoreStep, ResetLoadStep, GuestQuietStep DEF Local, Locking
<1>5. CASE LoadWrite \/ Consuming
  BY <1>1, <1>3, <1>5, LoadWriteStep, LoadReadStep, MixStep, StoreReadStep, AccountReadStep DEF Consuming
<1>6. CASE DeviceFails \/ Shutdown \/ StopDevice \/ Joined \/ UNCHANGED vars
  BY <1>1, <1>3, <1>6, HostQuietStep
<1>7. CASE ResetLoad(Host) \/ ResetStore(Host)
  <2>1. Host \in Actors
    BY DEF Actors
  <2> QED
    BY <1>1, <1>2, <1>3, <1>7, <2>1, ResetLoadStep, ResetStoreStep
<1> QED
  BY <1>4, <1>5, <1>6, <1>7 DEF Next, HostSteps, Ended

\* Initially the ring is empty and nobody is in it.
LEMMA RingInit == Init => RingInv
<1> SUFFICES ASSUME Init PROVE RingInv
  OBVIOUS
<1>1. NoLocals \in Locals
  BY Constants DEF NoLocals, Locals
<1>2. TypeOK
  <2>1. local \in [Threads -> Locals]
    BY <1>1 DEF Init
  <2>2. 0 \in 0..Period /\ 0 \in 0..(Word - 1) /\ Calls \in 0..Calls
    BY Constants
  <2>3. pc \in [Actors -> {"run", "idle"}] /\ saw \in [Actors -> Nat]
    BY DEF Init
  <2>4. samples \in [0..(Cap - 1) -> Nat \cup {NoFrame}]
    BY DEF Init
  <2> QED
    BY <2>1, <2>2, <2>3, <2>4 DEF Init, TypeOK
<1>3. MutexPlace
  BY Constants DEF Init, MutexPlace, MutexPCs, Actors
<1>4. FramesThere /\ RoomKept /\ CopiedThere /\ CallbackPlace
  BY Constants DEF Init, FramesThere, RoomKept, CopiedThere, CallbackPlace, Actors
<1>5. Counted /\ PassedOnce
  <2>1. Unaccounted = 0 /\ Uncounted = 0 /\ Passed = 0 /\ write = 0 /\ read = 0 /\ queued = 0
    BY Constants DEF Init, Unaccounted, Uncounted, Passed, Actors
  <2>2. played = {} /\ dropped = {} /\ 0..(0 - 1) = {}
    BY DEF Init
  <2> QED
    BY <2>1, <2>2 DEF Counted, Balance, PassedOnce
<1> QED
  BY <1>2, <1>3, <1>4, <1>5 DEF RingInv, RingKept

-----------------------------------------------------------------------------
(* Theorems *)

\* The inductive invariant: the mutex is where the code holds it, and as long
\* as no reset has overlapped a callback the frames between the indices are in
\* their slots, room once found is kept, and counter and history are exact up to
\* what is pending (AudioEngine::submit, consume and reset_channel,
\* audio_engine.cpp).
THEOREM RingInvariant == Spec => []RingInv
  BY RingInit, RingStep, PTL DEF Spec

\* Types: in particular queued_frames_ never leaves its width.
THEOREM RingTypes == Spec => []TypeOK
<1>1. RingInv => TypeOK
  BY DEF RingInv
<1> QED
  BY <1>1, RingInvariant, PTL

\* The callback mixes the next frames in order although it shares no lock with
\* submit; a frame the indices have passed was played or discarded, never both
\* and never neither; and with nothing in progress queued_frames_ is the distance
\* of the indices (audio_engine.cpp:71 submit, :128 consume, :187 reset_channel),
\* as long as no reset has overlapped a callback.
THEOREM FramesPlayedOnce == Spec => []PlaysEachFrame
<1>1. RingInv => PlaysEachFrame
  <2> SUFFICES ASSUME RingInv PROVE PlaysEachFrame
    OBVIOUS
  <2>1. PlaysInOrder
    BY MixesInOrder DEF RingInv, PlaysInOrder
  <2>2. EachFrameOnce
    BY DEF RingInv, RingKept, PassedOnce, Passed, EachFrameOnce
  <2>3. QueuedFramesAgree
    <3> SUFFICES ASSUME clean, cpc = "idle", mutex = NoThread PROVE queued = write - read
      BY DEF QueuedFramesAgree
    <3>1. TypeOK /\ RingKept
      BY DEF RingInv
    <3>2. Unaccounted = 0 /\ Uncounted = 0
      BY Constants DEF Unaccounted, Uncounted, Actors
    <3>3. Balance = (write - read) - 0 + 0
      BY <3>2 DEF Balance
    <3> QED
      BY <3>1, <3>3, RingNumbers DEF RingKept, Counted
  <2> QED
    BY <2>1, <2>2, <2>3 DEF PlaysEachFrame
<1> QED
  BY <1>1, RingInvariant, PTL
=============================================================================
