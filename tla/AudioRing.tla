----------------------------- MODULE AudioRing -----------------------------
(***************************************************************************)
(* One channel of the host mixer: AudioEngine::submit, consume and         *)
(* reset_channel (refract/src/host/audio_engine.cpp), the reservation of   *)
(* the channel (stubs/audio/audio_state.hpp) and the life of the host      *)
(* device (host/macos.cpp).                                                *)
(*                                                                         *)
(* Guest threads submit and reset under submit_mutex; the device callback  *)
(* consumes without it, so each of its loads and stores is a step.  Waits  *)
(* poll every millisecond: a waiter may look again at any time.  A frame   *)
(* is the index it was submitted at; the samples themselves, volumes and   *)
(* the mixing with other channels are left out.                            *)
(***************************************************************************)
EXTENDS Integers, FiniteSets

CONSTANTS
    Threads,    \* guest threads
    Host,       \* the main host thread, which shuts the device down
    NoThread,   \* "nobody holds submit_mutex"
    Cap,        \* maximum_frames_per_channel
    Lengths,    \* frames of one output (sample_count)
    Period,     \* frames of one device callback
    Word,       \* modulus of the unsigned counters
    Calls,      \* bound: outputs, reservations and releases of the guest
    ReadLimit   \* bound: no callback starts with read_index_ at or above it

ASSUME AudioAssumption ==
    /\ Host \notin Threads /\ NoThread \notin Threads \cup {Host}
    /\ Cap \in Nat \ {0} /\ Period \in 1..Cap /\ Lengths \subseteq 1..Cap
    /\ ReadLimit \in Nat /\ Word \in Nat /\ Word > ReadLimit + Period + Cap
    /\ Calls \in Nat

VARIABLES
    pc,         \* where each guest thread and the host are
    local,      \* the locals of each thread's submit
    saw,        \* cur_r of each reset in progress
    calls,      \* calls left to the guest (bounded by Calls)
    write,      \* write_index_
    read,       \* read_index_
    samples,    \* the frame in each slot of the ring
    mutex,      \* holder of submit_mutex
    queued,     \* queued_frames_, here of this channel alone
    reserved,   \* audio_state::Channel::reserved
    device,     \* "running", "failed" or "stopped"
    cpc,        \* where the callback is
    cwrite,     \* its local w
    cread,      \* its local r
    take        \* its local consumed

locals == <<local, saw, calls>>
guests == <<pc, locals>>
ring   == <<write, read, samples, mutex, queued>>
dev    == <<reserved, device>>
call   == <<cpc, cwrite, cread, take>>

VARIABLES
    played,     \* history: frames given to the device
    dropped,    \* history: frames discarded by a reset
    clean       \* history: no reset has overlapped a callback

hist == <<played, dropped, clean>>
vars == <<guests, ring, dev, call, hist>>

Actors == Threads \cup {Host}
NoFrame == -1

\* frame_count, blocking, queued_before and w of submit.
Locals == [length : 0..Cap, blocking : BOOLEAN, before : 0..(Word - 1), at : Nat]
NoLocals == [length |-> 0, blocking |-> FALSE, before |-> 0, at |-> 0]

Init ==
    /\ pc = [a \in Actors |-> IF a = Host THEN "run" ELSE "idle"]
    /\ local = [t \in Threads |-> NoLocals]
    /\ saw = [a \in Actors |-> 0]
    /\ calls = Calls
    /\ write = 0 /\ read = 0 /\ queued = 0
    /\ samples = [i \in 0..(Cap - 1) |-> NoFrame]
    /\ mutex = NoThread
    /\ reserved = FALSE /\ device = "stopped"
    /\ cpc = "idle" /\ cwrite = 0 /\ cread = 0 /\ take = 0
    /\ played = {} /\ dropped = {} /\ clean = TRUE

Minus(a, b) == (a - b) % Word

\* Mutant of Consumed: all that is available.
ConsumedAll(available) == available

Consumed(available) == IF Period < available THEN Period ELSE available
Goto(a, p) == pc' = [pc EXCEPT ![a] = p]
Return(t) == Goto(t, "idle") /\ local' = [local EXCEPT ![t] = NoLocals]

\* Frames between the two indices, as submit computes it.
Queued == Minus(write, read)
-----------------------------------------------------------------------------
(* Calls *)

Enter(t) ==
    /\ pc[t] = "idle" /\ calls > 0 /\ pc[Host] # "ended"
    /\ calls' = calls - 1

\* sceAudioOutput, blocking or not; the channel must be reserved.
Output(t, n, wait) ==
    /\ Enter(t) /\ reserved
    /\ local' = [local EXCEPT ![t].length = n, ![t].blocking = wait]
    /\ Goto(t, "configure")
    /\ UNCHANGED <<saw, ring, dev, call, hist>>

\* sceAudioChReserve and sceAudioChRelease: mark the channel, then reset it.
Reserve(t) ==
    /\ Enter(t)
    /\ reserved' = ~reserved
    /\ Goto(t, "reset")
    /\ UNCHANGED <<local, saw, ring, device, call, hist>>

\* What a reset that read r does to indices and counter; the history is kept
\* only as long as it is clean.
Discard(r, still) ==
    /\ read' = IF Minus(write, r) # 0 THEN write ELSE read
    /\ queued' = Minus(queued, Minus(write, r))
    /\ dropped' = IF still THEN dropped \cup ((r..(write - 1)) \ played) ELSE {}

\* The host holds configuration_mutex.
ShuttingDown == pc[Host] \in {"reset", "discard", "stop"}

\* configure_audio_queue: a failed device is stopped, its data discarded, and
\* a new one started.
Configure(t) ==
    /\ pc[t] = "configure" /\ ~ShuttingDown
    /\ device = "failed" => mutex = NoThread /\ cpc = "idle"
    /\ device' = "running"
    /\ IF device = "failed"
         THEN Discard(read, clean) ELSE UNCHANGED <<read, queued, dropped>>
    /\ Goto(t, "submit")
    /\ UNCHANGED <<locals, write, samples, mutex, reserved, call, played, clean>>

\* The host has no device to give: submit_audio fails.
ConfigureFails(t) ==
    /\ pc[t] = "configure" /\ ~ShuttingDown /\ device # "running"
    /\ device = "failed" => mutex = NoThread /\ cpc = "idle"
    /\ device' = "stopped"
    /\ IF device = "failed"
         THEN Discard(read, clean) ELSE UNCHANGED <<read, queued, dropped>>
    /\ Return(t)
    /\ UNCHANGED <<saw, calls, write, samples, mutex, reserved, call, played,
                   clean>>

-----------------------------------------------------------------------------
(* AudioEngine::submit *)

\* Lock; a submission that does not block finds the channel empty or leaves.
Submit(t) ==
    /\ pc[t] = "submit" /\ mutex = NoThread
    /\ IF ~local[t].blocking /\ Queued # 0
         THEN Return(t) /\ UNCHANGED mutex
         ELSE /\ local' = [local EXCEPT ![t].before = Queued]
              /\ Goto(t, "room") /\ mutex' = t
    /\ UNCHANGED <<saw, calls, write, read, samples, queued, dev, call, hist>>

\* Mutant of HasCapacity: room for one frame is enough.
HasCapacityForOne(t) == Queued < Cap

HasCapacity(t) == Queued <= Cap - local[t].length

Room(t) ==
    /\ pc[t] = "room" /\ HasCapacity(t)
    /\ Goto(t, "copy")
    /\ UNCHANGED <<locals, ring, dev, call, hist>>

\* No room: leave (not blocking, or the deadline has passed).
NoRoom(t) ==
    /\ pc[t] = "room" /\ ~HasCapacity(t)
    /\ mutex' = NoThread
    /\ Return(t)
    /\ UNCHANGED <<saw, calls, write, read, samples, queued, dev, call, hist>>

\* No room: wait, without the mutex.
AwaitRoom(t) ==
    /\ pc[t] = "room" /\ local[t].blocking /\ ~HasCapacity(t)
    /\ mutex' = NoThread
    /\ Goto(t, "full")
    /\ UNCHANGED <<locals, write, read, samples, queued, dev, call, hist>>

Copy(t) ==
    /\ pc[t] = "copy"
    /\ samples' = [s \in DOMAIN samples |->
                     LET i == (s - write) % Cap
                     IN  IF i < local[t].length THEN write + i ELSE samples[s]]
    /\ local' = [local EXCEPT ![t].at = write]
    /\ Goto(t, "publish")
    /\ UNCHANGED <<saw, calls, write, read, mutex, queued, dev, call, hist>>

Publish(t) ==
    /\ pc[t] = "publish"
    /\ write' = local[t].at + local[t].length
    /\ Goto(t, "account")
    /\ UNCHANGED <<locals, read, samples, mutex, queued, dev, call, hist>>

Account(t) ==
    /\ pc[t] = "account"
    /\ queued' = (queued + local[t].length) % Word
    /\ IF local[t].blocking /\ local[t].before # 0
         THEN Goto(t, "drain") /\ UNCHANGED <<local, mutex>>
         ELSE Return(t) /\ mutex' = NoThread
    /\ UNCHANGED <<saw, calls, write, read, samples, dev, call, hist>>

\* Mutant of StartedPlaying: the index must stop exactly there.
StartedPlayingExactly(t) == read = local[t].at

StartedPlaying(t) == read >= local[t].at

\* Asleep, with a look every millisecond, until what was queued has drained.
Drain(t) ==
    /\ pc[t] = "drain"
    /\ mutex' = NoThread
    /\ IF StartedPlaying(t) THEN Return(t)
                            ELSE Goto(t, "asleep") /\ UNCHANGED local
    /\ UNCHANGED <<saw, calls, write, read, samples, queued, dev, call, hist>>

\* wait_for returns, notified or not, with the mutex.
Wake(t) ==
    /\ pc[t] \in {"full", "asleep"} /\ mutex = NoThread
    /\ mutex' = t
    /\ Goto(t, IF pc[t] = "full" THEN "room" ELSE "drain")
    /\ UNCHANGED <<locals, write, read, samples, queued, dev, call, hist>>

-----------------------------------------------------------------------------
(* AudioEngine::reset_channel *)

\* History: whether this reset overlaps a callback.
Overlap(b) ==
    /\ clean' = (clean /\ ~b)
    /\ played' = IF clean' THEN played ELSE {}

ResetLoad(a) ==
    /\ pc[a] = "reset" /\ mutex = NoThread
    /\ mutex' = a
    /\ saw' = [saw EXCEPT ![a] = read]
    /\ Overlap(cpc # "idle")
    /\ dropped' = IF clean' THEN dropped ELSE {}
    /\ Goto(a, "discard")
    /\ UNCHANGED <<local, calls, write, read, samples, queued, dev, call>>

ResetStore(a) ==
    /\ pc[a] = "discard"
    /\ Overlap(cpc # "idle" \/ saw[a] # read)
    /\ Discard(saw[a], clean')
    /\ saw' = [saw EXCEPT ![a] = 0]
    /\ mutex' = NoThread
    /\ Goto(a, IF a = Host THEN "stop" ELSE "idle")
    /\ UNCHANGED <<local, calls, write, samples, dev, call>>

-----------------------------------------------------------------------------
(* AudioEngine::consume, on the device's thread *)

LoadWrite ==
    /\ cpc = "idle" /\ device # "stopped" /\ read < ReadLimit
    /\ cwrite' = write
    /\ cpc' = "load"
    /\ UNCHANGED <<guests, ring, dev, cread, take, hist>>

LoadRead ==
    /\ cpc = "load"
    /\ cwrite' = 0
    /\ IF cwrite = read
         THEN cpc' = "idle" /\ UNCHANGED <<cread, take>>
         ELSE /\ cread' = read
              /\ take' = Consumed(Minus(cwrite, read))
              /\ cpc' = "mix"
    /\ UNCHANGED <<guests, ring, dev, hist>>

\* The frames the callback reads.
Mixing == {samples[(cread + i) % Cap] : i \in 0..(take - 1)}

Mix ==
    /\ cpc = "mix"
    /\ played' = played \cup (IF clean THEN Mixing ELSE {})
    /\ cpc' = "store"
    /\ UNCHANGED <<guests, ring, dev, cwrite, cread, take, dropped, clean>>

StoreRead ==
    /\ cpc = "store"
    /\ read' = cread + take
    /\ cpc' = "account"
    /\ UNCHANGED <<guests, write, samples, mutex, queued, dev, cwrite, cread,
                   take, hist>>

AccountRead ==
    /\ cpc = "account"
    /\ queued' = Minus(queued, take)
    /\ cpc' = "idle" /\ cread' = 0 /\ take' = 0
    /\ UNCHANGED <<guests, write, read, samples, mutex, dev, cwrite, hist>>

Consuming == LoadRead \/ Mix \/ StoreRead \/ AccountRead

\* A buffer is refused by the device.
DeviceFails ==
    /\ device = "running" /\ cpc = "idle"
    /\ device' = "failed"
    /\ UNCHANGED <<guests, ring, reserved, call, hist>>

-----------------------------------------------------------------------------
(* shutdown_audio, and the join of the guest threads *)

Shutdown ==
    /\ pc[Host] = "run"
    /\ Goto(Host, "reset")
    /\ UNCHANGED <<locals, ring, dev, call, hist>>

\* AudioQueueStop waits for the callback.
StopDevice ==
    /\ pc[Host] = "stop" /\ cpc = "idle"
    /\ device' = "stopped"
    /\ Goto(Host, "join")
    /\ UNCHANGED <<locals, ring, reserved, call, hist>>

Joined ==
    /\ pc[Host] = "join" /\ \A t \in Threads : pc[t] = "idle"
    /\ Goto(Host, "ended")
    /\ UNCHANGED <<locals, ring, dev, call, hist>>

Ended == pc[Host] = "ended" /\ UNCHANGED vars

-----------------------------------------------------------------------------
\* Steps of a thread that needs nothing from another one.
Local(t) ==
    \/ Configure(t) \/ ConfigureFails(t) \/ Room(t) \/ NoRoom(t) \/ AwaitRoom(t)
    \/ Copy(t) \/ Publish(t) \/ Account(t) \/ Drain(t) \/ ResetStore(t)

\* Steps that take submit_mutex.
Locking(t) == Submit(t) \/ Wake(t) \/ ResetLoad(t)

Guest(t) ==
    \/ Reserve(t)
    \/ \E n \in Lengths, wait \in BOOLEAN : Output(t, n, wait)

HostSteps == ResetLoad(Host) \/ ResetStore(Host) \/ StopDevice \/ Joined

Next ==
    \/ \E t \in Threads : Local(t) \/ Locking(t) \/ Guest(t)
    \/ LoadWrite \/ Consuming \/ DeviceFails
    \/ Shutdown \/ HostSteps \/ Ended

Spec == Init /\ [][Next]_vars

(***************************************************************************)
(* A running device keeps calling back and a started callback finishes;    *)
(* threads are scheduled, and whoever keeps asking for submit_mutex gets   *)
(* it eventually.  Nothing is asked of a device that has failed or of the  *)
(* guest.                                                                  *)
(***************************************************************************)
Fairness ==
    /\ WF_vars(device = "running" /\ LoadWrite) /\ WF_vars(Consuming)
    /\ \A t \in Threads :
         WF_vars(Local(t)) /\ SF_vars(Locking(t))
    /\ SF_vars(ResetLoad(Host)) /\ WF_vars(HostSteps)

FairSpec == Spec /\ Fairness

-----------------------------------------------------------------------------
(* Properties *)

TypeOK ==
    /\ pc \in [Actors -> {"idle", "configure", "submit", "room", "full", "copy",
                          "publish", "account", "drain", "asleep", "reset",
                          "discard", "run", "stop", "join", "ended"}]
    /\ local \in [Threads -> Locals]
    /\ saw \in [Actors -> Nat] /\ calls \in 0..Calls
    /\ write \in Nat /\ read \in Nat /\ queued \in 0..(Word - 1)
    /\ samples \in [0..(Cap - 1) -> Nat \cup {NoFrame}]
    /\ mutex \in Actors \cup {NoThread}
    /\ reserved \in BOOLEAN /\ device \in {"running", "failed", "stopped"}
    /\ cpc \in {"idle", "load", "mix", "store", "account"}
    /\ cwrite \in Nat /\ cread \in Nat /\ take \in 0..Period
    /\ played \subseteq Nat \cup {NoFrame} /\ dropped \subseteq Nat
    /\ clean \in BOOLEAN

(***************************************************************************)
(* What the callback is about to mix is the next frames submitted, in      *)
(* order: no submission that found room has written over a slot the        *)
(* callback is still reading, and no frame is mixed before it is there     *)
(* (audio_engine.cpp, consume against submit, which share no lock).        *)
(***************************************************************************)
PlaysInOrder ==
    clean /\ cpc = "mix" => Mixing = cread..(cread + take - 1)

(***************************************************************************)
(* Once the indices have passed a frame it was either played or discarded  *)
(* by a reset, never both and never neither (read_index_ is stored by the  *)
(* callback and by reset_channel).                                         *)
(***************************************************************************)
EachFrameOnce ==
    clean /\ cpc # "store" =>
      /\ played \cap dropped = {}
      /\ played \cup dropped = 0..(read - 1)

(***************************************************************************)
(* With no call and no callback in progress, the telemetry's queued_frames *)
(* is the distance between the indices: the counter is changed by three    *)
(* parties, each after its index.                                          *)
(***************************************************************************)
QueuedFramesAgree ==
    clean /\ cpc = "idle" /\ mutex = NoThread => queued = write - read

\* The three of them: each frame is played in order, once, and counted.
PlaysEachFrame == PlaysInOrder /\ EachFrameOnce /\ QueuedFramesAgree

(***************************************************************************)
(* An accepted blocking output returns, unless the device stops running:   *)
(* its drain loop has no deadline, and the callback that would end it may  *)
(* race any number of resets of the channel.                               *)
(***************************************************************************)
BlockingOutputReturns ==
    \A t \in Threads :
      pc[t] = "asleep" ~> pc[t] = "idle" \/ device # "running"

(***************************************************************************)
(* host.hpp of shutdown_audio: "Stops the host device and releases any     *)
(* producer blocked on queued audio."  Here: one asleep when the shutdown  *)
(* starts returns from its output.                                         *)
(***************************************************************************)
ShutdownReleasesProducers ==
    \A t \in Threads :
      pc[Host] = "reset" /\ pc[t] = "asleep" ~> pc[t] = "idle"
=============================================================================
