# TLA+ models of psprism

psprism translates PSP executables to C++ ahead of time (`src/`, `include/psprecomp/`)
and runs the result on a host through `refract`, a high-level emulation (HLE) of the
PSP kernel and devices (`refract/`).  This directory holds TLA+ models of the parts
whose correctness depends on the order in which things happen or on two pieces of code
agreeing, the TLC configurations that check them on small instances, and TLAPS proofs
of the results that matter most.  `PROJECT.json` lists components, runs, the source
lines behind every definition, findings, hazards and theorems.

Paths below are those of the repository; a module or theorem is named without its
`.tla`.

## 1. The system and its parts

| Part | State it keeps | Operations | What is hard | Correct when |
|---|---|---|---|---|
| Guest execution lock (`refract/src/runtime.cpp`) | ticket counters, mutex, condition variable, thread-local `guest_execution_locked` and `guest_interrupts_enabled`, `exit_requested` | acquire, release, pause, yield, executor slices, callbacks, exit | every host thread that runs guest code goes through it; the exit flag is raised without the mutex | one thread at a time runs guest code, turns are handed out in order and none is lost |
| Kernel objects (`stubs/kernel`) | semaphores, mailboxes, mutexes, event flags, sleep counts, fixed and variable pools | create, delete, wait, poll, signal | a waiter sleeps under the object's mutex and without the CPU; timeouts, deletion and exit race the signal | tokens, messages, levels and blocks are neither lost nor doubled, and nobody who can be served sleeps on |
| Guest heap (`runtime.cpp`, partition memory, pools, threads) | sorted free list, heap and stack cursors | allocate, free, stack | alignment, joining, word width, failure half way | live blocks are disjoint, what is freed comes back whole |
| Guest threads, alarms, sub-interrupts | a host thread each, `finished`, enabled and cancelled flags | create, start, exit, wait for end, delete; set, cancel, register, release | two waiters joining one thread, a start after the end, a cancellation racing the expiry | one host thread each, every one ends and is joined |
| GE display lists (`refract/src/ge`, `stubs/ge`) | list table, queue, registers, texture cache | enqueue, stall, break, continue, sync, the commands of a list | callbacks in the middle of a list, lists paused while stalled, textures decoded from memory that changes | lists complete once and in order, a primitive sees the texture it names |
| Audio engine (`refract/src/host/audio_engine.cpp`) | one ring per channel, read without a lock | submit, consume, reset | reset against the callback | frames are played once and in order, blocking writers return |
| I/O stubs (`stubs/io`) | descriptors, host files, asynchronous results | open, read, seek, close and their asynchronous forms | results that outlive the descriptor, windows into the disc | a result belongs to the operation that is waited for |
| Media stubs (`stubs/mpeg`, `stubs/audio`) | ring buffer, access units, ATRAC positions, voices | put, fetch, decode, mix | guest code runs in the middle of a stub, loop points lie inside frames | no packet is lost, repeated or overwritten, what is announced is delivered |
| Dialogs and saves (`stubs/utility`, `host/desktop_dialogs.cpp`) | status, posted messages, directories of a save | start, update, shut down; save, load, delete | the window answers on another thread; any file operation fails | the answer is to the question, no half save is loaded, none is lost |
| Host front ends (`host/windows_frontend.cpp`, `host/macos_frontend.mm`) | batches, render targets, texture and state caches, key latches | begin, submit, present, draw; key and pad events | two threads, two platforms, packed cache keys | the window shows what was written last, both platforms make the same pixel |
| Recompiler (`src/elf`, `src/emitter`, `include/psprecomp`) | images, code map, generated functions, interpreter, patches | load, relocate, analyse, emit, dispatch, hook | delay slots, several owners of one instruction, two implementations of each instruction | a recompiled program steps as the guest's processor does |
| Overlays on the PSP (`project_output/overlays.inc`) | routes, saved contexts | enter, leave, call back | where contexts lie, who returns where | compiled and native code cannot tell each other |
| Projects (`src/project`) | staged and published trees, stamp, backup | export, hydrate, roll back | failure or a crash between two renames | all old or all new, and the stamp is true |
| Discs (`src/iso.cpp`, `src/iso_patch.cpp`) | image, extents | list, extract, patch | files that just fit, several replacements | no file overlaps another, others keep their place |

How they interact.  The recompiler's output is the *guest executor*: a function the
runtime calls with a CPU state and which returns when the guest stops, calls an
import, or has used up a finite number of dispatches.  Each guest thread is a host
thread; `execute_guest` holds the guest execution lock for one slice, and every
import goes through the `PSPSDK_STUB` wrapper, which runs the stub and then yields
unless `is_non_yielding_stub` names it.  A stub that blocks takes the mutex of its
kernel object, gives the execution lock up with a `GuestExecutionPause`, waits on the
object's condition variable, drops the mutex and takes the execution lock back.
Alarms, sub-interrupts and notification callbacks are host threads, or detours of a
guest thread, that run guest code under the same lock.  `objects_mutex` guards the
tables of objects and the heap.  The exit (`request_guest_exit`) raises one flag and
notifies every condition variable it can find; `wait_for_guest_threads` joins.  Display
lists run inside the stub that starts them and hand batches to the window's thread,
which draws them; the audio device calls back on a thread of its own; dialogs are shown
by the window's thread and polled by the guest.  At build time psprism reads a disc or
an executable, writes a project, and later rebuilds ("hydrates") its private trees.

## 2. Modules

| Module | Models | State and actions |
|---|---|---|
| `GuestExecution` | `acquire_guest_execution`, `release_guest_execution`, `GuestExecutionLock`, `GuestExecutionPause`, `execute_guest`, `yield_guest`, `dispatch_guest_callback`, the stub wrapper, interrupt suspension, thread start, exit and `run_host_loop` | the two ticket counters, the mutex, the thread-local flags; `condition_variable::wait` is split into evaluating the predicate, blocking, waking and taking the mutex again |
| `GuestCpu` | what the lock promises: a CPU handed out first come, first served | owner, waiting threads and who is ahead of whom |
| `HleWait` | what all waiting stubs share: the CPU reduced to its holder, one object mutex, waits with and without a timeout, notifications, deletion, exit | `pc` of each thread inside its stub |
| `KernelSema`, `KernelMbx`, `KernelMutex`, `KernelEventFlag`, `KernelSleep`, `KernelFpl`, `KernelVpl` | the stubs of one kind of object each | the fields of the object's structure, plus history variables named as such |
| `KernelObjects` | the seven in one frame | `object` says which one a behaviour uses |
| `MemoryBlocks`, `KernelHeap` | `align_up` and the joining of free blocks; `allocate_heap`, `free_heap`, `allocate_stack` and every stub that calls them | free list, cursors, live objects; one action per stub |
| `AudioRing` | one channel of the mixer: submit, consume, reset, reservation, replacement and shutdown of the device | indices, slots, `submit_mutex`, counter, device, locals; every load and store of the callback is a step |
| `HostThreads`, `SasVoices` | alarms, sub-interrupts and guest threads with the exit that joins them; the synthesizer | where each host thread is; voices, envelopes and the grain under way |
| `GeLists` | the list table and `execute_ge_list` with its stubs | lists, queue, registers, caches, callbacks collected; one action per call, one step per command |
| `GuestFiles`, `MoviePlayer`, `AtracStream` | descriptors and asynchronous results; ring buffer and media engine; ATRAC positions | one action per stub, more where a stub gives up the CPU |
| `RuntimeServices` | the five above with the heap, in one frame | `part` |
| `AllegrexMachine`, `RecompiledCode` | what a guest program does, an instruction at a time; the generated functions, the dispatcher, the interpreter and the hooks | registers and position; the host's stack of loops, functions and hooks |
| `AllegrexInstructions`, `VfpuOperations` | what each instruction and vector operation computes, in the interpreter and in generated code | one instruction per behaviour |
| `Executables` | segments, relocations and their packed stream, code map, fingerprint, decryption | the stream under construction, the image |
| `DiscImages` | reading and patching a disc | the bytes, the records of directories |
| `Overlays` | a compiled function among native code on the PSP | registers, stack words, routes; beside it the same program with nothing replaced |
| `GamePatches` | the registry of patches, hooks, `original`, arguments and globals of C++ patches | the list, thread-local bypasses, scopes |
| `Hydration` | `export_codebase` and `hydrate_codebase` | trees (project, staging, backup), stamp, phase of the call |
| `Toolchain` | the eight above in one frame | `part` |
| `UtilityDialogs`, `SaveStore` | dialogs on both platforms; the directory of a save | status, messages, dialog, answer; three directories and the step of the call |
| `HostFrames` | batches and pictures from guest to screen | frames under construction and handed over, targets, texture caches, what is displayed |
| `GeDraw`, `HostRaster` | from registers and vertices to a batch; from a batch's state to a pixel on both platforms, with the caches of state objects | the subject of the comparison, the caches |
| `Controls` | keys, latches, sampling, sticks, settings | what is held, latched and read so far |
| `Desktop` | the five above in one frame | `part` |
| `GuestExecutionProofs`, `KernelProofs`, `KernelTheorems`, `AudioRingProofs`, `HostThreadsProofs`, `ToolchainProofs`, `DesktopProofs`, `ServicesProofs` | theorems (section 5) | |

The constants' values that do not fit in a configuration are defined at the end of the
module that is run (`MCImages`, `MCCalls`, ...).  Definitions introduced by "Mutant of"
are plausible mistakes in the code; replacing the definition they name by them breaks a
property, which shows that the property depends on it.

Frames.  `HleWait` may reduce the execution lock to "who has the CPU" because
`LockImplementsCpu` shows that this is all the lock does.  A stub that runs without
blocking holds the CPU from its start to its end, so that only its critical section
and the notification that follows it (after the mutex has been dropped) are separate
steps.

`KernelObjects`, `RuntimeServices`, `HostThreads`, `Toolchain` and `Desktop` look at one
object or part in each behaviour.  That is sound where the parts share no state but the
CPU: no stub touches two kernel objects, a thread is inside one stub at a time, and what
threads do elsewhere looks, from one object, like threads that make no calls, which every
behaviour may do for any length of time.  What crosses the border is taken as it may
come (a dialog that covers the window, the state of a batch).  One consequence is listed
as a hazard without a property: the deletion of a pool under a waiter, which needs pool
and heap together.

## 3. Runs

| Run | Question | Instance | Distinct states |
|---|---|---|---|
| `cpu_lock` | does the ticket lock exclude, keep its line gapless, lose no turn, implement `GuestCpu` and serve every waiter, with callbacks, suspended interrupts and an exit at any point? | three threads, two calls of the main thread, one of each other | 120 737 |
| `kernel_objects` | tokens, messages, levels, bits, wakeups and blocks conserved; nobody served out of turn; no wakeup lost; no thread waits for the CPU with a mutex in its hands | three threads, five calls between them (three on an event flag); maximum 2, three messages, two bits, two blocks, a pool of 7 bytes in grains of 2 | 888 441 |
| `kernel_objects_live` | is a waiter that can be served ever left behind? | three threads, two to four calls, one message, bit or block | 192 587 |
| `audio` | are frames played once and in order, does the telemetry agree with the ring, and does an accepted blocking output return while the device runs? | two threads, a ring of four frames, a period of two, outputs of one and three, three calls, a device that may fail, be replaced and be shut down | 239 940 |
| `services` | display lists, files, movies, ATRAC and the heap: nothing lost, repeated, mixed up or read outside of what it belongs to | two threads; 4 calls on lists, 5 on files, 7 on a movie, 10 on ATRAC; three live heap objects in a 64-unit address space | 484 334 |
| `host_threads` | one host thread each, everybody ends and is joined at the exit, voices decay and end | two timers or guest threads, six calls; one voice, four calls | 91 043 |
| `toolchain` | recompiled programs step as the processor does; two implementations of each instruction agree; relocations survive their stream; patched discs keep other files; calls cross; publication rolls back | eleven parts; words of 8 or 16 bits, sectors of 2, two patches, two edits, two faults, four hydrations | 504 520 |
| `desktop` | dialogs, saves, frames, keys and drawing on both platforms | six parts; two dialogs, three saves (the first with its payload under one of the two names, which are alike, the others under either) with two faults, two batches and presents, four key events, three samples | 2 007 109 |
| `exit_leaves_thread_parked`, `audio_shutdown_leaves_producer`, `overlay_clobbers_stack`, `original_enters_hook` | what a comment, a header or a document of the repository says and the code does not do (section 7) | as above, with larger frames in the third | |

Why the bounds are enough.  Three threads give every race the code can have between
two waiters and the thread that signals, and a line in which somebody is neither
first nor last.  In the lock every call is a slice, a yield, a block, a callback, an
interrupt suspension or an exit, so that two of them put any operation before and after
any other.  For the objects, five calls are enough for two waiters and three calls that
signal, poll, delete or wait again; the event flag has fewer because each call has a
pattern and one of six modes to choose.  `Timeouts = {TRUE}` gives every wait a timeout,
and since nothing forces a timeout to expire it includes the waits without one.  The
sizes and alignments of the heap (4 and 2 for the code's 64 and 16, a word of 64 for
2^32) keep every case of splitting, joining and wrapping in reach.  In the ring a
reservation and two outputs let the second one find the ring empty, busy or full, wrap
round, and drain over two callbacks; the period is smaller than a buffer, as 512 frames
are in the code.  `ReadLimit` only cuts behaviours in which a reset has left the read
index ahead of the write index, where it would run on for ever.  Bytes of two or four
bits scale every shift, mask and sign with them; encodings, images, relocations, discs
and registers are chosen so that each case of the code and each boundary occurs.  Two
faults are one more than any promise of the code survives, so that the first is always
followed by something that can still go wrong.  A dialog is followed by another, so that
what is left of the first can meet it.

Threads, bits and messages of equal priority are symmetric; blocks of a pool are not,
because they start in a list.

Deadlock is checked in `cpu_lock`, `kernel_objects`, `kernel_objects_live`, `audio` and
their violations, where the models say explicitly when they are at rest.  It is off
where a behaviour is a bounded number of calls (`services`, `host_threads`, `toolchain`,
`desktop` and the violations of `toolchain`): there the system really stops.

## 4. Fairness

In `GuestExecution` a thread that can take a step on its own takes it (weak fairness:
the host schedules its threads, and an executor slice ends because `dispatch.inc` counts
it down), and a thread that needs `guest_execution_mutex` infinitely often gets it
(strong fairness for the three steps that lock it: critical sections are short and
`std::mutex` does not starve a thread for ever).  Nothing is assumed of what a blocked
stub waits for, of spurious wakeups, of the exit, or of what guests call.  In
`KernelObjects` the same holds inside the stubs, with strong fairness for taking the
object's mutex again.  In `AudioRing` a running device keeps calling back and a callback
ends, threads are scheduled, and whoever polls for `submit_mutex` gets it in the end; a
failed device owes nothing.  In `HostThreads` host threads run and a timed wait ends
(weak), whoever asks for the CPU or comes back from a handler gets it (strong), a guest
thread sees the exit and ends, and the guest's audio thread goes on mixing.  The last two
hold of no thread that the exit's notification has missed (`unwoken`, `stuck`):
`exit_leaves_thread_parked` shows that such a thread may wait for ever, so that
`HostThreadsEnd` promises the end of the others only.  `exit_leaves_thread_parked` moreover lets every
blocked stub end after the exit, which makes the violation harder to reach, not easier.
The other models state safety only, or a refinement without fairness.

## 5. What is proved

TLC checks the instances above; TLAPS proves the following for every value of the
constants and behaviours of any length.  The constants are restricted by the assumptions
that TLC evaluates in the runs: the main thread is a thread and the bounds are numbers
(`ThreadsAssumption`, `HleAssumption`); initial counts, maxima, patterns and priorities
are what the creating stubs accept (`ObjectsAssumption`); sizes of ring, period and
outputs are positive numbers (`AudioAssumption`); `HostThreadsAssumption`,
`HydrationAssumption`, `DialogsAssumption`, `StoreAssumption`, `ControlsAssumption`, `FilesAssumption`, `AtracAssumption`,
`FramesAssumption` and `GeAssumption` (words of memory are the commands of `GeLists` at numbered addresses) type
their constants.  Three theorems have a hypothesis of their own, discussed below.

| Module | Theorem | States |
|---|---|---|
| `GuestExecutionProofs` | `TypeCorrect`, `MutualExclusionCorrect`, `RunningHoldsLockCorrect`, `EveryTicketOwnedCorrect`, `NoLostTurnCorrect` | the invariants of `cpu_lock` |
| | `LockImplementsCpu` | the ticket lock implements `GuestCpu` |
| `KernelProofs`, `KernelTheorems` | `KernelInvariant` | the inductive invariant of all seven kinds of kernel objects |
| | `KernelTypes`, `NobodyWaitsForTheCpuLocked`, `MutexExcludes`, `WakeupsCounted`, `MailboxDelivers`, `FixedPoolConserved`, `WaitersAreServed` | the invariants of `kernel_objects` but for the variable pool |
| `AudioRingProofs` | `RingInvariant`, `RingTypes`, `FramesPlayedOnce` | the safety of `audio` |
| `HostThreadsProofs` | `HostThreadsInvariant`, `HostThreadsTyped`, `OneHostThread` | the safety of `host_threads` but for the synthesizer |
| `ServicesProofs` | `FileInvariant`, `DescriptorsKeptApart`, `FilesAreSound` | the files of `services` |
| | `AtracPlays` | ATRAC playback of `services` |
| | `GeInvariant`, `GeIsSound` | the display lists of `services` |
| `ToolchainProofs` | `DiskInvariant`, `FailedCallsAreUndone`, `StampsAreTrue` | the hydration of `toolchain` |
| | `StackInvariant`, `CodeIsMachine` | the recompiled program implements `AllegrexMachine` |
| `DesktopProofs` | `StoreInvariant`, `SavesSurvive`, `ControlInvariant`, `ControlsAreSound` | saves and controls of `desktop` |
| | `DialogInvariant`, `DialogsAreSound` | the dialogs of `desktop`, on both platforms |
| | `FramesInvariant`, `FramesAreSound` | the frames of `desktop`, on both platforms |

**The execution lock.**  None of its invariants is inductive.  `IInv` adds where the mutex
is held (`MutexHolder`), where the lock is held (`HolderPlace`), that an exit is under way
wherever a thread is in the exit path, and, until the exit, the *ticket line*: tickets lie
between `serving` and `next`, no two threads have the same one, there is no gap, whoever
holds the lock or has been admitted has the ticket being served, and a thread about to
block does not.  The last two carry the argument: mutual exclusion needs that the admitted
thread has the served ticket and that nobody else has that ticket; the line stays gapless
because a release serves exactly the next ticket.  After an exit tickets are abandoned (a
refused acquire returns without a release), so that the line holds only before it, while
mutual exclusion must survive it: it does because a refused thread never sets
`guest_execution_locked`.  The refinement maps the line to the order of the tickets and
dissolves it at the exit.

**Kernel objects.**  `KernelInv` says where the object's mutex is held (`HolderPlace`) and
that every flag a notification will look at is set before the notification is due
(`FlagBeforeNotify`).  To that each kind adds what its stubs keep between two critical
sections.  They share a shape.  Safety alone (tokens counted, blocks in one place) is
inductive once the locals of the calls are included: a block is in exactly one of the
free list, the hands of a thread and its result (`BlocksDivided`), a level is
the sum of what was granted (`LevelsAgree`), a wakeup is counted, owed or given
(`Awake`).  That nobody is passed over needs a second part, what holds *before a thread
parks* (`NoneBeforePark`, `UnservedBeforePark`, `UnmatchedBeforePark`,
`NoneFreeBeforePark`): whoever is about to block has just evaluated its predicate under
the mutex, nothing can have served it since, and whatever serves it later marks it before
it notifies (`LockReady`, `FlagReady`, `SemaReady`, `FplReady`, `MbxReady`).
For mailboxes with priorities `EnqueueSorts` and `PopSorts` show that the chain
stays sorted and that equal priorities stay in order of arrival.  `FrameStep` lifts the
steps of one kind to the frame that looks at one kind at a time.

**The audio ring.**  Its three properties are stated as long as no reset has overlapped a
callback (`clean`).  That is the contract `device_reset` keeps, which stops the device
first, and `reset_channel` and `shutdown_audio` do not: after an overlap the callback's
store undoes the reset and frames are played that were counted as dropped, or, when the
callback has read the write index before a submission and the read index after the
reset, the read index passes the write index.  `RingInv` says who holds `submit_mutex`
(`MutexPlace`) and, while clean, that the frames between the indices are in their slots
(`FramesThere`, `CopiedThere`), that a submission under way still has the room it
looked for (`RoomKept`), that the callback is somewhere between the indices it loaded
(`CallbackPlace`), that each frame was passed on once (`PassedOnce`), and what the
telemetry owes the ring at each point between a store and the adjustment of its counter
(`Counted`, with `Balance`).  Counter and indices wrap, so all of it is arithmetic modulo
`Word`, for which the module first proves that a remainder is unique.

**Host threads.**  A timer's thread ends for good when its callback is not dispatched to its
return: the heap has no stack for it, or the guest code stops for another reason
(`NoStack`, `HandlerReturns`, `HandlerStops`).  `TimerPlaces` and `LifePlaces` tie the place of each host thread to the
object's fields; a cancelled timer that has not noticed is told from its successor
by its generation (`StartedOnce`, `LateOnce`), a guest thread by what its starter and its
joiner have seen (`RunsOnce`, `JoinPlaces`).

**Files.**  `FileInv` relates the tables: host descriptors and files one to one (so that a
close frees exactly its own), views and sector marks only for open files, every descriptor
ever given out below `next_file`.  The last point is why a result that outlives its
descriptor is never taken for another's (`ResultsKept`).  `SectorsKept` adds that the
disc's position is a multiple of a sector or its end; it needs that nobody writes to the
disc.  `FilesAreSound` has that as its hypothesis (`DiscIsReadOnly`, true of the paths of
the run) since nothing in `sceIoOpen` enforces it; `DescriptorsKeptApart` has none.

**Recompiled code.**  `CodeIsMachine` is a refinement: the state a guest can see
(`Shown`) is, in a generated function, registers with the function's own address and its
local delayed branch; in a loop the state as it is; and inside a hook the state the hook
was called in, until it returns.  What has to be known for a step to be one of the machine
is `CodeInv`, the invariant of the host's stack: above the loop of `run()` stand
generated functions that lie outside of imports and hooked addresses (`PlainFn`), all but
the last in a native call behind its `jal` (`Calling`), up to the first hook
(`FunctionsFirst`).  Outside of hooks no patch is bypassed, a function that executes has
taken the delayed branch out of the state, and one that waits in the state stands behind
its branch (`OutsideHooks`).  In a hook everything above it is invisible; what counts is
that its return goes where its caller will look for it: the link register is the one
it was called with, now or among what `call_original` saved (`InsideHook`).  A machine state
is compared up to the target of a branch that does not wait (`Alike`), since generated code
leaves an old one behind.  The theorem has two hypotheses.  `SoundImage` names the
executables the recompiler can translate (section 7 has what happens to others); TLC
evaluates it on every image of the run (`MCImagesAreSound`).  `BranchesKept` says that the
dispatcher finds a label for the delay slot of a branch it is to resume; TLC checks it in
the run as a part of `OperationsAgree`.  `StackInvariant` needs only the first.

**ATRAC.**  The position of a decoder and the cursor in its data are moved by different
calls.  `AtracInv` ties them: the cursor stands at a frame (`Placed`), and, while the
samples counted are those of the track and no loop is taken, the counter says which frame
that is and how much of it is skipped (`AtFrame`); and a window that was offered to the
guest stays free until something is added or read (`Window`).  What the last decode did
follows from where the decoder stood (`Follows`).  Sizes, loops and buffers are arbitrary
numbers.  `AtracPlaysOn` speaks of a loop that is still active when a decode starts,
since a loop shorter than a frame is played on behind its end after the last repetition.

**Display lists.**  A list runs inside the call that takes it up, stops anywhere, and goes on
inside another call, of another thread or of a callback.  `GeQueue` says that between
calls no list is running or waiting to run, and that the one being executed is the one that
says so: hence the queue is the set of unfinished lists (`LeaveQueue`, `QueueStays`).
`CallbacksKept` names a callback by its list and its place in that list's output, which no
later command can repeat, and follows it from the run that collects it (`StepKeepsCallbacks`)
into a frame of its thread (`StopKeepsCallbacks`), where it stands once among all frames
(`Distinct`), is made or, for want of a stack, refused (`StartTyped`) and dropped
(`EndTyped`), whatever frames its own calls put on top.  `sceGeListEnQueue` does not look at
the result of `dispatch_guest_callback`: a refused callback is lost, once and for good, which
is how `EveryCallbackOnce` puts it.  `RunsStraight` is the part about stalls: the machine of a list nobody disturbed,
in the interpreter or stored in the list (`Here`), is the one a straight execution reaches
after as many commands, not only in what it has put out; the invariant needs the whole of it,
call stack and bounding-box flag included.  A straight execution is a recursive function of
the number of commands.  That it has the values its definition says is shown without an
induction theorem: if two executions differed, or one could not be continued, there would
be a least place where they do (`FirstsAgree`, `FirstIs`, `AfterIs`).

**Hydration.**  `DiskInv` follows `publish_replacements` operation by operation: trees up
to the next one have been exchanged (`UpToNext`), what was moved away is in the backup as
long as the handler may need it (`RollsBack`, `CanUndo`), and no stamp in any place
describes trees newer than what exists (`StampsNew`).  `FailedCallsAreUndone` follows
without more.  `StampsAreTrue` needs `Believed` besides: a stamp that would be accepted
stands only beside trees that are current, missing or partial, also in the backup, where a
roll-back would bring it back.  A partial tree is what is left when the roll-back's
`remove_all`, whose error is ignored, or the process itself stops halfway
(`Remains`): with `--force` trees are replaced below a stamp that is current already, the
stamp goes on being believed, and `hydration_outputs_exist` only looks whether the trees
are there.  So what a believed stamp promises is that every tree *that is whole* is
that stamp's (`WholeCurrent`); a complete tree of another version never stands below it.
The hypothesis of the theorem is that an edit makes something new:
the identity in the stamp is computed from the inputs as they are, so that an edit that
brings an earlier map back makes an earlier stamp true again (section 7).

**Saves.**  A save is the payload under the name the guest chooses, `PARAM.SFO`, and the
artwork whose size is not 0; each file is opened, written and closed, and what fails is
noticed at the end.  A directory is removed file by file and may be removed in part.
`StoreInv` follows the write through its three directories: the staging directory holds
what has been written so far (`StagingWritten`, `SaveWhole`, `MovedIn`), and with one fault
at each step some directory holds a whole save, old or new (`NoFaultYet`, `AfterOneFault`,
`Survives`).  The error of removing an old staging directory is cleared
(sceUtilitySavedataUpdate.cpp:148-149), so that after two faults (a kill or a failure in one
save, a failed removal in the next) a new save can be moved in among files of the old one.
`stale` names the saves that were written that way.  `LoadsWhole` says that all files a save
consists of are its own in every case, and that there are no others except in those saves;
`NothingLeftOver` says that `stale` takes two faults.

**Controls.**  `ControlInv`: the latch is what went down since it was read, what the
guest is owed is in the latch, buttons shown are down and none is while the window is
covered, and a reading is among what it may be.  For the sticks it proves that the two
platforms' conversions are monotonic, give bytes and reach the ends, for all positions
a stick can take.

**Dialogs.**  A dialog passes through three places that no single lock covers: the call
that asks for it, the messages to the window's thread, and the dialog shown.  Its number
ties them together, so `DialogInv` is mostly about numbers.  A model on its way (in
`pending_dialog` on Windows, in each message on macOS) has not been answered, is not the
one shown and, unless its guest shut down what it had not started, is in use or dismissed
by a later message (`ModelsToCome`, `ShownInUse`).  The dialog shown has no answer
yet, and the last answer is one the user gave (`WidgetRight`).  Hence a utility that is
told an answer can have no dialog of its own left anywhere, which is what keeps
`ShownInUse` when its status changes (`UpdateStep`); one that had no dialog has none to
leave (`SilentStep`).  The operations of the dialog are functions of what is shown;
`Leads` says what they all have in common, which is proved once for both
platforms (`ButtonsLead`, `ClickLeads`, `PresentLeads`).  `InputsRight` adds what is held
since before a dialog: still down, and no button of the controller once it is armed.
The editors and keys of a keyboard dialog stay in vectors that nothing clears
(desktop_dialogs.cpp:718, 743) while Qt deletes them with their dialog
(`WA_DeleteOnClose`, :784).  The next dialog reads them when it is built, if it is
a keyboard, or when it is answered, and letters typed over it go to them.  What the program does after that is undefined:
`dangling` says that it has happened, and `DialogsSound` speaks of the time before, which a
second keyboard dialog always ends.  Until then the guest is told the text that was typed,
and any number of other dialogs may come before the keyboard.

**Frames.**  A batch goes from the list that makes it through two queues to the window's
thread, a picture through two maps on Windows and a queue of blocks on macOS.
`BatchesInOrder` says that the queues hold batches in order, each in one place, and
`TargetsRight` what a render target holds after the batches drawn so far (`Since`): all of
its address since it last grew.  Drawing is a recursive function of the number of batches;
`GeometryRight` follows it from batch to batch by looking at the first one where it could go
wrong.  For pictures `StoredRight` (Windows) and `UploadsRight` (macOS) say that what was recorded
of an address is what is stored, or will be when the uploads on their way have landed
(`Lands`, `Follows`).  `WindowRight` puts both together: when nothing is on its way, the
screen is what a repaint would show (`Showing`).

Only model-checked, and why:

* everything under fairness (`ImplementsFairCpu`, `NoServableWaiterStuck`,
  `BlockingOutputReturns`, `HostThreadsEnd`, `SasReleaseEnds`): liveness and `ENABLED` are
  out of TLAPS's reach;
* `HeapSound`, `VariablePoolSound`, `SasSound`, `MoviePiecesKept`: the joining of free
  blocks, the decoding of a voice's blocks and the demultiplexer are folds, about which
  nothing general can be shown without induction over data;
* `OperationsAgree`, `ExecutablesRight`, `DiscPatched`, `DrawingSound`: mostly comparisons of two
  computations over words, bytes or pixels, the better part of them recursive functions;
* `CallsTransparent` compares arguments and frames that recursive functions compute; its
  part about patches is in reach and not attempted (section 8).

## 6. What is left out

* About 26 000 lines of PSP SDK headers under `refract/include/pspsdk`, the tables of NIDs,
  the third-party ATRAC3 decoder, and tests: declarations and vendored code.
* Names, command lines, logging, text of generated sources beyond what it does, Qt and the
  layout of windows.
* The status snapshots of `thread_status.hpp`, verbose output and the packet links the
  kernel writes into guest memory: no modelled decision reads them.
* Of the audio path: volumes, formats, the other channels, counters other than
  `queued_frames`, and the Windows device, which calls the same engine.
* Time as a number: a timeout is something that may happen at any moment.
* Signals of negative amounts and waits with amounts out of range beyond the refusal.
* Numerical work: codecs, cryptographic rounds, interpolation and lighting, floating point
  beyond the cases where two implementations may differ.
* Memory ordering: the atomics in the modelled parts are read under a mutex or used as a
  flag that may be seen late, which the interleavings include; the indices of the audio
  ring are released and acquired in the order the model gives them.

## 7. Findings

Four runs show the code departing from what the repository says of it; `PROJECT.json`
quotes the lines.

1. `exit_leaves_thread_parked`: the exit is announced without the mutex of the waiters, so
   that a thread between its predicate and its block misses the announcement, and the
   process never ends.
2. `audio_shutdown_leaves_producer`: `shutdown_audio` resets the ring before it stops the
   device; a callback in progress stores its old index over the reset, the device stops,
   and the producer that the shutdown was to release polls for ever.
3. `overlay_clobbers_stack`: the trampoline of a compiled function keeps its context below
   the guest's stack pointer, which is where that function makes its own frame.
4. `original_enters_hook`: inside the original of one hook, the original of a second hook
   of the same address enters the first again.

Observed while modelling, and kept as hazards or in the models, where the repository
promises nothing to the contrary: a thread that yields just as the exit is requested
returns to its executor without the lock; the executor's slice limit passes the CPU on
although interrupts are suspended; a wait for an event flag does not read its timeout; a
stack size within one alignment unit of 2^32 is rounded up to zero; packets the callback
delivered are dropped when the media engine has no room; a code map edited after it was
exported is accepted by the first hydration, and so are trees whose map has come back to
an earlier one (hydrate.cpp:313-322); a save that cannot be moved
away is removed by the roll-back of the write that was to replace it; a key tapped
between two samples is lost when a frame is presented between them; the interpreter and
generated code differ for `jalr` onto its own source and in rounding; a guest may open
the disc for writing; a loop of an ATRAC track that is shorter than a frame is, after its
last repetition, played on behind its end; a sub-interrupt whose callback finds no stack in
the heap never fires again, and a callback of a display list that finds none is dropped; a
removal that stops halfway leaves a partial tree below a stamp that is believed, or, in the
staging directory of a save, artwork that the next save takes over; the dialog
after a keyboard uses editors that have been deleted.

Executables whose recompiled program is not the processor, each a condition of
`SoundImage`, or of `BranchesKept` for the last:

* a branch in a delay slot, which the architecture leaves undefined, or a patch on one;
* `jalr` onto its own source, which generated code links before it reads it;
* an import's stub that a function of the program owns and branches to gets a `goto`, and the stub's
  words are executed (functions.inc:218-231); the same for a patched address that its own
  function reaches by anything but a `jal`;
* an import's stub right behind a call's delay slot, where the call returns to;
* a patch on an address that is no start of a function, which native calls pass by;
* a delayed branch that the interpreter or the last instruction of a function leaves to the
  dispatcher, before a delay slot without a label: the function that refuses the address has
  taken the branch out of the state already, and it is lost (functions.inc:107-118).

## 8. Plan

Modelled, checked and, as above, proved: lock, kernel objects, audio ring, host threads,
files, ATRAC, display lists, recompiled code, hydration, saves, controls, dialogs and
frames.  Theorems still worth having, in this order:

1. parts of `MoviePiecesKept` that do not look into the demultiplexer (`DecodedOnce`,
   `CallbackInsideRing`), and of `HeapSound` that do not look into the joining;
2. the part of `CallsTransparent` that is about patches.
