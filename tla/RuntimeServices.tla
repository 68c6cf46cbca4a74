-------------------------- MODULE RuntimeServices --------------------------
(***************************************************************************)
(* The services of the runtime that guests call, in one frame: display     *)
(* lists (GeLists), files (GuestFiles), movies (MoviePlayer), ATRAC        *)
(* streams (AtracStream) and the guest heap (KernelHeap).  No stub uses    *)
(* two of them and none keeps state of another, so that a behaviour of the *)
(* runtime, seen from one service, is a behaviour in which the guests use  *)
(* that service only: `part' is chosen at the start and never changes.     *)
(***************************************************************************)
EXTENDS Integers, TLC

CONSTANTS
    Parts,                          \* the services to look at
    CallsOf,                        \* bound: calls of the guests, per service
    Threads,                        \* guest threads
    Programs, Starts, Stalls, NoStall, Depth,           \* GeLists
    MaxWords, CallbackIds, MaxLists,
    Paths, Lengths, Entries, SectorSize, Limit,         \* GuestFiles
    ReadSizes, Offsets, MaxFiles,
    Movie, Packets, PacketSize, FrameSize,              \* MoviePlayer
    MaxUnits, MaxEngines,
    Decoders, RiffFiles, BufferSizes, Offset, Align,    \* AtracStream
    FrameSamples, Delay, LoopCounts, AddSizes,
    Word, MemoryBase, UserStart, ImageStart, ImageSize, \* KernelHeap
    StackTop, Coarse, Fine, MinStack, TlsSize, CallbackStack, Sizes, StackSizes,
    Counts, MaxObjects

VARIABLES
    part, calls,
    memory, lists, queue, regs, run, pending, callbacks,        \* GeLists
    texels, palette, clut, saved, out, origin, executed, disturbed, raised, dispatched, refused,
    files, views, sectors, results, directories, next, host,    \* GuestFiles
    length, current, started, latest, waited, transfer,
    ring, media, engine, put, taken, position, fed, skipped,    \* MoviePlayer
    got, decoded,
    decoders, decode,                                           \* AtracStream
    freeBlocks, heapCursor, stackCursor, objects                \* KernelHeap

Ge    == INSTANCE GeLists
Files == INSTANCE GuestFiles WITH Sizes <- ReadSizes
Mpeg  == INSTANCE MoviePlayer WITH MovieThreads <- Threads
Atrac == INSTANCE AtracStream
Heap  == INSTANCE KernelHeap

AllParts == {"ge", "files", "movie", "atrac", "heap"}

ASSUME ServicesAssumption ==
    /\ Parts \subseteq AllParts /\ CallsOf \in [AllParts -> Nat]
    /\ Ge!GeAssumption /\ Files!FilesAssumption /\ Mpeg!MovieAssumption
    /\ Atrac!AtracAssumption /\ Heap!HeapAssumption

ge     == <<memory, lists, queue, regs, run, pending, callbacks, texels, palette, clut,
            saved, out, origin, executed, disturbed, raised, dispatched, refused>>
file   == <<files, views, sectors, results, directories, next, host, length, current,
            started, latest, waited, transfer>>
mpeg   == <<ring, media, engine, put, taken, position, fed, skipped, got, decoded>>
atrac  == <<decoders, decode>>
heap   == <<freeBlocks, heapCursor, stackCursor, objects>>
vars   == <<part, calls, ge, file, mpeg, atrac, heap>>

Init ==
    /\ part \in Parts /\ calls = CallsOf[part]
    /\ Ge!GeInit /\ Files!FilesInit /\ Mpeg!MovieInit /\ Atrac!AtracInit /\ Heap!Init
    /\ part = "ge" \/ memory = CHOOSE program \in Programs : TRUE

\* What the service does not use does not change.
Frame ==
    /\ UNCHANGED part
    /\ IF part = "ge"    THEN TRUE ELSE UNCHANGED ge
    /\ IF part = "files" THEN TRUE ELSE UNCHANGED file
    /\ IF part = "movie" THEN TRUE ELSE UNCHANGED mpeg
    /\ IF part = "atrac" THEN TRUE ELSE UNCHANGED atrac
    /\ IF part = "heap"  THEN TRUE ELSE UNCHANGED heap

\* A call of a guest, of those the bound leaves.
Call ==
    /\ calls > 0 /\ calls' = calls - 1
    /\ \/ part = "ge"    /\ Ge!GeCalls
       \/ part = "files" /\ Files!FilesNext
       \/ part = "movie" /\ Mpeg!MovieCalls
       \/ part = "atrac" /\ Atrac!AtracNext
    /\ Frame

\* A call goes on: a list is executed, a callback returns, a frame is decoded.
\* The calls of the heap are bounded by MaxObjects.
Step ==
    /\ \/ part = "ge"    /\ Ge!GeSteps
       \/ part = "movie" /\ Mpeg!MovieSteps
       \/ part = "heap"  /\ Heap!Next
    /\ UNCHANGED calls /\ Frame

Next == Call \/ Step

Spec == Init /\ [][Next]_vars
-----------------------------------------------------------------------------
(* The properties of the services; each is explained in its module, and    *)
(* each has the types of its service's variables in it.                    *)

(***************************************************************************)
(* The queue holds the unfinished display lists, each once; the callback   *)
(* of each signal is dispatched once; a texture is used only as it is in   *)
(* memory; and stalls and breaks are invisible in what a list draws.       *)
(***************************************************************************)
GeSound ==
    part = "ge" =>
      /\ Ge!GeTypeOK /\ Ge!QueueHoldsUnfinished /\ Ge!EveryCallbackOnce
      /\ Ge!TexturesFresh /\ Ge!StallsInvisible

(***************************************************************************)
(* The tables of descriptors belong together, no read leaves the part of   *)
(* the disc a descriptor stands for or starts inside a sector, and a wait  *)
(* gets the result of the latest operation of its descriptor.              *)
(***************************************************************************)
FilesSound ==
    part = "files" =>
      /\ Files!FilesTypeOK /\ Files!TablesAgree /\ Files!ReadsWithinView
      /\ Files!WholeSectors /\ Files!ResultOfLatest

(***************************************************************************)
(* No piece of a movie is lost or repeated on its way through ring and     *)
(* queues, a unit is decoded once and after it was handed out, the free    *)
(* packets reported are free and the callback writes inside of the ring.   *)
(***************************************************************************)
MoviePiecesKept ==
    part = "movie" =>
      /\ Mpeg!MovieTypeOK /\ Mpeg!NoPieceLost /\ Mpeg!DecodedOnce
      /\ Mpeg!WithinCapacity /\ Mpeg!CallbackInsideRing

(***************************************************************************)
(* A decoder plays what follows, through loops and seeks, stands where it  *)
(* says, delivers as many samples as it announced, and offers no window    *)
(* for more data that holds something still to be read.                    *)
(***************************************************************************)
AtracPlaysOn ==
    part = "atrac" =>
      /\ Atrac!AtracTypeOK /\ Atrac!PlaysWhatFollows /\ Atrac!PositionTrue
      /\ Atrac!NextSampleKept /\ Atrac!WindowFree

(***************************************************************************)
(* No byte of guest memory belongs to two owners, returned memory is free  *)
(* again byte for byte, in a list that is sorted and joined, and a pool    *)
(* that cannot be created costs no more than padding.                      *)
(***************************************************************************)
HeapSound ==
    /\ [](part = "heap" => Heap!TypeOK /\ Heap!NoOverlap)
    /\ Heap!FreeListJoined /\ Heap!ReturnedIsFree /\ Heap!FailedPoolReturnsMemory
-----------------------------------------------------------------------------
(* The instance for TLC *)

\* Bounds: calls of the guests on each service.
MCCalls == "ge" :> 4 @@ "files" :> 5 @@ "movie" :> 7 @@ "atrac" :> 10 @@ "heap" :> 0

\* Display lists.
C(o, a) == [op |-> o, arg |-> a]

\* Calls with their own offset, signals and a finish; another list behind them.
Calling ==
    0 :> C("origin", 0) @@ 1 :> C("call", 6) @@ 2 :> C("vaddr", 5) @@ 3 :> C("prim", 1)
    @@ 4 :> C("finish", 1) @@ 5 :> C("end", 0) @@ 6 :> C("offset", 1) @@ 7 :> C("vaddr", 3)
    @@ 8 :> C("prim", 2) @@ 9 :> C("signal", 1) @@ 10 :> C("ret", 0) @@ 11 :> C("prim", 3)
    @@ 12 :> C("end", 0)
\* Conditional jumps, a palette and a block transfer between draws.
Boxes ==
    0 :> C("box", 0) @@ 1 :> C("bjump", 3) @@ 2 :> C("prim", 5) @@ 3 :> C("box", 1)
    @@ 4 :> C("bjump", 1) @@ 5 :> C("prim", 1) @@ 6 :> C("clut", 0) @@ 7 :> C("prim", 1)
    @@ 8 :> C("transfer", 0) @@ 9 :> C("prim", 1) @@ 10 :> C("end", 0)
\* More calls than the stack holds, and a base register.
Deep ==
    0 :> C("call", 0) @@ 1 :> C("ret", 0) @@ 2 :> C("base", 1) @@ 3 :> C("jump", 3)
    @@ 4 :> C("prim", 1) @@ 5 :> C("end", 0)
\* A list without end, and one that leaves memory.
Endless == 0 :> C("prim", 1) @@ 1 :> C("jump", 0)
Torn == 0 :> C("signal", 1) @@ 1 :> C("jump", 20)
MCPrograms == {Calling, Boxes, Deep, Endless, Torn}

\* Files: one that grows, sectors of the disc (sized, unsized, past its end)
\* and the whole disc.
P(k, b, s, w) == [kind |-> k, base |-> b, size |-> s, write |-> w]
MCPaths ==
    {P("plain", 0, 0, TRUE), P("raw", 2, 2, FALSE), P("raw", 2, 0, FALSE),
     P("raw", 9, 0, FALSE), P("whole", 0, 0, FALSE)}
MCLengths == "plain" :> 1 @@ "disc" :> 5
MCOffsets == {-1, 1, 3}

\* A movie of five video and two audio packets; frames start inside packets.
M(kind, i, a, b) ==
    [kind |-> kind, pieces |-> <<[n |-> i, start |-> a], [n |-> i + 1, start |-> b]>>]
MCMovie ==
    <<M("video", 1, TRUE, FALSE), M("video", 3, FALSE, TRUE), M("audio", 5, TRUE, FALSE),
      M("video", 7, FALSE, FALSE), M("audio", 9, FALSE, TRUE), M("video", 11, FALSE, TRUE),
      M("video", 13, TRUE, FALSE)>>

\* ATRAC files: without a loop, with one, with one and a bad frame, and with one
\* that is shorter than a frame.
F(fact, first, loop, bytes, size, bad) ==
    [fact |-> fact, first |-> first, loop |-> loop, bytes |-> bytes, size |-> size, bad |-> bad]
MCFiles ==
    {F(0, 1, <<>>, 8, 11, {}), F(7, 1, <<3, 6>>, 8, 10, {}), F(6, 2, <<2, 5>>, 8, 10, {2}),
     F(5, 0, <<0, 0>>, 4, 6, {})}
MCLoopCounts == {-1, 0, 2}

Symmetry == Permutations(Threads)
=============================================================================
