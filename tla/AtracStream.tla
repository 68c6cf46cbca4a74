---------------------------- MODULE AtracStream ----------------------------
(***************************************************************************)
(* ATRAC playback (stubs/audio/atrac_state.hpp and the sceAtrac stubs): up *)
(* to six decoders, each with a track read from a RIFF file, the part of   *)
(* the file streamed in so far, and a position that is moved by decoding,  *)
(* by loops and by sceAtracResetPlayPosition.  Each call is one step under *)
(* the decoder's mutex.  What the codec computes is left out, but that it  *)
(* may refuse a frame; all positions are kept.                             *)
(***************************************************************************)
EXTENDS Integers, FiniteSets

CONSTANTS
    Decoders,       \* decoder ids (6)
    RiffFiles,      \* files to play: [fact, first, loop, bytes, size, bad]
    BufferSizes,    \* sizes of the guest's buffer, the bytes first handed over
    Offset,         \* data_offset
    Align,          \* block_align
    FrameSamples,   \* samples_per_frame
    Delay,          \* decoder_delay
    LoopCounts,     \* loop counts the guest sets, -1 being endless
    AddSizes        \* bytes added at a time

AtracAssumption ==
    /\ Offset \in Nat /\ Align \in Nat \ {0} /\ FrameSamples \in Nat \ {0} /\ Delay \in Nat
    /\ LoopCounts \subseteq Int /\ AddSizes \subseteq Nat /\ BufferSizes \subseteq Nat
    /\ RiffFiles \subseteq [fact : Nat, first : Nat, loop : {<<>>} \cup [1..2 -> Nat],
                           bytes : Nat, size : Nat, bad : SUBSET Nat]

VARIABLES
    decoders,       \* the decoders by id
    decode          \* history: what the last sceAtracDecodeData did

atracVars == <<decoders, decode>>

NoLoop == <<>>
NoTrack == [end |-> -1]
Quiet == [status |-> "none"]
Least(a, b) == IF a < b THEN a ELSE b

AtracInit == decoders = <<>> /\ decode = Quiet

-----------------------------------------------------------------------------
(* parse_riff, from the chunks on *)

\* The last playable sample: from the fact chunk, or from the data's frames.
EndSample(f) ==
    LET playable == (f.bytes \div Align) * FrameSamples - f.first
    IN  IF f.fact # 0 THEN f.fact - 1
        ELSE IF playable > 0 THEN playable - 1 ELSE 0

\* Loop points count from the encoder delay, samples from the first playable.
LoopPoints(f) == [i \in DOMAIN f.loop |-> f.loop[i] - f.first]

Parse(f) ==
    LET loop == LoopPoints(f)
    IN  IF loop # NoLoop /\ ~(0 <= loop[1] /\ loop[1] <= loop[2] /\ loop[2] <= EndSample(f))
          THEN NoTrack
        ELSE [end |-> EndSample(f), loop |-> loop, skip |-> f.first + Delay,
              dataEnd |-> Offset + f.bytes, file |-> f.size, bad |-> f.bad]

-----------------------------------------------------------------------------
(* Decoder *)

Rewound(d) ==
    [d EXCEPT !.cursor = Offset, !.samples = 0, !.skip = d.track.skip,
              !.finished = FALSE, !.true = TRUE, !.fresh = FALSE]

\* The frame a sample is in, and the packets that are decoded before it.
FrameOf(d, sample) == (d.track.skip + sample) \div FrameSamples
Preroll(frame) == {p \in {frame - 2, frame - 1} : p >= 0}

CanSeek(d, sample) ==
    /\ sample <= d.track.end
    /\ Offset + FrameOf(d, sample) * Align < d.size
    /\ \A p \in Preroll(FrameOf(d, sample)) :
         Offset + (p + 1) * Align <= d.size /\ p \notin d.track.bad

\* Mutant of Sought: the samples in front of the target are played.
SoughtFrame(d, sample) ==
    [d EXCEPT !.cursor = Offset + FrameOf(d, sample) * Align, !.samples = sample,
              !.skip = 0, !.finished = FALSE, !.true = TRUE, !.fresh = FALSE]

Sought(d, sample) ==
    [d EXCEPT !.cursor = Offset + FrameOf(d, sample) * Align, !.samples = sample,
              !.skip = (d.track.skip + sample) % FrameSamples, !.finished = FALSE,
              !.true = TRUE, !.fresh = FALSE]

LoopActive(d) == d.loops # 0 /\ d.track.loop # NoLoop

Limited(d, available) ==
    IF ~LoopActive(d) \/ d.samples > d.track.loop[2] THEN available
    ELSE Least(available, d.track.loop[2] + 1 - d.samples)

CountedDown(d) == [d EXCEPT !.loops = IF @ > 0 THEN @ - 1 ELSE @]

\* Back to the start of the loop, now or as soon as it can be.
Looped(d) ==
    IF CanSeek(d, d.track.loop[1])
      THEN CountedDown([Sought(d, d.track.loop[1]) EXCEPT !.looping = FALSE])
      ELSE [d EXCEPT !.looping = TRUE]

Advanced(d, count) ==
    LET e == [d EXCEPT !.samples = @ + count]
    IN  IF LoopActive(e) /\ e.samples > e.track.loop[2] THEN Looped(e) ELSE e

Remaining(d) == IF d.track.end + 1 > d.samples THEN d.track.end + 1 - d.samples ELSE 0
FrameLeft(d) == IF FrameSamples > d.skip THEN FrameSamples - d.skip ELSE 0

\* next_samples, without the check of finished
NextSamples(d) == Limited(d, Least(FrameLeft(d), Remaining(d)))

\* What decode leaves out of a frame at its beginning, and what it gives.
Skipped(d) == Least(d.skip, FrameSamples)
Output(d) == Limited(d, Least(FrameSamples - Skipped(d), Remaining(d)))

\* Where decode starts, as [d, status]: a pending loop is made up for, and a
\* track that is over starts again while there are loops left.
PendingLoop(d) ==
    IF ~d.looping THEN [d |-> d, status |-> "go"]
    ELSE IF d.track.loop # NoLoop /\ CanSeek(d, d.track.loop[1])
      THEN [d |-> Looped(d), status |-> "go"]
    ELSE [d |-> d, status |-> "no_data"]

AgainIf(over, r) ==
    IF r.status # "go" \/ ~over THEN r
    ELSE IF r.d.loops # 0 THEN [r EXCEPT !.d = CountedDown(Rewound(r.d))]
    ELSE [d |-> [r.d EXCEPT !.finished = TRUE], status |-> "all_decoded"]

AvailableEnd(d) == Least(d.track.dataEnd, d.size)
NeedsData(d) == d.cursor + Align > AvailableEnd(d)

Ready(d) ==
    LET a == PendingLoop(d)
        b == AgainIf(a.d.samples > a.d.track.end, a)
    IN  IF b.status = "go" /\ NeedsData(b.d) /\ AvailableEnd(b.d) < b.d.track.dataEnd
          THEN [b EXCEPT !.status = "no_data"]
        ELSE LET c == AgainIf(NeedsData(b.d), b)
             IN  IF c.status = "go" /\ c.d.cursor + Align > c.d.size
                   THEN [c EXCEPT !.status = "no_data"] ELSE c

\* decode of one frame; a frame the codec refuses is passed over.
Decoded(d) ==
    LET r == Ready(d)
        frame == (r.d.cursor - Offset) \div Align
        e == [r.d EXCEPT !.cursor = @ + Align]
        count == Output(e)
        f == Advanced([e EXCEPT !.skip = @ - Skipped(e)], count)
        end == f.samples > f.track.end /\ f.loops = 0
        from == frame * FrameSamples + r.d.skip - d.track.skip
    IN  IF r.status # "go" THEN [d |-> r.d, did |-> [status |-> r.status]]
        ELSE IF frame \in d.track.bad
          THEN [d |-> [e EXCEPT !.true = FALSE], did |-> [status |-> "bad"]]
        ELSE [d |-> [f EXCEPT !.finished = end],
              did |-> [status |-> "ok", from |-> from, count |-> count,
                       promised |-> NextSamples(d), again |-> r.d # d,
                       before |-> d, looped |-> LoopActive(r.d), true |-> r.d.true]]

-----------------------------------------------------------------------------
(* Calls *)

Change(id, d) == decoders' = [decoders EXCEPT ![id] = d]

\* sceAtracGetAtracID and sceAtracSetDataAndGetID take the lowest free id.
GetAtracID ==
    /\ \E id \in Decoders \ DOMAIN decoders :
         /\ \A i \in Decoders \ DOMAIN decoders : id <= i
         /\ decoders' = [i \in DOMAIN decoders \cup {id} |->
              IF i \in DOMAIN decoders THEN decoders[i]
              ELSE [track |-> NoTrack, buffer |-> 0, size |-> 0, cursor |-> 0,
                    samples |-> 0, skip |-> 0, loops |-> 0, finished |-> FALSE,
                    looping |-> FALSE, writable |-> 0, fresh |-> FALSE, true |-> TRUE]]
    /\ UNCHANGED decode

ReleaseAtracID(id) ==
    /\ decoders' = [i \in DOMAIN decoders \ {id} |-> decoders[i]]
    /\ decode' = Quiet

\* Loop count, pending loop and pending window of the stream survive.
SetData(id, f, size) ==
    /\ Parse(f) # NoTrack
    /\ Change(id, Rewound([decoders[id] EXCEPT !.track = Parse(f), !.buffer = size,
                                               !.size = size]))
    /\ decode' = Quiet

SetLoopNum(id, n) ==
    /\ decoders[id].track # NoTrack /\ decoders[id].track.loop # NoLoop
    /\ Change(id, [decoders[id] EXCEPT !.loops = n])
    /\ decode' = Quiet

ResetPlayPosition(id, sample) ==
    /\ decoders[id].track # NoTrack /\ CanSeek(decoders[id], sample)
    /\ Change(id, Sought(decoders[id], sample))
    /\ decode' = Quiet

\* stream_data_info: up to the end of the ring, of the free bytes, of the file.
Writable(d) ==
    LET retained == IF d.size > d.cursor THEN d.size - d.cursor ELSE 0
    IN  IF d.size >= d.track.file \/ retained >= d.buffer THEN 0
        ELSE Least(d.buffer - retained,
                   Least(d.buffer - (d.size % d.buffer), d.track.file - d.size))

GetStreamDataInfo(id) ==
    /\ decoders[id].track # NoTrack
    /\ Change(id, [decoders[id] EXCEPT !.writable = Writable(decoders[id]), !.fresh = TRUE])
    /\ UNCHANGED decode

AddStreamData(id, n) ==
    /\ n <= decoders[id].writable
    /\ Change(id, [decoders[id] EXCEPT !.size = @ + n, !.writable = @ - n])
    /\ UNCHANGED decode

DecodeData(id) ==
    /\ decoders[id].track # NoTrack
    /\ Change(id, Decoded(decoders[id]).d)
    /\ decode' = Decoded(decoders[id]).did

AtracNext ==
    \/ GetAtracID
    \/ \E id \in DOMAIN decoders :
         \/ ReleaseAtracID(id) \/ GetStreamDataInfo(id) \/ DecodeData(id)
         \/ \E f \in RiffFiles, size \in BufferSizes : SetData(id, f, size)
         \/ \E n \in LoopCounts : SetLoopNum(id, n)
         \/ \E sample \in {0, 1, decoders[id].track.end} : ResetPlayPosition(id, sample)
         \/ \E n \in AddSizes : AddStreamData(id, n)

-----------------------------------------------------------------------------
(* Properties *)

\* Decoders are those that were created, and their counters are numbers.
AtracTypeOK ==
    /\ DOMAIN decoders \subseteq Decoders
    /\ \A id \in DOMAIN decoders : decoders[id].samples \in Nat /\ decoders[id].skip \in Nat

Playing == {id \in DOMAIN decoders : decoders[id].track # NoTrack /\ decoders[id].true}

(***************************************************************************)
(* The counter of decoded samples is the place in the track the data       *)
(* cursor stands at, after any sequence of decodes, loops and seeks,       *)
(* unless a frame could not be decoded or the end cut a frame short.       *)
(***************************************************************************)
PositionTrue ==
    \A id \in Playing :
      LET d == decoders[id]
      IN  d.samples <= d.track.end /\ ~d.looping =>
            d.track.skip + d.samples
              = ((d.cursor - Offset) \div Align) * FrameSamples + d.skip

(***************************************************************************)
(* What a decode plays is what follows: the sample at the position before  *)
(* it, or the start of the track or of the loop when it starts again; and  *)
(* a track is never played past its end, nor a loop that is active once    *)
(* the decode has started again: the last time it is played on behind it.  *)
(***************************************************************************)
PlaysWhatFollows ==
    decode.status = "ok" /\ decode.true /\ decode.count > 0 =>
      LET d == decode.before
      IN  /\ IF decode.again
               THEN decode.from \in {0} \cup {d.track.loop[i] : i \in DOMAIN d.track.loop \ {2}}
               ELSE decode.from = d.samples
          /\ decode.from + decode.count <= d.track.end + 1
          /\ decode.looped /\ decode.from <= d.track.loop[2] =>
               decode.from + decode.count <= d.track.loop[2] + 1

(***************************************************************************)
(* sceAtracGetNextSample tells the number of samples the next decode will  *)
(* give, unless that decode first goes back to a start.                    *)
(***************************************************************************)
NextSampleKept ==
    decode.status = "ok" /\ ~decode.again => decode.promised = decode.count

(***************************************************************************)
(* The window sceAtracGetStreamDataInfo offers lies in the file, does not  *)
(* wrap in the guest's buffer and leaves what is not yet decoded alone,    *)
(* until the guest sets other data or the position goes back.              *)
(***************************************************************************)
WindowFree ==
    \A id \in DOMAIN decoders :
      LET d == decoders[id]
      IN  d.fresh /\ d.writable > 0 =>
            /\ d.size + d.writable <= d.track.file
            /\ (d.size % d.buffer) + d.writable <= d.buffer
            /\ d.size < d.cursor \/ d.size - d.cursor + d.writable <= d.buffer
=============================================================================
